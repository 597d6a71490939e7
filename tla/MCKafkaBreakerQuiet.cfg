SPECIFICATION FairSpec
CONSTANTS
    Requests = {r1, r2}
    Threshold = 2
PROPERTY RecoversByItself
