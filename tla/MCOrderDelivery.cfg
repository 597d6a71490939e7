SPECIFICATION FairSpec
CONSTANTS
    Orders = {o1, o2}
    Instances = {stable, canary}
    Serving = {stable}
    None = None
    MaxFaults <- OneOfEach
INVARIANT TypeOK
INVARIANT SingleCustody
INVARIANT LossNeedsFault
INVARIANT CopiesNeedFault
PROPERTY ImplementsPath
PROPERTY EventuallyStored
