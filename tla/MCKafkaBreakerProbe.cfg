SPECIFICATION Spec
CONSTANTS
    Requests = {r1}
    Threshold = 2
INVARIANT ProbeReportSettles
