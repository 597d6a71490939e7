SPECIFICATION Spec
CONSTANTS
    s1 = s1
    s2 = s2
    s3 = s3
    Users = {u1, u2, u3}
    Schedules <- MCSchedules
    TotalSlots <- MCTotalSlots
    None = None
    MaxDay = 2
    MaxRounds = 2
SYMMETRY UserSymmetry
CHECK_DEADLOCK FALSE
INVARIANT NotOversold
