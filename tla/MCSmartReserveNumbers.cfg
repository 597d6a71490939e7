SPECIFICATION FairSpec
CONSTANTS
    s1 = s1
    s2 = s2
    Users = {u1, u2}
    Schedules <- MCSchedules
    TotalSlots <- MCTotalSlots
    None = None
    MaxDay = 1
    MaxRounds = 1
    MaxFaults = 0
CHECK_DEADLOCK FALSE
PROPERTY EverySeatStored
