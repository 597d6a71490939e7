SPECIFICATION FairSpec
CONSTANTS
    s1 = s1
    s2 = s2
    Users = {u1, u2}
    Schedules <- MCSchedules
    TotalSlots <- MCTotalSlots
    None = None
    MaxDay = 2
    MaxRounds = 1
    MaxFaults = 2
CHECK_DEADLOCK FALSE
INVARIANT TypeOK
INVARIANT SeatsAccounted
INVARIANT RowsWithinSeats
INVARIANT CollisionsExplained
PROPERTY EventuallySettled
