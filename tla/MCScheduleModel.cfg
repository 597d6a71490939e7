SPECIFICATION FairSpec
CONSTANTS
    Calls = {c1, c2}
    Totals = {t1, t2}
    Absent = Absent
    None = None
    MaxEdits = 3
    MaxFaults = 1
INVARIANT TypeOK
INVARIANT StaleEntryExplained
PROPERTY StockCatchesUp
