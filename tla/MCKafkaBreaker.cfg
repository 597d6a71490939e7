SPECIFICATION FairSpec
CONSTANTS
    Requests = {r1, r2, r3}
    Threshold = 2
INVARIANT TypeOK
INVARIANT HalfOpenHasProber
PROPERTY HalfOpenResolves
PROPERTY RecoversUnderTraffic
PROPERTY TripTakesThreshold
PROPERTY OpensUnderFailures
