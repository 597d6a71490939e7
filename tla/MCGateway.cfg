SPECIFICATION FairSpec
CONSTANTS
    i1 = i1
    u10 = u10
    Requests = {r1, r2}
    Threshold = 2
    Ips <- MCIps
    Users <- MCUsers
    Stained <- MCUsers
    None = None
    Traffic <- MCTraffic
    IpQuota = 1
    UserQuota = 1
INVARIANT TypeOK
INVARIANT HalfOpenHasProber
INVARIANT CanaryTouchesNothing
PROPERTY EveryRequestAnswered
