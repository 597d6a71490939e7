SPECIFICATION FairSpec
CONSTANTS
    i1 = i1
    u10 = u10
    Requests = {r1}
    Threshold = 1
    Ips <- MCIps
    Users <- MCUsers
    Stained <- MCUsers
    None = None
    Traffic <- Bookings
    IpQuota = 1
    UserQuota = 1
PROPERTY OutageOpensBreaker
