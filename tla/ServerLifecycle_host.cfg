SPECIFICATION FairSpec
CONSTANTS
    Proxies = {p1, p2, p3}
    Servers = {s1, s2}
    MaxCrowd = 2
INVARIANTS
    OneServer
    StreamsLeadToOneServer
PROPERTIES
    CalmRefusalsAreTrue
    NoServerIsLeft
CHECK_DEADLOCK FALSE
