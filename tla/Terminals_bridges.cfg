SPECIFICATION FairSpec
CONSTANTS
    Sessions = {s1, s2}
    Sockets = {w1, w2}
    Capacity = 1
    MaxOutput = 2
INVARIANTS
    NothingIsLeftBehind
PROPERTIES
    EveryBridgeIsJoined
CHECK_DEADLOCK FALSE
