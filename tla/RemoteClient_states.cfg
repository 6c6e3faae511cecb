SPECIFICATION FairSpec
CONSTANTS
    MAX_MISSED_HEARTBEATS = 3
    MAX_RECONNECT_ATTEMPTS = 2
    MaxConnections = 3
INVARIANTS
    TypeOK
    OneReconnectTask
    OneLiveProxy
    MissCountsAgree
    AttemptsAreBounded
    DisconnectedOnce
    OnlyShutdownPanics
PROPERTIES
    StatusIsAsShown
    ShutdownStopsProxies
    LossIsNoticed
CHECK_DEADLOCK FALSE
