SPECIFICATION FairSpec
CONSTANTS
    None = None
    Sends <- OneMessageEach
    Background <- NoBackground
    MaxConnections = 3
    StreamLength = 1
PROPERTIES
    DeliversAtLeastOnce
CHECK_DEADLOCK FALSE
