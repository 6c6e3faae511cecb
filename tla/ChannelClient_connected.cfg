SPECIFICATION Spec
CONSTANTS
    None = None
    Sends <- StreamAndMessages
    Background <- TwoEach
    MaxConnections = 1
    StreamLength = 2
INVARIANTS
    StreamsAreWhole
CHECK_DEADLOCK FALSE
