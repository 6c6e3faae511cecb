SPECIFICATION Spec
CONSTANTS
    MaxTurns = 2
    MaxCalls = 1
    MaxAttempts = 1
    MaxExtras = 0
    MaxCancels = 1
PROPERTIES
    NewTurnKeepsItsMessage
CHECK_DEADLOCK FALSE
