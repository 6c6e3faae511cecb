SPECIFICATION FairSpec
CONSTANTS
    MaxTurns = 2
    MaxCalls = 1
    MaxAttempts = 1
    MaxExtras = 1
    MaxCancels = 1
CHECK_DEADLOCK FALSE
INVARIANTS
    OneTurnRuns
    OneStopEach
    ToolsAreAnswered
PROPERTIES
    RefusalSparesOthers
    EveryTurnEnds
