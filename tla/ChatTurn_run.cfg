SPECIFICATION FairSpec
CONSTANTS
    Capacity = 2
    MaxChunks = 1
    MaxCalls = 2
    MaxRounds = 3
    MaxBreaks = 1
INVARIANTS
    EventsAreBracketed
    ResultsMatchCalls
    CallsRunOnce
    NothingUnanswered
PROPERTIES
    SavedIsWhole
    EveryRunEnds
CHECK_DEADLOCK FALSE
