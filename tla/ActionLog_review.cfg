SPECIFICATION Spec
CONSTANTS
    Spots = {a, b}
    MaxCalls = 5
INVARIANTS
    BaseIsAgreed
    OnlyAgentsEditsAreReviewed
    NothingIsOverlooked
CHECK_DEADLOCK FALSE
