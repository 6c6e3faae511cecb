SPECIFICATION Spec
CONSTANTS
    Spots = {a}
    MaxCalls = 5
INVARIANTS
    OnlyTheAgentsIsDeleted
CHECK_DEADLOCK FALSE
