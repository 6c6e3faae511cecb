SPECIFICATION FairSpec
CONSTANTS
    Single = {r1}
    Streaming = {s1}
    Capacity = 2
    MaxEnvelopes = 4
INVARIANTS
    HandledInOrder
    StreamsAreToldTheirEnd
PROPERTIES
    EveryRequestEnds
CHECK_DEADLOCK FALSE
