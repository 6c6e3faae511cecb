SPECIFICATION FairSpec
CONSTANTS
    None = None
    Sends <- StreamAndQuestions
    Background <- NoBackground
    MaxConnections = 2
    StreamLength = 1
INVARIANTS
    NothingLost
    AnswersAreGenuine
    AnsweredOnce
PROPERTIES
    DeliversAtLeastOnce
    EveryRequestIsAnswered
CHECK_DEADLOCK FALSE
