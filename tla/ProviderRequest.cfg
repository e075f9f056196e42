CONSTANTS
    MaxTexts = 4
    MaxCalls = 2
    Capacity = 2
SPECIFICATION FairRequest
INVARIANTS
    AnswerIsWhole
PROPERTIES
    RequestEnds
CHECK_DEADLOCK FALSE
