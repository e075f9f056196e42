CONSTANTS
    MaxCalls = 2
    MaxQueue = 1
    MaxTrouble = 2
    MaxEdits = 1
SPECIFICATION ClientSpec
INVARIANTS
    AnswersOwn
    NoServerLeft
PROPERTIES
    CallEnds
CHECK_DEADLOCK FALSE
