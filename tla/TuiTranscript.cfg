CONSTANTS
    Capacity = 2
    MaxSpan = 2
    Streams = 2
    MaxSent = 7
    Runs = 2
    MaxPieces = 2
    MaxOther = 1
SPECIFICATION TranscriptSpec
INVARIANTS
    ShownTextIsWhole
    AnswerStays
    NothingLeftOver
PROPERTIES
    ImplementsChannel
CHECK_DEADLOCK FALSE
