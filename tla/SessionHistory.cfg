CONSTANTS
    Window = 6
    MaxRuns = 2
    MaxReplies = 2
    MaxCalls = 1
    MaxCompactions = 1
    MaxTroubles = 2
SPECIFICATION HistorySpec
INVARIANTS
    RequestWellFormed
    OnlySettledIsRestored
    AnswersSurvive
    ResumeAgrees
