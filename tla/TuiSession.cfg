CONSTANTS
    Prompt = {p1, p2}
    MaxAsks = 1
SPECIFICATION FairSpec
INVARIANTS
    QuestionReachesUser
PROPERTIES
    TextKeptInChat
    FollowUpHeldBack
    WorkEnds
CHECK_DEADLOCK FALSE
