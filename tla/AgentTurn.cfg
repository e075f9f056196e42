CONSTANTS
    MaxAggregate = 2
    MaxContinuations = 2
    MaxBlank = 1
    MaxProtocol = 1
    MaxExact = 2
    MaxDirectiveTurns = 2
    MaxDirectiveCalls = 2
    MaxSoft = 1
    MaxSteers = 1
    MaxSteps = 2
    MaxBatch = 2
    MaxOwners = 2
SPECIFICATION Spec

INVARIANTS
    Paired
    BlockedIsNotDelivered
    ReviewedIsDelivered
    OneTerminal
    ToldIsRecorded
PROPERTY Answered
