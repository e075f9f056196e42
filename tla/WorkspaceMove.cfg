CONSTANTS
    Dir = {d1, d2}
    Missing = Missing
    MaxRecords = 2
    MaxChanges = 2
    MaxTrouble = 2
SPECIFICATION Spec
INVARIANTS
    ReportIsTrue
    NoRecordLost
    NotSplit
CHECK_DEADLOCK FALSE
