CONSTANTS
    Writer = {w1, w2, w3}
    Old = old
    Missing = missing
    old = old
    a = a
    b = b
    File = {a, b}
    Present = {a}
    Jobs <- MCJobs
    MaxTrouble = 2
SPECIFICATION LedgerSpec
VIEW View
SYMMETRY Symmetry
INVARIANTS
    ReportTruthful
    FilesExplained
    RolledBackOnce

    
