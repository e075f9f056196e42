CONSTANTS
    N = 3
    Noop = {2}
    Others = {f1, f2}
SPECIFICATION BatchSpec
INVARIANTS
    TruthfulResult
    ResidueExplained
PROPERTIES
    EditsLostOnlyInWindow
