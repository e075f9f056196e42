CONSTANTS
    N = 3
    Kind <- MCKind
    Foreign = {f1, f2}
    InPlace = {f2}
SPECIFICATION Spec
INVARIANTS
    TruthfulResult
    ResidueExplained
