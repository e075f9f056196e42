CONSTANTS
    Foreign = {f1, f2, f3}
    InPlace = {f3}
    Operations = {"create", "replace", "delete"}
SPECIFICATION Spec
INVARIANTS
    KeepsContract
PROPERTY
    VersionsKept
