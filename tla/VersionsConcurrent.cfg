SPECIFICATION Spec
CONSTANTS
    Requests = {r1, r2}
    Docs = {d1, d2}
    CreateDocs = {d1}
    CustomTags = {}
    Kinds = {"config", "template", "secret"}
    MaxVersion = 3
    MaxPk = 1
    MayCrash = TRUE
    MayRemove = TRUE
    Absent = Absent
    Cleared = Cleared
SYMMETRY RequestSymmetry
INVARIANTS LockRespected VersionsContiguous TagTargetsExist
PROPERTY VersionsImmutable
