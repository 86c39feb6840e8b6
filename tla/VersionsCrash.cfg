SPECIFICATION Spec
CONSTANTS
    Requests = {r1}
    Docs = {d1, d2}
    CreateDocs = {d1}
    CustomTags = {}
    Kinds = {"config"}
    MaxVersion = 3
    MaxPk = 1
    MayCrash = TRUE
    MayRemove = FALSE
    Absent = Absent
    Cleared = Cleared
INVARIANT AcknowledgedUpdateIsLatest
