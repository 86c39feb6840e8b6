SPECIFICATION Spec
CONSTANTS
    Requests = {r1, r2}
    Docs = {d1, d2}
    CreateDocs = {d1}
    CustomTags = {}
    Kinds = {"config"}
    MaxVersion = 3
    MaxPk = 1
    MayCrash = FALSE
    MayRemove = FALSE
    Absent = Absent
    Cleared = Cleared
INVARIANT LatestIsHighestLive
