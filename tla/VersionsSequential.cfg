SPECIFICATION Spec
CONSTANTS
    Requests = {r1}
    Docs = {d1, d2}
    CreateDocs = {d1, d2}
    CustomTags = {t1}
    Kinds = {"config", "template", "secret"}
    MaxVersion = 3
    MaxPk = 2
    MayCrash = FALSE
    MayRemove = TRUE
    Absent = Absent
    Cleared = Cleared
INVARIANTS TypeOK LatestIsHighestLive AcknowledgedUpdateIsLatest
PROPERTY ImplementsStore
