SPECIFICATION Spec
CONSTANTS
    Requests = {r1}
    Docs = {d1, d2}
    CreateDocs = {d1}
    CustomTags = {}
    Kinds = {"secret"}
    MaxVersion = 3
    MaxPk = 1
    MayCrash = FALSE
    MayRemove = FALSE
    Absent = Absent
    Cleared = Cleared
PROPERTY SoftDeleteTakesEffect
