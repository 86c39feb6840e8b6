SPECIFICATION Spec
CONSTANTS
    Requests = {r1, r2}
    Paths <- SmallPaths
    Kinds = {"config", "secret"}
    Clients = {"many"}
    MayCrash = FALSE
    MaxCalls = 3
    MaxOverlaps = 3
    MaxLockCalls = 0
    MaxBirths = 2
    NoRow = NoRow
    NoParent = NoParent
PROPERTY PruningSparesItems
CHECK_DEADLOCK FALSE
