SPECIFICATION FairSpec
CONSTANTS
    Requests = {r1, r2}
    Paths <- SmallPaths
    Kinds = {"config", "secret"}
    Clients = {"one", "many"}
    MayCrash = TRUE
    MaxCalls = 3
    MaxOverlaps = 2
    MaxLockCalls = 2
    MaxBirths = 2
    NoRow = NoRow
    NoParent = NoParent
INVARIANTS TypeOK ParentsFollowPaths FoldersHaveContents NoLockIsPassed
PROPERTIES ImplementsPathTree CallsEnd
CHECK_DEADLOCK FALSE
