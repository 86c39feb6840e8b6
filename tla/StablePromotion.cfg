SPECIFICATION ResolutionSpec
CONSTANTS
    ConfigPaths = {"a", "b", "c"}
    DataKeys = {"k", "n"}
    ConfigDocs <- SomeDocs
    FirstDocs <- Starts
    Requested <- SomeLists
    RequestRefs = {"latest", "stable"}
    MaxDepth = 3
    MaxConfigEdits = 2
INVARIANT PromotesResolvedVersion
CHECK_DEADLOCK FALSE
