SPECIFICATION Spec
CONSTANTS
    Requests = {"alice"}
    Casts = {"yaml"}
    Paths = {"root", "overlay", "secret"}
    Root = "root"
    Optional = {"overlay"}
    Secrets = {"secret"}
    Extends <- MCExtends
    Permitted <- MCPermitted
    MaxVersion = 2
    MaxLives = 1
    MaxEvents = 2
INVARIANTS
    SkippedSourcesWereMissing
CHECK_DEADLOCK FALSE
