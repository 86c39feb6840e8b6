SPECIFICATION Spec
CONSTANTS
    Parts = {"rules", "permissions", "webhooks", "artifacts", "propagation", "resolve", "resolvers", "audit", "client"}
    Admins = {a1}
    Checkers = {c1}
    RuleIds = {1, 2}
    CatchAll = 3
    RuleModes = {"alone", "overlapping"}
    MaxRuleWrites = 3
    MaxChecks = 2
    NoRule = NoRule
    Callers = {k1}
    Requests = {q1}
    Documents <- SomeDocuments
    InitialDocument <- NoDocument
    Checks <- SomeChecks
    Resolvers = {"robot"}
    Scope = {"a"}
    NamespaceWriters = {"user"}
    BuiltinPaths = {"_permissions"}
    PermTags = {"latest", "t"}
    MaxPolicies = 3
    MaxPermCalls = 3
    Processes = {p1, p2}
    HookModes = {"alone", "overlapping"}
    MaxHookChanges = 3
    Writers = {w1, w2}
    Sweepers = {s1}
    Inodes = {i1, i2, i3}
    StoreModes = {"alone", "overlapping"}
    StoreMayCrash = TRUE
    NoFile = NoFile
    Targets = {1, 2, 3}
    RefOf <- SomeRefs
    Forbidden = {3}
    PropMayDie = TRUE
    MaxSources = 2
    MaxTargets = 4
    MaxPropCalls = 2
    MaxEdits = 2
    ConfigPaths = {"a", "b", "c"}
    DataKeys = {"k", "n"}
    ConfigDocs <- SomeDocs
    FirstDocs <- Starts
    Requested <- SomeLists
    RequestRefs = {"latest", "stable"}
    MaxDepth = 3
    MaxConfigEdits = 2
    ResolverIds = {1, 2}
    Keepers = {o1, o2}
    Consumers = {u1}
    MaxTokens = 3
    MaxKeeperCalls = 3
    NoResolver = NoResolver
    MaxAudited = 4
    MaxNested = 3
    MaxEnriched = 2
    MaxAuditFailures = 1
    AuditSettings <- SomeSettings
    Exceptions = {"denied"}
    NoDraft = NoDraft
    SdkProcesses = {x1, x2}
    Providers = {"secret", "login", "bearer"}
    RetrySettings = {0, 2}
    SdkModes = {"alone", "together"}
    MaxIssued = 3
    MaxSdkCalls = 2
    MaxMishaps = 2
INVARIANTS
     ServedListIsTable RulesCompile
     ActiveTagNamesPolicy
    
    ArtifactIsWhole ArtifactEndsWhole
     OwnKeysKept
    ResolvesAsDefined ParticipantsDecide 
    TokensAsRotated OneHolder DisabledIsRefused
    EventsTellTheirCalls LossTakesOnlyCallers ParticipantsHaveTheirResolve
    PostTakesEffectOnce SendsAreBounded RefreshedCallsGetIn
CHECK_DEADLOCK FALSE
