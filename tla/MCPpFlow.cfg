CONSTANTS
    r1 = r1
    r2 = r2
    r3 = r3
    r4 = r4
    s1 = s1
    Requests = {r1, r2, r3, r4}
    Sessions = {s1}
    NoSession = NoSession
    NoRequest = NoRequest
    NoPartition = NoPartition
    Never = Never
    Nothing = Nothing
    SessionOf <- MCSessionOf
    Before <- MCBefore
    Fresh <- MCFresh
    Declared <- MCDeclared
    Target <- MCTarget
    Key <- MCKey
    NumReplicas = 2
    Depth = 3
    Tick = 2
    Costs = {3}
    Transfers = {1}
    BatchTokens = 2
    Balanced = TRUE
    RoundRobin = TRUE
    KvCapacity = 8
    KvRetained = 3
SPECIFICATION Spec
INVARIANTS
    TypeOK
    InOrder
    OneStepInFlight
    ProgressAgrees
    NothingLeftBehind
PROPERTY ServesByContract
CHECK_DEADLOCK FALSE
