CONSTANTS
    r1 = r1
    r2 = r2
    r3 = r3
    r4 = r4
    r5 = r5
    r6 = r6
    s1 = s1
    s2 = s2
    Requests = {r1, r2, r3, r4, r5, r6}
    Sessions = {s1, s2}
    NoSession = NoSession
    NoRequest = NoRequest
    NoPartition = NoPartition
    SessionOf <- MCSessionOf
    Before <- MCBefore
    Fresh <- MCFresh
    Declared <- MCDeclared
    Target <- MCTarget
    Key <- MCWork
    NumPartitions = 2
    Capacity = 9
    MaxRetained = 8
    TokenBudget = 2
SPECIFICATION Spec
INVARIANTS
    TypeOK
    OnePlace
    ProgressAgrees
    StoreTotalsAgree
    CapacityHolds
    SingleCopy
PROPERTIES
    AffinityHolds
    ServesByContract
