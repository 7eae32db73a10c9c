CONSTANTS
    r1 = r1
    r2 = r2
    r3 = r3
    r4 = r4
    s1 = s1
    Requests = {r1, r2, r3, r4}
    Sessions = {s1}
    NoSession = NoSession
    NoRequest = NoRequest
    NoPartition = NoPartition
    NoPull = NoPull
    SessionOf <- MCSessionOf
    Before <- MCBefore
    Fresh <- MCFresh
    Declared <- MCDeclared
    Target <- MCTarget
    PrefillWorkers = {p1, p2}
    DecodeWorkers = {d1}
    PrefillCapacity = 5
    PrefillRetained = 5
    DecodePartitions = 2
    DecodeCapacity = 8
    PullBudget = 4
SPECIFICATION Spec
INVARIANTS
    TypeOK
    HeldUntilPulled
    CapacityHolds
PROPERTIES
    ServesByContract
