CONSTANTS
    r1 = r1
    r2 = r2
    r3 = r3
    r4 = r4
    r5 = r5
    s1 = s1
    Requests = {r1, r2, r3, r4, r5}
    Sessions = {s1}
    NoSession = NoSession
    NoRequest = NoRequest
    NoPartition = NoPartition
    SessionOf <- MCSessionOf
    Before <- MCBefore
    Configs <- MCAbortConfigs
    NumPartitions = 1
    Capacity = 15
    MaxRetained = 6
    Fresh <- MCLongFresh
    Target <- MCLongTarget
    Declared <- MCLongDeclared
SPECIFICATION Spec
INVARIANTS
    NeverAborts
