CONSTANTS
    r1 = r1
    r2 = r2
    r3 = r3
    r4 = r4
    r5 = r5
    s1 = s1
    Requests = {r1, r2, r3}
    Sessions = {s1}
    NoSession = NoSession
    NoRequest = NoRequest
    NoPartition = NoPartition
    SessionOf <- MCNoSession
    Before <- MCNoBefore
    Configs <- MCUnevenConfigs
    NumPartitions = 1
    Capacity = 19
    MaxRetained = 6
    Fresh <- MCUnevenFresh
    Target <- MCUnevenTarget
    Declared <- MCUnevenDeclared
SPECIFICATION Spec
INVARIANTS
    NeverOverfull
