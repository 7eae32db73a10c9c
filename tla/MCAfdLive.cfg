CONSTANTS
    r1 = r1
    r2 = r2
    r3 = r3
    r4 = r4
    s1 = s1
    Requests = {r1, r3, r4}
    Sessions = {s1}
    NoSession = NoSession
    NoRequest = NoRequest
    NoPartition = NoPartition
    NoTask = NoTask
    SessionOf <- MCSessionOf
    Before <- MCBefore
    Fresh <- MCLiveFresh
    Declared <- MCDeclared
    Target <- MCLiveTarget
    Key <- MCKey
    NumAttn = 2
    NumFfn = 1
    NumSlots = 2
    NumLayers = 2
    KvCapacity = 4
    KvRetained = 3
SPECIFICATION Spec
PROPERTIES
    BarriersOpen
    ServesByContract
