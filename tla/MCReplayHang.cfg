CONSTANTS
    r1 = r1
    r2 = r2
    r3 = r3
    r4 = r4
    r5 = r5
    r6 = r6
    s1 = s1
    s2 = s2
    Requests = {r1, r2, r3, r4, r5, r6}
    Sessions = {s1, s2}
    NoSession = NoSession
    NoRequest = NoRequest
    SessionOf <- MCSessionOf
    Before <- MCBefore
    Fresh <- MCFresh
    Declared <- MCDeclared
    Target <- MCTarget
    Trace <- MCTrace
    Arrival <- MCEarlyArrival
    ToolWait <- MCToolWait
    Saturated = FALSE
    MaxUnits = 1
    TickDt = 2
    RunToEnd = TRUE
    Duration = 0
    SamplePeriod = 2
    StuckThreshold = 2
    Unservable = {r1}
    MaxQuiet = 1
    Horizon = 6
SPECIFICATION Spec
PROPERTIES
    Terminates
