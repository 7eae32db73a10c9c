CONSTANTS
    sweep = sweep
    single = single
    resume = resume
    d1 = d1
    d2 = d2
    root = root
    k1 = k1
    k2 = k2
    a = a
    b = b
    Launchers = {sweep, single, resume}
    Dirs = {d1, d2}
    Places = {d1, d2, root}
    Keys = {k1, k2}
    Configs = {a, b}
    Runs <- MCRuns
    Root <- MCRoot
    Asked <- MCAsked
    KeyOf <- MCKeyOf
    Refresh = {single}
    Slots <- MCSlots
    MaxLosses = 1
    Nobody = Nobody
    NoConfig = NoConfig
    NoKey = NoKey
SPECIFICATION Spec
INVARIANTS
    TypeOK
    NoContention
    CompleteIsTrue
PROPERTIES
    NothingTwice
    Settles
CHECK_DEADLOCK FALSE
