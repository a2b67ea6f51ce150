SPECIFICATION Spec
CONSTANTS
    Limit = 2
    MaxIds = 3
    MaxBoots = 2
    Sorts = {"idle", "age"}
    Filters = {"", "get"}
    MaxEdits = 3
    Keys = {1, 2, 3}
    Batches = 2
    MaxSize = 2
    SampleMax = 2
    TopK = 1
    Cmds = {get, set}
    MaxCalls = 3
    MaxResets = 1
    MaxPause = 2
    Timeout = 1
    MaxClients = 3
    MaxNumber = 1
    Limits = {1, 2}
    Capacity = 2
    Event <- MCEvent
    NoEvent = NoEvent
    Window = 1
    MaxSkew = 1
    MaxNow = 2
    MaxLines = 3
    Addrs = {a, b, c}
    Origin = a
    NoAddr = ""
    Phantom = ":"
    MaxFailovers = 1
    MaxFlags = 2
SYMMETRY Symmetry
INVARIANTS
    TypeOK
    NewExactlyOnce
    ChangesLiftThrottle
    WholeWalkIsTop
    RatesAreCalls
    ListIsHonest
    CountsAreRecent
    TreeAgrees
    HomeIsOrigin
    StartsSound
PROPERTIES
    ImplementsRecent
    EnterGoesToMarked
