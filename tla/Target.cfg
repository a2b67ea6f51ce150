SPECIFICATION Spec
CONSTANTS
    Addrs = {a, b}
    NoAddr = NoAddr
    Panels = {"commands", "replication"}
    MaxSwitches = 2
INVARIANTS
    TypeOK
    MixedOnlyIfCaught
    ConnectedUnlessUndone
PROPERTY
    FollowsTarget
