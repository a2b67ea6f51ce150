SPECIFICATION Safety
CONSTANTS
    Addrs = {a, b}
    NoAddr = NoAddr
    Panels = {"replication"}
    MaxSwitches = 2
INVARIANT
    ReconnectIsReal
