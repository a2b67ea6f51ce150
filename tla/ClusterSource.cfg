SPECIFICATION Spec
CONSTANTS
    NodeIds = {n1}
    Addrs = {a1, a2}
    Gone = Gone
    Panels = {"commands", "keys"}
    Folders = {"commands"}
    Nobody = Nobody
    MaxChanges = 1
    MaxSwitches = 1
CHECK_DEADLOCK FALSE
INVARIANTS
    TypeOK
    OnePoolPerNode
    BaselineIfOvertaken
    CrashHasCause
PROPERTIES
    ClientStaysDuringCall
    SetTargetReturns
    ClientsHeal
