SPECIFICATION Spec
CONSTANT
    MaxEvents = 3
INVARIANTS
    TypeOK
    PanicNeedsTwoQuits
PROPERTY
    RefreshShown
CHECK_DEADLOCK FALSE
