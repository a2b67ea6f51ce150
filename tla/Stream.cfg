SPECIFICATION Spec
CONSTANT
    MaxStarts = 3
INVARIANTS
    RunningIsAlive
    NoOrphan
    OneLateEvent
    StrangersAreLate
PROPERTY
    CancelledEnds
