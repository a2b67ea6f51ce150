SPECIFICATION Spec
CONSTANT
    MaxEvents = 3
PROPERTY
    QuitEnds
CHECK_DEADLOCK FALSE
