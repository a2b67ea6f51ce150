SPECIFICATION Spec
CONSTANTS
    Panels = {"dashboard"}
    NodeIds = {n1}
    Runners = {r1, r2}
    MaxChanges = 1
PROPERTY
    Heals ShutdownTerminates
