SPECIFICATION Safety
CONSTANTS
    Panels = {"clients", "dashboard"}
    NodeIds = {n1}
    Runners = {r1, r2, r3}
    MaxChanges = 0
SYMMETRY RunnerSymmetry
INVARIANTS
    TypeOK
    NoUseAfterClose
    ErrorsAreNews
PROPERTY
    NoSpawnWhileWaiting
