SPECIFICATION Spec
CONSTANTS
    Names = {dash, keys}
    Runners = {r1, r2, r3}
INVARIANTS
    NoOverlap
    MarkHasRunner
PROPERTY
    ImplementsCoalescer
