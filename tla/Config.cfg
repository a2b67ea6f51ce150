SPECIFICATION Spec
CONSTANTS
    MaxFlags = 2
INVARIANT
    RefreshIsUsed
