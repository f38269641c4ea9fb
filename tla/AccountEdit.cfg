SPECIFICATION Spec
CONSTANTS
    Slot = {h1, h2, h3}
    MaxAttempts = 3
    LockTime = 1
    MaxCount = 3
    MaxNow = 1
SYMMETRY Symmetry
INVARIANTS
    FirstFailuresCounted
CHECK_DEADLOCK FALSE
