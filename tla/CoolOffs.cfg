SPECIFICATION Spec
CONSTANTS
    h1 = h1
    h2 = h2
    Slot = {h1, h2}
    Serves <- Mixed
    Installation = {i1, i2}
    None = None
    MaxAttempts = 2
    LockTime = 1
    MaxPages = 2
    MaxNow = 1
SYMMETRY Symmetry
INVARIANTS
    LockJustified
    OnlyRejectionsCount
    TokenReturnedOrRevoked
    ValidationAgreesWithTest
CHECK_DEADLOCK FALSE
