SPECIFICATION Spec
CONSTANTS
    Row = {r1, r2}
    Call = {c1, c2}
    Cooldown = 1
    MaxNow = 2
    MaxRequests = 4
SYMMETRY SymmetryPage
INVARIANTS
    TrackedButtonWakes
    ListAgrees
CHECK_DEADLOCK FALSE
