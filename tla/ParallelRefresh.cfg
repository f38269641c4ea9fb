SPECIFICATION Spec
CONSTANTS
    Call = {c1, c2}
    Ops = {"read", "check"}
INVARIANTS
    TransparentRecovery
CHECK_DEADLOCK FALSE
