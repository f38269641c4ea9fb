SPECIFICATION Spec
CONSTANTS
    Call = {c1, c2, c3}
    Ops = {"read", "check", "recheck", "login", "logoff"}
SYMMETRY SymmetryCalls
INVARIANTS
    ReplayExplained
    OneRotationPerCall
    
CHECK_DEADLOCK FALSE
