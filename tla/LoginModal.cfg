SPECIFICATION Spec
CONSTANTS
    None = None
    Req = {q1, q2}
INVARIANTS
    PollerInv
    OutcomeTruthful
    WaitingIsAlive
PROPERTIES
    PollerEnds
CHECK_DEADLOCK FALSE
