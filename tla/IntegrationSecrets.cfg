SPECIFICATION Spec
CONSTANTS
    h1 = h1
    h2 = h2
    NoUser = NoUser
    NoLabel = NoLabel
    NoCred = NoCred
    NoKey = NoKey
    User = {ana}
    Label = {la, lb}
    Cred = {c1, c2, c3}
    Installation = {}
    Key = {k1, k2}
    Current = k2
    Previous = {k1}
    MaxId = 3
    Existing = 2
    ExistingType = {"pat"}
    Slot = {h1, h2}
    Serves <- Secrets
    MaxPerUser = 2
    Cooldown = 1
    BatchSize = 1
    CallTime = 1
    Rotating = TRUE
    MaxNow = 3
SYMMETRY Symmetry
INVARIANTS
    RotationComplete
PROPERTIES
    ReplacementWins
    
CHECK_DEADLOCK FALSE
