SPECIFICATION FlowSpec
CONSTANTS
    h1 = h1
    h2 = h2
    ana = ana
    bob = bob
    i1 = i1
    i2 = i2
    i3 = i3
    NoUser = NoUser
    NoLabel = NoLabel
    NoCred = NoCred
    NoKey = NoKey
    User = {ana, bob}
    Label = {la, lb}
    Cred = {c1, c2}
    Installation = {i1, i2, i3}
    Access <- AnaOnly
    Key = {k2}
    Current = k2
    Previous = {}
    MaxId = 2
    Existing = 0
    ExistingType = {"pat"}
    Slot = {h1, h2}
    Serves <- OneOauth
    MaxPerUser = 1
    Cooldown = 0
    BatchSize = 1
    CallTime = 0
    Rotating = FALSE
    MaxNow = 2
    MaxSid = 2
    StateTtl = 1
    MaxPending = 1
SYMMETRY Symmetry
INVARIANTS
    CapHolds
    StateSingleUse
    
    InstallationProven
    
CHECK_DEADLOCK FALSE
