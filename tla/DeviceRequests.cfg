SPECIFICATION Spec
CONSTANTS
    h1 = h1
    h2 = h2
    h3 = h3
    NoName = NoName
    NoIp = NoIp
    NoRow = NoRow
    Name = {ana, eve}
    Known = {ana}
    Ip = {i1}
    Row = {a1, a2, a3}
    Slot = {h1, h2, h3}
    Serves <- PollersApart
    CreateLimit = 2
    CreateWindow = 2
    MaxOpen = 2
    Ttl = 1
    MaxAttempts = 2
    LockTtl = 1
    MaxNow = 2
SYMMETRY SymmetryRows
INVARIANTS
    ApprovalLedger
    SessionsBackedByApprovals
    OnlyOwnersApprove
    OpenCapHolds
    CreateLimitHolds
PROPERTIES
    
    FollowsStatusMachine
CHECK_DEADLOCK FALSE
