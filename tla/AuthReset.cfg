SPECIFICATION Spec
CONSTANTS
    NoUser = NoUser
    NoToken = NoToken
    NoSession = NoSession
    NoPw = NoPw
    NoReset = NoReset
    User = {u1, u2}
    Seeded = {u1}
    Admin = {u1}
    DefaultUser = NoUser
    AlwaysAuth = FALSE
    ApprovalRequired = TRUE
    Password = {p1, p2}
    SeedPw = p1
    Token = {t1, t2, t3}
    Session = {s1, s2}
    ResetToken = {k1}
    Request = {r1}
    RefreshTtl = 1
    PersistentTtl = 1
    AccessTtl = 1
    ResetTtl = 0
    MaxNow = 1
    Ops = {"login", "register", "status", "refresh", "edit", "deny", "approve", "recover", "link", "reset"}
SYMMETRY SymmetryTokens
INVARIANTS
    
    OldPasswordSessionsEnd
    DeniedUserSignedOut
CHECK_DEADLOCK FALSE
