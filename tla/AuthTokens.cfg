SPECIFICATION Spec
CONSTANTS
    NoUser = NoUser
    NoToken = NoToken
    NoSession = NoSession
    NoPw = NoPw
    NoReset = NoReset
    User = {u1}
    Seeded = {u1}
    Admin = {}
    DefaultUser = NoUser
    AlwaysAuth = FALSE
    ApprovalRequired = FALSE
    Password = {p1}
    SeedPw = p1
    Token = {t1, t2, t3}
    Session = {s1, s2}
    ResetToken = {k1}
    Request = {r1, r2}
    RefreshTtl = 1
    PersistentTtl = 2
    AccessTtl = 1
    ResetTtl = 1
    MaxNow = 2
    Ops = {"login", "refresh", "logout", "revoke", "revokeOthers", "abort"}
SYMMETRY SymmetryTokens
INVARIANTS
    TypeOK
    ChainInv
    OneLiveTokenPerSession
    EndedSessionStaysEnded
    ReplayStaysDetectable
PROPERTIES
    RevokeOthersKeepsCurrent
CHECK_DEADLOCK FALSE
