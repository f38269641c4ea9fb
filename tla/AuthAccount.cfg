SPECIFICATION Spec
CONSTANTS
    NoUser = NoUser
    NoToken = NoToken
    NoSession = NoSession
    NoPw = NoPw
    NoReset = NoReset
    User = {u1, u2}
    Seeded = {u1, u2}
    Admin = {u1, u2}
    DefaultUser = u1
    AlwaysAuth = TRUE
    ApprovalRequired = FALSE
    Password = {p1, p2}
    SeedPw = p1
    Token = {t1, t2}
    Session = {s1, s2}
    ResetToken = {k1}
    Request = {r1}
    RefreshTtl = 1
    PersistentTtl = 1
    AccessTtl = 1
    ResetTtl = 0
    MaxNow = 0
    Ops = {"login", "refresh", "logout", "status", "boot", "account", "edit", "deny", "recover", "link", "reset"}
SYMMETRY SymmetryTokens
PROPERTIES
    DefaultUserManaged
    PasswordChangeKeepsCurrentSession
CHECK_DEADLOCK FALSE
