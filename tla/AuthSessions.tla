---------------------------- MODULE AuthSessions ----------------------------
(***************************************************************************)
(* The Auth module's users, refresh tokens and password-reset tokens, and  *)
(* the HTTP handlers that read and write them (backend/src/auth).          *)
(*                                                                         *)
(* A handler runs on Node's event loop: between two awaited database       *)
(* statements any other handler may run.  Each handler is therefore a      *)
(* request slot with a program counter, and each action below is one       *)
(* database statement together with the synchronous code around it.        *)
(* Nothing the handlers do is wrapped in a transaction.                    *)
(*                                                                         *)
(* Abstractions.  A token stands for its plaintext and for its SHA-256     *)
(* hash (the hash is only ever compared for equality).  A password stands  *)
(* for its bcrypt digest.  A pruned row keeps its columns under            *)
(* st = "pruned", which is history only: no handler reads it.  The column  *)
(* cred is history too (the password its session was opened with), and so  *)
(* is a reset token's uses (the passwords it has set, up to 2).  Times      *)
(* are ticks of one clock.  Handlers that fail without having written      *)
(* anything leave the state alone and are not actions.                     *)
(***************************************************************************)
EXTENDS Naturals, FiniteSets

CONSTANTS
    User,           \* accounts, by id
    Seeded,         \* accounts that exist from the start (migrations, boot)
    Admin,          \* accounts whose is_admin column is true
    DefaultUser,    \* KERGHAN_DEFAULT_USER_*, or NoUser when disabled
    AlwaysAuth,     \* KERGHAN_DEFAULT_USER always-authenticated flag
    ApprovalRequired,   \* KERGHAN_USER_APPROVAL_REQUIRED
    Password, SeedPw,
    Token, Session, ResetToken, Request,
    NoUser, NoToken, NoSession, NoPw, NoReset,
    RefreshTtl, PersistentTtl, AccessTtl, ResetTtl,   \* in ticks
    MaxNow,         \* bound: the last tick of the clock
    Ops             \* bound: the endpoints that clients call

ASSUME AccountAssumption ==
    /\ Seeded \subseteq User
    /\ Admin \subseteq User
    /\ NoUser \notin User
    /\ DefaultUser \in Seeded \cup {NoUser}
    /\ AlwaysAuth \in BOOLEAN
    /\ ApprovalRequired \in BOOLEAN
    /\ SeedPw \in Password
    /\ NoPw \notin Password

ASSUME PoolAssumption ==
    /\ NoToken \notin Token
    /\ NoSession \notin Session
    /\ NoReset \notin ResetToken

\* TokenService#resolveTtl replaces a non-positive TTL by the default.
ASSUME TimeAssumption ==
    /\ RefreshTtl \in Nat \ {0}
    /\ PersistentTtl \in Nat \ {0}
    /\ AccessTtl \in Nat
    /\ ResetTtl \in Nat
    /\ MaxNow \in Nat

VARIABLES
    users,      \* auth_users
    tokens,     \* auth_refresh_tokens, by token
    resets,     \* auth_password_reset_tokens, by token
    jwt,        \* the latest access token signed for each session
    req,        \* the handlers in flight
    now         \* the clock

vars == <<users, tokens, resets, jwt, req, now>>

-----------------------------------------------------------------------------
(* The tables and the handlers' local state.                               *)

Status == {"absent", "pending", "approved", "denied"}

Reason == {"rotated", "logout", "user_revoked", "password_change",
           "password_reset", "admin_password_change", "replay_detected",
           "admin_denied"}

Account == [status: Status, pw: Password \cup {NoPw}]

NoAccount == [status |-> "absent", pw |-> NoPw]

RefreshRow == [st: {"unissued", "row", "pruned"},
               user: User \cup {NoUser},
               ses: Session \cup {NoSession},
               exp: Nat,
               rev: Reason \cup {"none"},
               keep: BOOLEAN,
               cred: Password \cup {NoPw}]

Unissued == [st |-> "unissued", user |-> NoUser, ses |-> NoSession, exp |-> 0,
             rev |-> "none", keep |-> FALSE, cred |-> NoPw]

ResetRow == [st: {"unissued", "active", "used", "pruned"},
             user: User \cup {NoUser},
             exp: Nat,
             uses: 0..2]

PC == {"idle",
       "registerSave", "replay", "loadUser", "revokeDenied", "rotate",
       "statusUser", "statusDenied", "autoLogin", "issue", "insert",
       "revoke", "revokeOthers", "revokeOthersUpdate",
       "loadAccount", "loadEdit", "save", "revokeUser", "approve", "deny",
       "pruneResets", "saveReset",
       "resetUser", "resetPassword", "resetMark", "bootRevoke"}

Handler == [pc: PC,
            user: User \cup {NoUser},
            tok: Token \cup {NoToken},
            ses: Session \cup {NoSession},
            keep: BOOLEAN,
            pw: Password \cup {NoPw},
            snap: Account,
            at: Nat,
            rst: ResetToken \cup {NoReset},
            why: Reason \cup {"none"}]

Idle == [pc |-> "idle", user |-> NoUser, tok |-> NoToken,
         ses |-> NoSession, keep |-> FALSE, pw |-> NoPw, snap |-> NoAccount,
         at |-> 0, rst |-> NoReset, why |-> "none"]

\* One conjunct per table: what each variable may hold.
TypeOK ==
    /\ users \in [User -> Account]
    /\ tokens \in [Token -> RefreshRow]
    /\ resets \in [ResetToken -> ResetRow]
    /\ jwt \in [Session -> [sub: User \cup {NoUser}, exp: Nat]]
    /\ req \in [Request -> Handler]
    /\ now \in Nat

Init ==
    /\ users = [u \in User |-> IF u \in Seeded
                                 THEN [status |-> "approved", pw |-> SeedPw]
                                 ELSE NoAccount]
    /\ tokens = [t \in Token |-> Unissued]
    /\ resets = [k \in ResetToken |-> [st |-> "unissued", user |-> NoUser,
                                       exp |-> 0, uses |-> 0]]
    /\ jwt = [s \in Session |-> [sub |-> NoUser, exp |-> 0]]
    /\ req = [r \in Request |-> Idle]
    /\ now = 0

-----------------------------------------------------------------------------
(* Helpers shared by the handlers.                                         *)

\* Rows matched by the criterion `revokedAt: IsNull()`.
Unrevoked == {t \in Token : tokens[t].st = "row" /\ tokens[t].rev = "none"}

\* Rows a read accepts as active: unrevoked and `expiresAt > new Date()`.
Active == {t \in Unrevoked : tokens[t].exp > now}

\* The UPDATE that sets revokedAt and revokedReason on the rows in S.
Revoked(S, reason) ==
    [t \in Token |-> IF t \in S THEN [tokens[t] EXCEPT !.rev = reason]
                                ELSE tokens[t]]

\* Mutant: the kept token is not excluded.
RevokeUserTokensAll(u, reason, t) ==
    tokens' = Revoked({x \in Unrevoked : tokens[x].user = u}, reason)

\* TokenService#revokeUserTokens, keeping the presented token t (or NoToken).
RevokeUserTokens(u, reason, t) ==
    tokens' = Revoked({x \in Unrevoked : tokens[x].user = u /\ x # t}, reason)

\* TokenService#revokeToken.
RevokeToken(t, reason) == tokens' = Revoked({t} \cap Unrevoked, reason)

\* TokenService#refreshTokenTtlMs.
Ttl(keep) == IF keep THEN PersistentTtl ELSE RefreshTtl

\* The statuses and ids the handlers compare a user with.
IsDefaultUser(u) == u = DefaultUser

RegistrationStatus == IF ApprovalRequired THEN "pending" ELSE "approved"

\* A boot in progress: the application is not listening yet.
Serving == \A r \in Request : req[r].pc # "bootRevoke"

At(r, pc) == req[r].pc = pc

Accepts(r, op) == op \in Ops /\ At(r, "idle") /\ Serving

Goto(r, pc) == req' = [req EXCEPT ![r].pc = pc]

Finish(r) == req' = [req EXCEPT ![r] = Idle]

\* JwtGuard and SessionService#findActiveSessionUser: the access token of
\* session s verifies, its session is active and belongs to its approved sub.
Admits(s) ==
    /\ jwt[s].exp > now
    /\ \E t \in Active : /\ tokens[t].ses = s
                          /\ tokens[t].user = jwt[s].sub
                          /\ users[tokens[t].user].status = "approved"

-----------------------------------------------------------------------------
(* TokenService#issueTokens: prune the user's expired rows, then insert.   *)

\* Mutant: the DELETE also reaches revoked rows.
IssuePruneRevoked(r) ==
    /\ At(r, "issue")
    /\ req' = [req EXCEPT ![r].pc = "insert", ![r].at = now]
    /\ tokens' = [t \in Token |->
                    IF /\ tokens[t].st = "row"
                       /\ tokens[t].user = req[r].user
                       /\ tokens[t].exp < now \/ tokens[t].rev # "none"
                      THEN [tokens[t] EXCEPT !.st = "pruned"]
                      ELSE tokens[t]]
    /\ UNCHANGED <<users, resets, jwt, now>>

\* Sign the access token, fix the expiry, delete the user's expired rows.
IssuePrune(r) ==
    /\ At(r, "issue")
    /\ req' = [req EXCEPT ![r].pc = "insert", ![r].at = now]
    /\ tokens' = [t \in Token |->
                    IF /\ tokens[t].st = "row"
                       /\ tokens[t].user = req[r].user
                       /\ tokens[t].exp < now
                      THEN [tokens[t] EXCEPT !.st = "pruned"]
                      ELSE tokens[t]]
    /\ UNCHANGED <<users, resets, jwt, now>>

\* The session the new row belongs to: the rotated one, or a fresh UUID.
SessionOf(r) == IF req[r].ses # NoSession
                  THEN {req[r].ses}
                  ELSE {s \in Session : jwt[s].sub = NoUser}

\* Save the row and answer with the cookies.
IssueInsert(r) ==
    /\ At(r, "insert")
    /\ \E t \in Token, s \in SessionOf(r) :
         /\ tokens[t].st = "unissued"
         /\ tokens' = [tokens EXCEPT ![t] =
                         [st |-> "row", user |-> req[r].user, ses |-> s,
                          exp |-> req[r].at + Ttl(req[r].keep),
                          rev |-> "none", keep |-> req[r].keep,
                          cred |-> req[r].pw]]
         /\ jwt' = [jwt EXCEPT ![s] = [sub |-> req[r].user,
                                       exp |-> req[r].at + AccessTtl]]
    /\ Finish(r)
    /\ UNCHANGED <<users, resets, now>>

-----------------------------------------------------------------------------
(* AuthService: register, login, refresh, logout, status.                  *)

\* register: assertAvailable finds no such account (its bcrypt hash follows).
RegisterCheck(r, u, pw) ==
    /\ Accepts(r, "register")
    /\ users[u].status = "absent"
    /\ req' = [req EXCEPT ![r] = [Idle EXCEPT !.pc = "registerSave",
                                             !.user = u, !.pw = pw]]
    /\ UNCHANGED <<users, tokens, resets, jwt, now>>

\* register: the INSERT; a duplicate of the unique username or email fails.
RegisterSave(r) ==
    LET u == req[r].user IN
    /\ At(r, "registerSave")
    /\ IF users[u].status = "absent"
         THEN /\ users' = [users EXCEPT ![u] = [status |-> RegistrationStatus,
                                               pw |-> req[r].pw]]
              /\ Goto(r, "issue")
         ELSE Finish(r) /\ UNCHANGED users
    /\ UNCHANGED <<tokens, resets, jwt, now>>

\* login: read the user, compare the password, refuse a denied user.
Login(r, u, pw, keep) ==
    /\ Accepts(r, "login")
    /\ users[u].status \in {"pending", "approved"}
    /\ users[u].pw = pw
    /\ req' = [req EXCEPT ![r] = [Idle EXCEPT !.pc = "issue", !.user = u,
                                             !.keep = keep, !.pw = pw]]
    /\ UNCHANGED <<users, tokens, resets, jwt, now>>

\* A handler that has found the active row of token t.
Holding(t, pc) ==
    [Idle EXCEPT !.pc = pc, !.user = tokens[t].user, !.tok = t,
                 !.ses = tokens[t].ses, !.keep = tokens[t].keep,
                 !.pw = tokens[t].cred]

\* refresh: findActiveRefreshToken.  An unexpired rotated row is a replay.
RefreshFind(r, t) ==
    /\ Accepts(r, "refresh")
    /\ tokens[t].st = "row"
    /\ tokens[t].exp >= now
    /\ tokens[t].rev \in {"none", "rotated"}
    /\ req' = [req EXCEPT ![r] =
                 Holding(t, IF tokens[t].rev = "none" THEN "loadUser"
                                                      ELSE "replay")]
    /\ UNCHANGED <<users, tokens, resets, jwt, now>>

\* refresh: the answer to a replayed token.
RefreshReplay(r) ==
    /\ At(r, "replay")
    /\ RevokeUserTokens(req[r].user, "replay_detected", NoToken)
    /\ Finish(r)
    /\ UNCHANGED <<users, resets, jwt, now>>

\* refresh: load the token's user; a denied one gets no new token.
RefreshLoadUser(r) ==
    /\ At(r, "loadUser")
    /\ Goto(r, IF users[req[r].user].status = "denied" THEN "revokeDenied"
                                                       ELSE "rotate")
    /\ UNCHANGED <<users, tokens, resets, jwt, now>>

RefreshRevokeDenied(r) ==
    /\ At(r, "revokeDenied")
    /\ RevokeToken(req[r].tok, "admin_denied")
    /\ Finish(r)
    /\ UNCHANGED <<users, resets, jwt, now>>

\* Mutant: the number of affected rows is not looked at.
RefreshRotateUnchecked(r) ==
    /\ At(r, "rotate")
    /\ RevokeToken(req[r].tok, "rotated")
    /\ Goto(r, "issue")
    /\ UNCHANGED <<users, resets, jwt, now>>

\* refresh: the guarded UPDATE; only `affected = 1` goes on to mint.
RefreshRotate(r) ==
    /\ At(r, "rotate")
    /\ RevokeToken(req[r].tok, "rotated")
    /\ IF req[r].tok \in Unrevoked THEN Goto(r, "issue") ELSE Finish(r)
    /\ UNCHANGED <<users, resets, jwt, now>>

\* logout: one UPDATE.
Logout(t) ==
    /\ "logout" \in Ops /\ Serving
    /\ t \in Unrevoked
    /\ RevokeToken(t, "logout")
    /\ UNCHANGED <<users, resets, jwt, req, now>>

CanAutoLogin == AlwaysAuth /\ DefaultUser # NoUser

\* status: findActiveToken; t = NoToken when the cookie is missing.
StatusFind(r, t) ==
    /\ Accepts(r, "status")
    /\ \/ /\ t \in Active
          /\ req' = [req EXCEPT ![r] = Holding(t, "statusUser")]
       \/ /\ t \notin Active
          /\ CanAutoLogin
          /\ req' = [req EXCEPT ![r] = [Idle EXCEPT !.pc = "autoLogin"]]
    /\ UNCHANGED <<users, tokens, resets, jwt, now>>

\* status: load the user; only a denied user's token leads to a write.
StatusLoadUser(r) ==
    /\ At(r, "statusUser")
    /\ IF users[req[r].user].status = "denied" THEN Goto(r, "statusDenied")
                                              ELSE Finish(r)
    /\ UNCHANGED <<users, tokens, resets, jwt, now>>

\* status: revoke it, then try the automatic login (if its address may).
StatusRevokeDenied(r) ==
    /\ At(r, "statusDenied")
    /\ RevokeToken(req[r].tok, "admin_denied")
    /\ \/ /\ CanAutoLogin
          /\ req' = [req EXCEPT ![r] = [Idle EXCEPT !.pc = "autoLogin"]]
       \/ Finish(r)
    /\ UNCHANGED <<users, resets, jwt, now>>

\* DefaultUserService#autoLogin: read the default user and issue tokens.
AutoLogin(r) ==
    /\ At(r, "autoLogin")
    /\ req' = [req EXCEPT ![r] = [Idle EXCEPT !.pc = "issue",
                                             !.user = DefaultUser,
                                             !.pw = users[DefaultUser].pw]]
    /\ UNCHANGED <<users, tokens, resets, jwt, now>>

-----------------------------------------------------------------------------
(* Authenticated handlers.  JwtGuard runs first, in a statement of its own. *)

Admit(r, op, s, h) ==
    /\ Accepts(r, op)
    /\ Admits(s)
    /\ req' = [req EXCEPT ![r] = h]
    /\ UNCHANGED <<users, tokens, resets, jwt, now>>

\* AdminGuard reads isAdmin off the user row that JwtGuard has just loaded.
AdmitAdmin(r, op, s, h) == jwt[s].sub \in Admin /\ Admit(r, op, s, h)

\* SessionService#revoke: one of the caller's own sessions.
Revoke(r, s, target) ==
    Admit(r, "revoke", s, [Idle EXCEPT !.pc = "revoke", !.user = jwt[s].sub,
                                       !.ses = target])

\* Mutant: a reason that the revoked_reason column does not know.
RevokeUpdateBadReason(r) ==
    /\ At(r, "revoke")
    /\ tokens' = Revoked({t \in Unrevoked : /\ tokens[t].user = req[r].user
                                           /\ tokens[t].ses = req[r].ses},
                         "revoked")
    /\ Finish(r)
    /\ UNCHANGED <<users, resets, jwt, now>>

\* revoke: the UPDATE of the session's unrevoked row.
RevokeUpdate(r) ==
    /\ At(r, "revoke")
    /\ tokens' = Revoked({t \in Unrevoked : /\ tokens[t].user = req[r].user
                                           /\ tokens[t].ses = req[r].ses},
                         "user_revoked")
    /\ Finish(r)
    /\ UNCHANGED <<users, resets, jwt, now>>

\* SessionService#revokeOthers: t is the caller's refresh-token cookie.
RevokeOthers(r, s, t) ==
    Admit(r, "revokeOthers", s, [Idle EXCEPT !.pc = "revokeOthers",
                                             !.user = jwt[s].sub, !.tok = t])

\* revokeOthers: isActiveOwnToken, otherwise 401 and nothing is revoked.
RevokeOthersFind(r) ==
    LET t == req[r].tok IN
    /\ At(r, "revokeOthers")
    /\ IF t \in Active /\ tokens[t].user = req[r].user
         THEN req' = [req EXCEPT ![r].pc = "revokeOthersUpdate",
                                 ![r].ses = tokens[t].ses]
         ELSE Finish(r)
    /\ UNCHANGED <<users, tokens, resets, jwt, now>>

\* Mutant: the current session is kept by its token, not by its uuid.
RevokeOthersUpdateByToken(r) ==
    /\ At(r, "revokeOthersUpdate")
    /\ tokens' = Revoked({t \in Unrevoked : /\ tokens[t].user = req[r].user
                                           /\ t # req[r].tok},
                         "user_revoked")
    /\ Finish(r)
    /\ UNCHANGED <<users, resets, jwt, now>>

\* revokeOthers: every unrevoked row of the user outside the kept session.
RevokeOthersUpdate(r) ==
    /\ At(r, "revokeOthersUpdate")
    /\ tokens' = Revoked({t \in Unrevoked : /\ tokens[t].user = req[r].user
                                           /\ tokens[t].ses # req[r].ses},
                         "user_revoked")
    /\ Finish(r)
    /\ UNCHANGED <<users, resets, jwt, now>>

\* AccountService#updateAccount: pw is the new password, NoPw when only the
\* username or the email changes; t is the refresh-token cookie.  The field
\* ses is history here: the session the cookie names on arrival, if any.
UpdateAccount(r, s, t, pw) ==
    /\ ~IsDefaultUser(jwt[s].sub)
    /\ Admit(r, "account", s,
             [Idle EXCEPT !.pc = "loadAccount", !.user = jwt[s].sub, !.tok = t,
                          !.ses = IF t \in Unrevoked /\ tokens[t].user = jwt[s].sub
                                    THEN tokens[t].ses ELSE NoSession,
                          !.pw = pw, !.why = "password_change"])

\* updateAccount: load the row, then compare the current password with it.
LoadAccount(r) ==
    /\ At(r, "loadAccount")
    /\ \/ req' = [req EXCEPT ![r].pc = "save", ![r].snap = users[req[r].user]]
       \/ Finish(r)                            \* wrong password, name taken
    /\ UNCHANGED <<users, tokens, resets, jwt, now>>

\* AdminService#editUser.
EditUser(r, s, u, pw) ==
    /\ users[u].status # "absent"
    /\ ~IsDefaultUser(u)
    /\ AdmitAdmin(r, "edit", s, [Idle EXCEPT !.pc = "loadEdit", !.user = u,
                                             !.pw = pw,
                                             !.why = "admin_password_change"])

LoadEdit(r) ==
    /\ At(r, "loadEdit")
    /\ \/ req' = [req EXCEPT ![r].pc = "save", ![r].snap = users[req[r].user]]
       \/ Finish(r)                                          \* name taken
    /\ UNCHANGED <<users, tokens, resets, jwt, now>>

\* UserUpdateService#applyUserUpdate.  TypeORM's save(user) writes every
\* column in which the loaded entity differs from the stored row.
ApplyUserUpdate(r) ==
    LET h == req[r] IN
    /\ At(r, "save")
    /\ users' = [users EXCEPT ![h.user] =
                   [status |-> h.snap.status,
                    pw |-> IF h.pw = NoPw THEN h.snap.pw ELSE h.pw]]
    /\ IF h.pw = NoPw THEN Finish(r) ELSE Goto(r, "revokeUser")
    /\ UNCHANGED <<tokens, resets, jwt, now>>

\* The last statement of updateAccount, editUser, denyUser, resetPassword.
RevokeUser(r) ==
    /\ At(r, "revokeUser")
    /\ RevokeUserTokens(req[r].user, req[r].why, req[r].tok)
    /\ Finish(r)
    /\ UNCHANGED <<users, resets, jwt, now>>

\* AdminService#approveUser: the UPDATE is guarded on the pending status.
ApproveUser(r, s, u) ==
    /\ users[u].status # "absent"
    /\ AdmitAdmin(r, "approve", s, [Idle EXCEPT !.pc = "approve", !.user = u])

ApproveUpdate(r) ==
    /\ At(r, "approve")
    /\ users' = IF users[req[r].user].status = "pending"
                  THEN [users EXCEPT ![req[r].user].status = "approved"]
                  ELSE users
    /\ Finish(r)
    /\ UNCHANGED <<tokens, resets, jwt, now>>

\* Mutant: assertNotDefaultUser is missing.
DenyAnyUser(r, s, u) ==
    /\ users[u].status # "absent"
    /\ u # jwt[s].sub
    /\ AdmitAdmin(r, "deny", s, [Idle EXCEPT !.pc = "deny", !.user = u,
                                             !.why = "admin_denied"])

\* AdminService#denyUser: never the default user, never the caller.
DenyUser(r, s, u) ==
    /\ users[u].status # "absent"
    /\ ~IsDefaultUser(u)
    /\ u # jwt[s].sub
    /\ AdmitAdmin(r, "deny", s, [Idle EXCEPT !.pc = "deny", !.user = u,
                                             !.why = "admin_denied"])

\* Mutant: the denied user's sessions are not revoked.
DenyUpdateOnly(r) ==
    /\ At(r, "deny")
    /\ users' = [users EXCEPT ![req[r].user].status = "denied"]
    /\ Finish(r)
    /\ UNCHANGED <<tokens, resets, jwt, now>>

\* denyUser: the status first, then the sessions.
DenyUpdate(r) ==
    /\ At(r, "deny")
    /\ users' = [users EXCEPT ![req[r].user].status = "denied"]
    /\ Goto(r, "revokeUser")
    /\ UNCHANGED <<tokens, resets, jwt, now>>

-----------------------------------------------------------------------------
(* PasswordResetService.                                                   *)

\* recover: an unknown or denied user and the default user get no token.
Recover(r, u) ==
    /\ Accepts(r, "recover")
    /\ users[u].status \in {"pending", "approved"}
    /\ ~IsDefaultUser(u)
    /\ req' = [req EXCEPT ![r] = [Idle EXCEPT !.pc = "pruneResets", !.user = u]]
    /\ UNCHANGED <<users, tokens, resets, jwt, now>>

\* AdminService#generateRecoveryLink (and #sendRecoveryEmail): any status.
GenerateRecoveryLink(r, s, u) ==
    /\ users[u].status # "absent"
    /\ ~IsDefaultUser(u)
    /\ AdmitAdmin(r, "link", s, [Idle EXCEPT !.pc = "pruneResets", !.user = u])

\* issueToken: delete the user's expired and used rows.  The code has a DELETE
\* for each; an expired row is read by nobody, so when it goes is not seen.
PruneSpentTokens(r) ==
    /\ At(r, "pruneResets")
    /\ resets' = [k \in ResetToken |->
                    IF /\ resets[k].user = req[r].user
                       /\ \/ resets[k].st = "active" /\ resets[k].exp < now
                          \/ resets[k].st = "used"
                      THEN [resets[k] EXCEPT !.st = "pruned"]
                      ELSE resets[k]]
    /\ Goto(r, "saveReset")
    /\ UNCHANGED <<users, tokens, jwt, now>>

\* issueToken: insert the new row; the user's active tokens stay valid.
SaveReset(r) ==
    /\ At(r, "saveReset")
    /\ \E k \in ResetToken :
         /\ resets[k].st = "unissued"
         /\ resets' = [resets EXCEPT ![k] = [st |-> "active",
                                             user |-> req[r].user,
                                             exp |-> now + ResetTtl,
                                             uses |-> 0]]
    /\ Finish(r)
    /\ UNCHANGED <<users, tokens, jwt, now>>

\* resetPassword: findActiveToken and assertNotDefaultUser.
ResetFind(r, k, pw) ==
    /\ Accepts(r, "reset")
    /\ resets[k].st = "active"
    /\ resets[k].exp >= now
    /\ ~IsDefaultUser(resets[k].user)
    /\ req' = [req EXCEPT ![r] = [Idle EXCEPT !.pc = "resetUser", !.rst = k,
                                             !.user = resets[k].user,
                                             !.pw = pw,
                                             !.why = "password_reset"]]
    /\ UNCHANGED <<users, tokens, resets, jwt, now>>

\* resetPassword: read the user, refuse a denied one, hash the password.
ResetLoadUser(r) ==
    /\ At(r, "resetUser")
    /\ IF users[req[r].user].status = "denied" THEN Finish(r)
                                              ELSE Goto(r, "resetPassword")
    /\ UNCHANGED <<users, tokens, resets, jwt, now>>

\* resetPassword: UPDATE of the password alone.
ResetPassword(r) ==
    /\ At(r, "resetPassword")
    /\ users' = [users EXCEPT ![req[r].user].pw = req[r].pw]
    /\ resets' = [resets EXCEPT ![req[r].rst].uses = IF @ = 0 THEN 1 ELSE 2]
    /\ Goto(r, "resetMark")
    /\ UNCHANGED <<tokens, jwt, now>>

\* Mutant: the token is not marked used.
ResetMarkMissing(r) ==
    /\ At(r, "resetMark")
    /\ Goto(r, "revokeUser")
    /\ UNCHANGED <<users, tokens, resets, jwt, now>>

\* Mutant: the user's sessions are not revoked.
ResetMarkOnly(r) ==
    LET k == req[r].rst IN
    /\ At(r, "resetMark")
    /\ resets' = [resets EXCEPT ![k].st = "used"]
    /\ Finish(r)
    /\ UNCHANGED <<users, tokens, jwt, now>>

\* resetPassword: mark the token used, if its row is still there.
ResetMark(r) ==
    LET k == req[r].rst IN
    /\ At(r, "resetMark")
    /\ resets' = IF resets[k].st = "active"
                   THEN [resets EXCEPT ![k].st = "used"]
                   ELSE resets
    /\ Goto(r, "revokeUser")
    /\ UNCHANGED <<users, tokens, jwt, now>>

-----------------------------------------------------------------------------
(* Boot, failures, the clock.                                              *)

\* A restart kills the handlers in flight, and DefaultUserService's boot sync
\* writes the configured default user (pw, from the environment) before the
\* application listens.
Boot(r, pw) ==
    /\ "boot" \in Ops
    /\ DefaultUser # NoUser
    /\ users' = [users EXCEPT ![DefaultUser] = [status |-> "approved",
                                                pw |-> pw]]
    /\ req' = [x \in Request |->
                 IF x = r /\ users[DefaultUser].pw # pw
                   THEN [Idle EXCEPT !.pc = "bootRevoke", !.user = DefaultUser]
                   ELSE Idle]
    /\ UNCHANGED <<tokens, resets, jwt, now>>

\* Boot sync: a changed password ends the default user's sessions.
BootRevoke(r) ==
    /\ At(r, "bootRevoke")
    /\ RevokeUserTokens(req[r].user, "admin_password_change", NoToken)
    /\ Finish(r)
    /\ UNCHANGED <<users, resets, jwt, now>>

\* A statement fails: the exception ends the handler, nothing is undone.
\* (A failing boot sync ends the process: the next one is another Boot.)
Abort(r) ==
    /\ "abort" \in Ops
    /\ req[r].pc \notin {"idle", "bootRevoke"}
    /\ Finish(r)
    /\ UNCHANGED <<users, tokens, resets, jwt, now>>

Tick ==
    /\ now < MaxNow
    /\ now' = now + 1
    /\ UNCHANGED <<users, tokens, resets, jwt, req>>

-----------------------------------------------------------------------------

\* A client's call reaches the server.
Call(r) ==
    \/ \E u \in User, pw \in Password :
         \/ RegisterCheck(r, u, pw)
         \/ \E keep \in BOOLEAN : Login(r, u, pw, keep)
    \/ \E t \in Token : RefreshFind(r, t)
    \/ \E t \in Token \cup {NoToken} : StatusFind(r, t)
    \/ \E u \in User : Recover(r, u)
    \/ \E k \in ResetToken, pw \in Password : ResetFind(r, k, pw)

\* A client's call with an access token of session s reaches the server.
AuthenticatedCall(r) == \E s \in Session :
    \/ \E target \in Session : Revoke(r, s, target)
    \/ \E t \in Token : RevokeOthers(r, s, t)
    \/ \E t \in Token \cup {NoToken}, pw \in Password \cup {NoPw} :
         UpdateAccount(r, s, t, pw)
    \/ \E u \in User :
         \/ \E pw \in Password \cup {NoPw} : EditUser(r, s, u, pw)
         \/ ApproveUser(r, s, u)
         \/ DenyUser(r, s, u)
         \/ GenerateRecoveryLink(r, s, u)

\* A handler in flight runs its next statement.
Step(r) ==
    \/ IssuePrune(r) \/ IssueInsert(r)
    \/ RegisterSave(r)
    \/ RefreshReplay(r) \/ RefreshLoadUser(r) \/ RefreshRevokeDenied(r)
    \/ RefreshRotate(r)
    \/ StatusLoadUser(r) \/ StatusRevokeDenied(r) \/ AutoLogin(r)
    \/ RevokeUpdate(r)
    \/ RevokeOthersFind(r) \/ RevokeOthersUpdate(r)
    \/ LoadAccount(r) \/ LoadEdit(r) \/ ApplyUserUpdate(r) \/ RevokeUser(r)
    \/ ApproveUpdate(r) \/ DenyUpdate(r)
    \/ PruneSpentTokens(r) \/ SaveReset(r)
    \/ ResetLoadUser(r) \/ ResetPassword(r) \/ ResetMark(r)
    \/ BootRevoke(r)

Next ==
    \/ \E r \in Request :
         \/ Call(r) \/ AuthenticatedCall(r) \/ Step(r) \/ Abort(r)
         \/ \E pw \in Password : Boot(r, pw)
    \/ \E t \in Token : Logout(t)
    \/ Tick

Spec == Init /\ [][Next]_vars

-----------------------------------------------------------------------------
(* Sessions as chains of rotated tokens.                                   *)

\* RefreshToken: a session is one chain of rotated tokens, so it never has
\* two unrevoked rows, however its refreshes, revocations and failures
\* interleave.
OneLiveTokenPerSession ==
    \A t1, t2 \in Unrevoked : tokens[t1].ses = tokens[t2].ses => t1 = t2

\* Once a row of a session was revoked for any reason but rotation (logout,
\* session revoke, password change, replay, deny), the session is over: no
\* refresh in flight can bring it back.
EndedSessionStaysEnded ==
    \A t \in Token :
        (tokens[t].st # "unissued" /\ tokens[t].rev \notin {"none", "rotated"})
        => \A x \in Unrevoked : tokens[x].ses # tokens[t].ses

\* issueTokens copies user and keepSignedIn along the chain: every row of a
\* session agrees on them.
SessionIdentityKept ==
    \A t1, t2 \in Token :
        /\ tokens[t1].st # "unissued" /\ tokens[t2].st # "unissued"
        /\ tokens[t1].ses = tokens[t2].ses
        => tokens[t1].user = tokens[t2].user /\ tokens[t1].keep = tokens[t2].keep

\* The opportunistic pruning of issueTokens never removes a rotated row that
\* refresh would still recognise as a replay.
ReplayStaysDetectable ==
    \A t \in Token :
        (tokens[t].rev = "rotated" /\ tokens[t].exp >= now)
        => tokens[t].st = "row"

\* A revoked row stays revoked, for the reason first recorded.
RevocationIsPermanent ==
    [][\A t \in Token : tokens[t].rev # "none"
                          => tokens'[t].rev = tokens[t].rev]_tokens

\* revokeOthers never ends the session it was asked to keep, even when that
\* session's token is rotated while the request is handled.
RevokeOthersKeepsCurrent ==
    [][\A r \in Request :
         (At(r, "revokeOthersUpdate") /\ req[r].pc # req'[r].pc)
         => \A x \in Unrevoked :
              tokens[x].ses = tokens[req[r].tok].ses
              => tokens'[x].rev = "none"]_vars

-----------------------------------------------------------------------------
(* The inductive invariant behind the chain properties.                    *)

Issued(t) == tokens[t].st # "unissued"

\* The states of a handler that ends with revokeUserTokens.
WillRevoke == {"loadAccount", "loadEdit", "save", "deny", "resetUser",
               "resetPassword", "resetMark", "revokeUser"}

\* Whoever works for a user works for an existing account id, and whoever will
\* revoke has a reason that is not rotation.
HandlerBound(h) ==
    /\ h.pc \notin {"idle", "autoLogin"} => h.user \in User
    /\ h.pc = "autoLogin" => DefaultUser \in User
    /\ h.pc \in WillRevoke => h.why \notin {"none", "rotated"}

UsersBound ==
    /\ \A t \in Token : Issued(t) => tokens[t].user \in User
    /\ \A k \in ResetToken : resets[k].st # "unissued" => resets[k].user \in User
    /\ \A r \in Request : HandlerBound(req[r])

\* Each row: no revocation before it is issued, no pruning before it has
\* expired, a session whose access token was signed; and beside an unrevoked
\* row its session has only rotated ones.
RowsChained ==
    /\ \A t \in Token :
         /\ tokens[t].st = "unissued" => tokens[t].rev = "none"
         /\ tokens[t].st = "pruned" => tokens[t].exp < now
         /\ Issued(t) => /\ tokens[t].ses \in Session
                         /\ jwt[tokens[t].ses].sub # NoUser
    /\ \A t1, t2 \in Token :
         (Issued(t1) /\ Issued(t2) /\ tokens[t1].ses = tokens[t2].ses) =>
           /\ tokens[t1].user = tokens[t2].user
           /\ tokens[t1].keep = tokens[t2].keep
           /\ (t1 # t2 /\ t1 \in Unrevoked) => tokens[t2].rev = "rotated"

\* A handler that has found an active token still holds that row's columns.
HoldsRow(h) ==
    /\ h.tok \in Token /\ Issued(h.tok)
    /\ h.ses = tokens[h.tok].ses
    /\ h.user = tokens[h.tok].user
    /\ h.keep = tokens[h.tok].keep

\* A handler that is about to insert the next row of its session: every row
\* of the session was rotated, and it was opened for the same user.
ContinuesChain(h) ==
    /\ h.ses \in Session /\ jwt[h.ses].sub # NoUser
    /\ \A t \in Token : (Issued(t) /\ tokens[t].ses = h.ses) =>
         /\ tokens[t].rev = "rotated"
         /\ tokens[t].user = h.user
         /\ tokens[t].keep = h.keep

Rotating(h) == h.pc \in {"issue", "insert"} /\ h.ses # NoSession

HandlersChained ==
    \A r \in Request :
        /\ req[r].pc \in {"loadUser", "rotate"} => HoldsRow(req[r])
        /\ Rotating(req[r]) => ContinuesChain(req[r])
        /\ req[r].pc = "registerSave" => req[r].ses = NoSession

OneRotation ==
    \A r1, r2 \in Request :
        (Rotating(req[r1]) /\ Rotating(req[r2]) /\ req[r1].ses = req[r2].ses)
        => r1 = r2

\* A session's rows form one chain: beside an unrevoked row there are only
\* rotated ones, at most one refresh is extending the chain, and it does so
\* only while every row is rotated.
ChainInv == UsersBound /\ RowsChained /\ HandlersChained /\ OneRotation

-----------------------------------------------------------------------------
(* Accounts and passwords.                                                 *)

\* denyUser signs the user out, and no handler lets a denied user back in:
\* once no handler works on the user, none of its rows is unrevoked.
DeniedUserSignedOut ==
    \A u \in User :
        (users[u].status = "denied" /\ \A r \in Request : req[r].user # u)
        => \A t \in Unrevoked : tokens[t].user # u

\* assertNotDefaultUser: between boots nothing changes the default user's
\* status or password; a changed password is a boot that revokes.
DefaultUserManaged ==
    [][DefaultUser # NoUser =>
         /\ users'[DefaultUser].status = "approved"
         /\ users'[DefaultUser].pw # users[DefaultUser].pw
            => \E r \in Request : req'[r].pc = "bootRevoke"]_users

\* resetPassword and editUser sign the user out everywhere: once no handler
\* works on the user any more, every unrevoked session was opened with the
\* current password.
OldPasswordSessionsEnd ==
    \A u \in User :
        (\A r \in Request : req[r].user # u)
        => \A t \in Unrevoked : tokens[t].user = u => tokens[t].cred = users[u].pw

\* updateAccount: a password change keeps the session that the refresh-token
\* cookie named when the request arrived, and revokes every other one.
PasswordChangeKeepsCurrentSession ==
    [][\A r \in Request :
         (At(r, "revokeUser") /\ req[r].why = "password_change"
          /\ tokens' # tokens /\ req'[r].pc = "idle")
         => \A x \in Unrevoked :
              tokens[x].user = req[r].user
              => (tokens'[x].rev = "none" <=> tokens[x].ses = req[r].ses)]_vars

\* A password-reset token sets at most one password.
ResetTokenSingleUse == \A k \in ResetToken : resets[k].uses <= 1
=============================================================================
