------------------------ MODULE AuthorizationRequests -----------------------
(***************************************************************************)
(* Login by authorization: a device without a session creates a request    *)
(* and polls it, and a device of the named user authorizes or denies it    *)
(* (backend/src/auth/authorization-request*.ts).                           *)
(*                                                                         *)
(* As in AuthSessions, a handler is a slot with a program counter and an   *)
(* action is one awaited database statement with the code around it.       *)
(* Abstractions: a user is its username; a poll token is the right to poll *)
(* one row; the password of an authorize call is right or wrong (valid);   *)
(* rows are told apart by id, and ids are a pool (Row).  The mint is       *)
(* TokenService#issueTokens, modelled in AuthSessions and here one step    *)
(* that counts the sessions.  approvals counts the approving updates and   *)
(* is history.                                                             *)
(***************************************************************************)
EXTENDS Naturals, FiniteSets

CONSTANTS
    Name,           \* usernames that clients send
    Known,          \* those that resolve to a user
    Ip,
    Row,            \* pool of auth_authorization_requests rows
    Slot,           \* handlers that can be in flight together
    Serves,         \* bound: the calls that each slot takes
    NoName, NoIp, NoRow,
    CreateLimit, CreateWindow, MaxOpen, Ttl,
    MaxAttempts, LockTtl,
    MaxNow          \* bound: the last tick of the clock

ASSUME RequestAssumption ==
    /\ Known \subseteq Name
    /\ NoName \notin Name /\ NoIp \notin Ip /\ NoRow \notin Row
    /\ Serves \in [Slot -> SUBSET {"create", "poll", "pollExpired",
                                   "authorize", "deny", "abort"}]
    /\ IsFiniteSet(Slot)
    /\ {CreateLimit, CreateWindow, MaxOpen, Ttl, MaxAttempts, LockTtl,
        MaxNow} \subseteq Nat

VARIABLES
    rows,       \* auth_authorization_requests
    users,      \* status of each known user
    minted,     \* sessions minted for each request
    approvals,  \* history: approving updates of each request
    hs,         \* handlers in flight
    now

vars == <<rows, users, minted, approvals, hs, now>>

Status == {"none", "open", "approved", "denied", "logged", "expired"}

AuthorizationRequest ==
    [st: Status, name: Name \cup {NoName}, ip: Ip \cup {NoIp},
     made: Nat, exp: Nat, fails: Nat, lock: Nat]

NoRequest == [st |-> "none", name |-> NoName, ip |-> NoIp, made |-> 0,
              exp |-> 0, fails |-> 0, lock |-> 0]

PC == {"idle", "capCount", "capFind", "evict", "save", "expire", "claim",
       "loadUser", "mint", "denyLogged", "approve", "fail", "deny"}

Handler == [pc: PC, row: Row \cup {NoRow}, name: Name \cup {NoName},
            ip: Ip \cup {NoIp}, exp: Nat, fails: Nat]

Idle == [pc |-> "idle", row |-> NoRow, name |-> NoName, ip |-> NoIp,
         exp |-> 0, fails |-> 0]

\* What each variable may hold.
TypeOK ==
    /\ rows \in [Row -> AuthorizationRequest]
    /\ users \in [Known -> {"approved", "denied"}]
    /\ minted \in [Row -> Nat]
    /\ approvals \in [Row -> Nat]
    /\ hs \in [Slot -> Handler]
    /\ now \in Nat

Init ==
    /\ rows = [a \in Row |-> NoRequest]
    /\ users = [u \in Known |-> "approved"]
    /\ minted = [a \in Row |-> 0]
    /\ approvals = [a \in Row |-> 0]
    /\ hs = [h \in Slot |-> Idle]
    /\ now = 0

-----------------------------------------------------------------------------

At(h, pc) == hs[h].pc = pc

Accepts(h, op) == At(h, "idle") /\ op \in Serves[h]

Goto(h, pc) == hs' = [hs EXCEPT ![h].pc = pc]

Finish(h) == hs' = [hs EXCEPT ![h] = Idle]

\* An UPDATE by id: whatever the row's status has become.
SetStatus(a, st) == rows' = [rows EXCEPT ![a].st = st]

\* guardedTransition: an UPDATE ... WHERE status = from.
GuardedTransition(a, from, to) ==
    rows' = IF rows[a].st = from THEN [rows EXCEPT ![a].st = to] ELSE rows

OpenOf(u) == {a \in Row : rows[a].st = "open" /\ rows[a].name = u}

-----------------------------------------------------------------------------
(* The requesting device: create and poll.                                 *)

\* Mutant: the limit is passed once more before it holds.
OverCreateLimitLate(n, ip) ==
    LET recent == {a \in Row : rows[a].st # "none"
                                 /\ rows[a].made + CreateWindow > now}
    IN \/ Cardinality({a \in recent : rows[a].ip = ip}) > CreateLimit
       \/ Cardinality({a \in recent : rows[a].name = n}) > CreateLimit

\* isOverCreateLimit: rows made in the window by this address or username.
\* The two counts run in parallel; rows are never deleted, so their
\* disjunction is what one of the two instants would have answered.
OverCreateLimit(n, ip) ==
    LET recent == {a \in Row : rows[a].st # "none"
                                 /\ rows[a].made + CreateWindow > now}
    IN \/ Cardinality({a \in recent : rows[a].ip = ip}) >= CreateLimit
       \/ Cardinality({a \in recent : rows[a].name = n}) >= CreateLimit

\* create: over the limit nothing is persisted, so only the rest is a step.
Create(h, n, ip) ==
    /\ Accepts(h, "create")
    /\ ~OverCreateLimit(n, ip)
    /\ hs' = [hs EXCEPT ![h] =
                [Idle EXCEPT !.pc = IF n \in Known THEN "capCount" ELSE "save",
                             !.name = n, !.ip = ip, !.exp = now + Ttl]]
    /\ UNCHANGED <<rows, users, minted, approvals, now>>

\* Mutant: the cap is off by one.
CapCountLate(h) ==
    /\ At(h, "capCount")
    /\ Goto(h, IF Cardinality(OpenOf(hs[h].name)) <= MaxOpen
                 THEN "save" ELSE "capFind")
    /\ UNCHANGED <<rows, users, minted, approvals, now>>

\* enforceOpenCapFor: count the user's open rows.
CapCount(h) ==
    /\ At(h, "capCount")
    /\ Goto(h, IF Cardinality(OpenOf(hs[h].name)) < MaxOpen
                 THEN "save" ELSE "capFind")
    /\ UNCHANGED <<rows, users, minted, approvals, now>>

\* enforceOpenCapFor: an oldest open row (ties are the database's choice).
CapFind(h) ==
    LET open == OpenOf(hs[h].name) IN
    /\ At(h, "capFind")
    /\ \/ /\ open = {}
          /\ Goto(h, "save")
       \/ \E a \in open :
            /\ \A b \in open : rows[a].made <= rows[b].made
            /\ hs' = [hs EXCEPT ![h].pc = "evict", ![h].row = a]
    /\ UNCHANGED <<rows, users, minted, approvals, now>>

\* enforceOpenCapFor: an UPDATE by id.
Evict(h) ==
    /\ At(h, "evict")
    /\ SetStatus(hs[h].row, "expired")
    /\ hs' = [hs EXCEPT ![h].pc = "save", ![h].row = NoRow]
    /\ UNCHANGED <<users, minted, approvals, now>>

\* create: the INSERT.
Save(h) ==
    /\ At(h, "save")
    /\ \E a \in Row :
         /\ rows[a].st = "none"
         /\ rows' = [rows EXCEPT ![a] =
                       [NoRequest EXCEPT !.st = "open", !.name = hs[h].name,
                                         !.ip = hs[h].ip, !.made = now,
                                         !.exp = hs[h].exp]]
    /\ Finish(h)
    /\ UNCHANGED <<users, minted, approvals, now>>

\* poll: read the row by uuid and poll token; other statuses only answer.  The
\* polls that find the row expired and the others are told apart by Serves.
Poll(h, a) ==
    /\ \/ Accepts(h, "pollExpired") /\ rows[a].st = "open" /\ rows[a].exp < now
       \/ Accepts(h, "poll") /\ rows[a].st = "approved"
    /\ hs' = [hs EXCEPT ![h] =
                [Idle EXCEPT !.pc = IF rows[a].st = "open" THEN "expire"
                                                           ELSE "claim",
                             !.row = a]]
    /\ UNCHANGED <<rows, users, minted, approvals, now>>

\* #expire: an UPDATE by id.
Expire(h) ==
    /\ At(h, "expire")
    /\ SetStatus(hs[h].row, "expired")
    /\ Finish(h)
    /\ UNCHANGED <<users, minted, approvals, now>>

\* Mutant: the number of affected rows is not looked at.
ClaimUnchecked(h) ==
    /\ At(h, "claim")
    /\ GuardedTransition(hs[h].row, "approved", "logged")
    /\ Goto(h, "loadUser")
    /\ UNCHANGED <<users, minted, approvals, now>>

\* #claim: the guarded UPDATE; only its winner goes on.
Claim(h) ==
    LET a == hs[h].row IN
    /\ At(h, "claim")
    /\ GuardedTransition(a, "approved", "logged")
    /\ IF rows[a].st = "approved" THEN Goto(h, "loadUser") ELSE Finish(h)
    /\ UNCHANGED <<users, minted, approvals, now>>

\* #issueSessionFor: re-check the user before the mint.
LoadUser(h) ==
    LET n == rows[hs[h].row].name IN
    /\ At(h, "loadUser")
    /\ hs' = [hs EXCEPT ![h] =
                IF n \notin Known THEN Idle
                ELSE [@ EXCEPT !.pc = IF users[n] = "approved"
                                        THEN "mint" ELSE "denyLogged"]]
    /\ UNCHANGED <<rows, users, minted, approvals, now>>

Mint(h) ==
    /\ At(h, "mint")
    /\ minted' = [minted EXCEPT ![hs[h].row] = @ + 1]
    /\ Finish(h)
    /\ UNCHANGED <<rows, users, approvals, now>>

DenyLogged(h) ==
    /\ At(h, "denyLogged")
    /\ GuardedTransition(hs[h].row, "logged", "denied")
    /\ Finish(h)
    /\ UNCHANGED <<users, minted, approvals, now>>

-----------------------------------------------------------------------------
(* The approving device: authorize and deny.                               *)

\* Mutant: the owner is not compared.
OpenToAnyone(a, u) == users[u] = "approved" /\ rows[a].st = "open"

\* #loadOwnedOpenRequest, behind JwtGuard (an approved user's session).
OwnedOpen(a, u) == users[u] = "approved" /\ a \in OpenOf(u)

LockedOut(a) == rows[a].lock > now

\* Mutant: the lockout is not looked at.
AuthorizeLocked(h, a, u, valid) ==
    /\ Accepts(h, "authorize")
    /\ OwnedOpen(a, u)
    /\ rows[a].exp >= now
    /\ hs' = [hs EXCEPT ![h] =
                [Idle EXCEPT !.pc = IF valid THEN "approve" ELSE "fail",
                             !.row = a, !.fails = rows[a].fails]]
    /\ UNCHANGED <<rows, users, minted, approvals, now>>

\* authorize: the reads.  A locked-out call writes nothing.
Authorize(h, a, u, valid) ==
    /\ Accepts(h, "authorize")
    /\ OwnedOpen(a, u)
    /\ rows[a].exp >= now
    /\ ~LockedOut(a)
    /\ hs' = [hs EXCEPT ![h] =
                [Idle EXCEPT !.pc = IF valid THEN "approve" ELSE "fail",
                             !.row = a, !.fails = rows[a].fails]]
    /\ UNCHANGED <<rows, users, minted, approvals, now>>

\* authorize: the UPDATE by id of a right password.
ApproveUpdate(h) ==
    LET a == hs[h].row IN
    /\ At(h, "approve")
    /\ rows' = [rows EXCEPT ![a].st = "approved", ![a].fails = 0,
                            ![a].lock = 0]
    /\ approvals' = [approvals EXCEPT ![a] = @ + 1]
    /\ Finish(h)
    /\ UNCHANGED <<users, minted, now>>

\* computeLockoutState: when the lock of one more failure ends, 0 for none.
LockUntil(attempts) == IF attempts >= MaxAttempts THEN now + LockTtl ELSE 0

\* registerAuthorizeFailure: written from the attempts read before.
RegisterAuthorizeFailure(h) ==
    LET a == hs[h].row  attempts == hs[h].fails + 1 IN
    /\ At(h, "fail")
    /\ rows' = [rows EXCEPT ![a].fails = attempts,
                            ![a].lock = LockUntil(attempts)]
    /\ Finish(h)
    /\ UNCHANGED <<users, minted, approvals, now>>

Deny(h, a, u) ==
    /\ Accepts(h, "deny")
    /\ OwnedOpen(a, u)
    /\ hs' = [hs EXCEPT ![h] = [Idle EXCEPT !.pc = "deny", !.row = a]]
    /\ UNCHANGED <<rows, users, minted, approvals, now>>

\* deny: an UPDATE by id.
DenyUpdate(h) ==
    /\ At(h, "deny")
    /\ SetStatus(hs[h].row, "denied")
    /\ Finish(h)
    /\ UNCHANGED <<users, minted, approvals, now>>

-----------------------------------------------------------------------------

\* AdminService#denyUser, seen from here.
DenyUser(u) ==
    /\ users[u] = "approved"
    /\ users' = [users EXCEPT ![u] = "denied"]
    /\ UNCHANGED <<rows, minted, approvals, hs, now>>

\* A statement fails: the exception ends the handler, nothing is undone.
Abort(h) ==
    /\ "abort" \in Serves[h]
    /\ ~At(h, "idle")
    /\ Finish(h)
    /\ UNCHANGED <<rows, users, minted, approvals, now>>

Tick ==
    /\ now < MaxNow
    /\ now' = now + 1
    /\ UNCHANGED <<rows, users, minted, approvals, hs>>

Call(h) ==
    \/ \E n \in Name, ip \in Ip : Create(h, n, ip)
    \/ \E a \in Row : Poll(h, a)
    \/ \E a \in Row, u \in Known :
         \/ \E valid \in BOOLEAN : Authorize(h, a, u, valid)
         \/ Deny(h, a, u)

Step(h) ==
    \/ CapCount(h) \/ CapFind(h) \/ Evict(h) \/ Save(h)
    \/ Expire(h) \/ Claim(h) \/ LoadUser(h) \/ Mint(h) \/ DenyLogged(h)
    \/ ApproveUpdate(h) \/ RegisterAuthorizeFailure(h) \/ DenyUpdate(h)

Next ==
    \/ \E h \in Slot : Call(h) \/ Step(h) \/ Abort(h)
    \/ \E u \in Known : DenyUser(u)
    \/ Tick

Spec == Init /\ [][Next]_vars

-----------------------------------------------------------------------------
(* Properties.                                                             *)

\* poll: each session of a request was paid for by an approving update of its
\* own, so concurrent polls never mint twice from one approval, whatever else
\* is in flight.
SessionsBackedByApprovals == \A a \in Row : minted[a] <= approvals[a]

\* Polls that have claimed request a and not yet minted.
Claimants(a) == {h \in Slot : hs[h].row = a /\ hs[h].pc \in {"loadUser", "mint"}}

\* The ledger behind it: an approving update pays for one session minted, one
\* poll on its way to mint, or the approved status that a poll may claim.
ApprovalLedger ==
    \A a \in Row :
        minted[a] + Cardinality(Claimants(a))
          + (IF rows[a].st = "approved" THEN 1 ELSE 0) <= approvals[a]

\* A request without a known user, or whose owner never gave the right
\* password, is never approved or logged.
OnlyOwnersApprove ==
    \A a \in Row : rows[a].st \in {"approved", "logged"} =>
        rows[a].name \in Known /\ approvals[a] > 0

\* Why: an authorize call that is about to approve holds a row of its own user.
ApproverHoldsOwnRow ==
    \A h \in Slot : At(h, "approve") =>
        /\ hs[h].row \in Row
        /\ rows[hs[h].row].st # "none"
        /\ rows[hs[h].row].name \in Known

\* The status machine of docs/agents/modules/auth.md.  It holds for one writer
\* of open rows at a time, and a poll that expires the row is one of them.
StatusMachine == INSTANCE RequestStatus
                 WITH status <- [a \in Row |-> rows[a].st]

FollowsStatusMachine == StatusMachine!Spec

\* poll: only the first poll to win the claim mints a session.
OneSessionPerRequest == \A a \in Row : minted[a] <= 1

\* authorize: a row that is locked out is not approved, not even with the right
\* password.
LockedRowNotApproved ==
    [][\A a \in Row : (rows[a].st = "open" /\ LockedOut(a))
                        => rows'[a].st # "approved"]_rows

\* enforceOpenCapFor: a user's simultaneous open requests are capped.
OpenCapHolds == \A u \in Known : Cardinality(OpenOf(u)) <= MaxOpen

\* isOverCreateLimit: no more than CreateLimit rows of one username are made
\* within a window.
CreateLimitHolds ==
    \A n \in Name : \A a \in Row :
        LET inWindow == {b \in Row : /\ rows[b].st # "none"
                                     /\ rows[b].name = n
                                     /\ rows[b].made >= rows[a].made
                                     /\ rows[b].made < rows[a].made + CreateWindow}
        IN rows[a].st # "none" => Cardinality(inWindow) <= CreateLimit
=============================================================================
