------------------------------ MODULE CoolOffs ------------------------------
(***************************************************************************)
(* One user's cool-off around GitHub's validation of a credential          *)
(* (IntegrationCredentialAbuseGuardService, used by                        *)
(* IntegrationCredentialService.attempt).                                  *)
(*                                                                         *)
(* An attempt is followed call by call: a pasted token ("pat"), an OAuth   *)
(* App code ("oauth"), a GitHub App code ("callback") and the choice of an *)
(* installation ("select").  What it stores afterwards is in Integrations  *)
(* and RedirectFlows.  A handler may die between any two statements.       *)
(* until = 0 stands for locked_until NULL.                                 *)
(***************************************************************************)
EXTENDS GithubAnswers

CONSTANTS
    Slot, Serves,           \* handlers, and the operations that each takes
    Installation, None,
    MaxAttempts, LockTime,
    MaxPages,               \* GITHUB_APP_MAX_INSTALLATION_PAGES
    MaxNow                  \* bound: the last tick of the clock

Ops == {"pat", "oauth", "callback", "select"}

ASSUME CoolOffAssumption ==
    /\ IsFiniteSet(Slot) /\ IsFiniteSet(Installation)
    /\ Serves \in [Slot -> SUBSET Ops]
    /\ None \notin Installation
    /\ Installation \cap {"several", "inaccessible"} = {}
    /\ MaxAttempts \in Nat \ {0} /\ LockTime \in Nat \ {0}
    /\ MaxPages \in Nat \ {0} /\ MaxNow \in Nat

VARIABLES
    lock,       \* integrations_credential_lockouts: the user's row
    hs,         \* handlers
    now,
    kept        \* history: attempts since the last reset never given back

vars == <<lock, hs, now, kept>>

Lockout == [failed: Nat, until: Nat]

PC == {"idle", "reserve", "exchange", "user", "pages", "revoke", "lookup",
       "mint", "settle"}

Result == DomainError \cup {"none", "ok", "several"}

Handler ==
    [pc: PC, op: Ops \cup {"none"}, at: Nat,
     fresh: BOOLEAN,        \* history: reserved since the last reset
     token: {"none", "held", "kept", "gone"},
     found: SUBSET Installation, page: 1..MaxPages,
     claimed: Installation \cup {None}, result: Result, last: Response]

NoResponse == [status |-> 200, limit |-> FALSE, body |-> "good"]

Idle == [pc |-> "idle", op |-> "none", at |-> 0, fresh |-> FALSE,
         token |-> "none", found |-> {}, page |-> 1, claimed |-> None,
         result |-> "none", last |-> NoResponse]

\* What each variable may hold.
TypeOK ==
    /\ lock \in Lockout
    /\ hs \in [Slot -> Handler]
    /\ now \in Nat
    /\ kept \in Nat

At(h, pc) == hs[h].pc = pc

Goto(h, x) == hs' = [hs EXCEPT ![h] = x]

Locked == lock.until > now

-----------------------------------------------------------------------------
(* The counter of credential attempts: one statement each.                 *)

\* Mutant: the lock is computed after the increment.
ReserveEarly(at) ==
    lock' = [failed |-> lock.failed + 1,
             until |-> IF lock.failed + 2 >= MaxAttempts
                         THEN at + LockTime ELSE 0]

\* reserveAttempt's UPDATE.
ReserveAttempt(at) ==
    lock' = [failed |-> lock.failed + 1,
             until |-> IF lock.failed + 1 >= MaxAttempts
                         THEN at + LockTime ELSE 0]

\* releaseAttempt's UPDATE.
ReleaseAttempt ==
    lock' = [failed |-> IF lock.failed = 0 THEN 0 ELSE lock.failed - 1,
             until |-> 0]

\* reset.
ResetAttempts == lock' = [failed |-> 0, until |-> 0]

-----------------------------------------------------------------------------
(* attempt.                                                                *)

Begin(op) == [Idle EXCEPT !.op = op, !.pc = "reserve", !.at = now]

\* assertNotLocked lets a request pass; select brings the candidates of its
\* state, and a callback may claim an installation.
Attempt(h, op, cands, i) ==
    /\ At(h, "idle") /\ op \in Serves[h]
    /\ ~Locked
    /\ cands # {} => op = "select"
    /\ op \in {"pat", "oauth"} => i = None
    /\ op = "select" => i # None
    /\ Goto(h, [Begin(op) EXCEPT !.found = cands, !.claimed = i])
    /\ UNCHANGED <<lock, now, kept>>

FirstCall(x) ==
    CASE x.op = "pat" -> [x EXCEPT !.pc = "user"]
      [] x.op \in {"oauth", "callback"} -> [x EXCEPT !.pc = "exchange"]
      [] x.op = "select" /\ x.claimed \in x.found -> [x EXCEPT !.pc = "lookup"]
      [] OTHER -> [x EXCEPT !.pc = "settle", !.result = "inaccessible"]

\* reserveAttempt: refused while the lock of the row is later than its now.
Reserve(h) ==
    /\ At(h, "reserve")
    /\ IF lock.until > hs[h].at
         THEN Goto(h, Idle) /\ UNCHANGED lock
         ELSE /\ ReserveAttempt(hs[h].at)
              /\ Goto(h, [FirstCall(hs[h]) EXCEPT !.fresh = TRUE])
    /\ UNCHANGED <<now, kept>>

\* A handler goes to the end with a result; a token is revoked first.
EndWith(x, r, result) ==
    [x EXCEPT !.last = r, !.result = result,
              !.pc = IF x.token = "held" THEN "revoke" ELSE "settle"]

\* exchange.
Exchange(h, r) ==
    LET x == [hs[h] EXCEPT !.token = IF CarriesToken(r) THEN "held" ELSE "none"]
    IN
    /\ At(h, "exchange")
    /\ Goto(h, IF ExchangedToken(r) THEN [x EXCEPT !.pc = "user"]
               ELSE EndWith(x, r, ExchangeError(r)))
    /\ UNCHANGED <<lock, now, kept>>

\* GET /user for the three types.
AskUser(h, r) ==
    LET x == hs[h]
        result == IF x.op = "callback" THEN LoginOf(r) ELSE Identify(r)
    IN
    /\ At(h, "user")
    /\ Goto(h, IF result # "ok" THEN EndWith(x, r, result)
               ELSE IF x.op = "callback" THEN [x EXCEPT !.pc = "pages"]
               ELSE [x EXCEPT
                      !.pc = "settle", !.result = "ok", !.last = r,
                      !.token = IF x.op = "oauth" THEN "kept" ELSE "none"])
    /\ UNCHANGED <<lock, now, kept>>

\* Mutant: a failed page ends the verification at once.
ListPageLeaks(h, r, entries, next) ==
    LET x == hs[h] IN
    /\ At(h, "pages")
    /\ Goto(h, IF PageOf(r) # "ok"
                 THEN [x EXCEPT !.pc = "settle", !.last = r,
                                !.result = PageOf(r)]
               ELSE [x EXCEPT !.found = @ \cup entries, !.pc = "revoke"])
    /\ UNCHANGED <<lock, now, kept>>

\* installationsOf: the entries of this app, until there is no next page or
\* the last page that is asked for.
ListPage(h, r, entries, next) ==
    LET x == hs[h]
        more == [x EXCEPT !.found = @ \cup entries]
    IN
    /\ At(h, "pages")
    /\ Goto(h, IF PageOf(r) # "ok" THEN EndWith(x, r, PageOf(r))
               ELSE IF next /\ x.page < MaxPages THEN [more EXCEPT !.page = @ + 1]
               ELSE [more EXCEPT !.pc = "revoke", !.last = r])
    /\ UNCHANGED <<lock, now, kept>>

\* revoke, best effort, and then pickInstallation.
RevokeToken(h) ==
    LET x == [hs[h] EXCEPT !.token = "gone"]
        picked == PickInstallation(x.found, x.claimed, None)
    IN
    /\ At(h, "revoke")
    /\ Goto(h, IF x.result # "none" THEN [x EXCEPT !.pc = "settle"]
               ELSE IF picked \in Installation THEN [x EXCEPT !.pc = "lookup"]
               ELSE [x EXCEPT !.pc = "settle", !.result = picked])
    /\ UNCHANGED <<lock, now, kept>>

\* check's two calls.
AskInstallation(h, r) ==
    LET x == hs[h]
        check == IF x.pc = "lookup" THEN ClassifyLookup(r) ELSE ClassifyMint(r)
    IN
    /\ x.pc \in {"lookup", "mint"}
    /\ Goto(h, IF x.pc = "lookup" /\ check = "ok"
                 THEN [x EXCEPT !.pc = "mint"]
               ELSE [x EXCEPT !.pc = "settle", !.last = r,
                              !.result = VerifyCheck(check)])
    /\ UNCHANGED <<lock, now, kept>>

\* settleFailure, or the reset or release of a success.
Settle(h) ==
    LET x == hs[h]
        counted == CountsTowardCoolOff(x.result)
    IN
    /\ At(h, "settle")
    /\ CASE x.result = "ok" -> ResetAttempts
         [] counted -> UNCHANGED lock
         [] OTHER -> ReleaseAttempt
    /\ hs' = [g \in Slot |->
                IF g = h THEN Idle
                ELSE [hs[g] EXCEPT !.fresh = @ /\ x.result # "ok"]]
    /\ kept' = CASE x.result = "ok" -> 0
                 [] x.fresh /\ counted -> kept + 1
                 [] OTHER -> kept
    /\ UNCHANGED <<now>>

\* The process dies between two statements: what was reserved stays so.
Crash(h) ==
    /\ hs[h].pc \notin {"idle", "reserve"}
    /\ Goto(h, Idle)
    /\ kept' = IF hs[h].fresh THEN kept + 1 ELSE kept
    /\ UNCHANGED <<lock, now>>

\* Time passes.
Tick ==
    /\ now < MaxNow
    /\ now' = now + 1
    /\ UNCHANGED <<lock, hs, kept>>

-----------------------------------------------------------------------------

Init ==
    /\ lock = [failed |-> 0, until |-> 0]
    /\ hs = [h \in Slot |-> Idle]
    /\ now = 0
    /\ kept = 0

Step(h) ==
    \/ \E op \in Ops, cands \in SUBSET Installation,
          i \in Installation \cup {None} : Attempt(h, op, cands, i)
    \/ Reserve(h)
    \/ \E r \in ResponsesTo("exchange") : Exchange(h, r)
    \/ \E r \in ResponsesTo("user") : AskUser(h, r)
    \/ \E r \in ResponsesTo("page"), entries \in SUBSET Installation,
          next \in BOOLEAN : ListPage(h, r, entries, next)
    \/ \E r \in ResponsesTo("lookup") : At(h, "lookup") /\ AskInstallation(h, r)
    \/ \E r \in ResponsesTo("mint") : At(h, "mint") /\ AskInstallation(h, r)
    \/ RevokeToken(h) \/ Settle(h) \/ Crash(h)

Next == (\E h \in Slot : Step(h)) \/ Tick

Spec == Init /\ [][Next]_vars

-----------------------------------------------------------------------------

Fresh == {h \in Slot : hs[h].fresh}

\* The attempts that the counter can stand for: those reserved since the last
\* success that are open or were never given back.
CountExplained == lock.failed <= kept + Cardinality(Fresh)

\* A user is locked out only by MaxAttempts attempts of their own since the
\* last success that failed, died or are still open: answers that say nothing
\* about the credential never lock anybody out, however many run at once
\* (RESERVE_ATTEMPT_SQL, RELEASE_ATTEMPT_SQL, reset).
LockJustified == lock.until # 0 => kept + Cardinality(Fresh) >= MaxAttempts

\* The comment on RELEASE_ATTEMPT_SQL: clearing the lock is safe, for without
\* the released reservation the count is back to what it was before it.  So
\* the failures since the last success stay counted.
FailuresStayCounted == lock.failed >= kept

\* A response that says nothing about the credential.
Inconclusive(r) ==
    \/ r.status \in {0, 429, 500}
    \/ r.status = 403 /\ r.limit
    \/ r.status = 200 /\ r.body = "bad"

\* A validation that failed for GitHub's own reasons does not count against
\* the user (countsTowardCoolOff and every classification on the way to it).
OnlyRejectionsCount ==
    \A h \in Slot : At(h, "settle") /\ CountsTowardCoolOff(hs[h].result) =>
                      ~Inconclusive(hs[h].last)

\* A token that GitHub issued to a validation is the one that it returns, or
\* its revocation has been asked before the validation ends, also when a
\* later call fails (validate's catch, verify's finally, exchange).
TokenReturnedOrRevoked ==
    \A h \in Slot : At(h, "settle") =>
      /\ hs[h].token # "held"
      /\ hs[h].token = "kept" <=> hs[h].op = "oauth" /\ hs[h].result = "ok"

\* A credential that is accepted is one that its own connection test calls
\* active, and one that is rejected is one that the test calls invalid: a row
\* is not created only to be marked invalid by its first test.
ValidationAgreesWithTest ==
    \A h \in Slot :
      LET x == hs[h] IN
      At(h, "settle") /\ (x.op = "pat" \/ x.token = "kept") =>
        /\ x.result = "ok" <=> TestUser(x.last, FALSE) = "active"
        /\ CountsTowardCoolOff(x.result) <=> TestUser(x.last, FALSE) = "invalid"
=============================================================================
