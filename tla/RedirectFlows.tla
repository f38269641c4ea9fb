---------------------------- MODULE RedirectFlows ---------------------------
(***************************************************************************)
(* The redirect flows of the OAuth App and of the GitHub App               *)
(* (backend/src/integrations/types/oauth-app and github-app), on the store *)
(* of Integrations: start issues a single-use state, callback consumes it, *)
(* verifies with GitHub and stores a credential, and a GitHub App callback *)
(* that finds several installations issues a second state, which select    *)
(* consumes.                                                               *)
(*                                                                         *)
(* The two tables of states have the same columns and code but for the     *)
(* select stage; here they are one, told apart by type.  A state is        *)
(* presented with its right secret or a wrong one (good).  The types are   *)
(* enabled and keep their client id, so a revocation is always asked of    *)
(* GitHub; dropped records that it was asked, whatever GitHub answered.    *)
(***************************************************************************)
EXTENDS Integrations

CONSTANTS
    MaxSid,         \* bound: states ever issued
    Access,         \* installations that GitHub shows to each user
    StateTtl, MaxPending

ASSUME FlowAssumption ==
    /\ MaxSid \in Nat /\ StateTtl \in Nat /\ MaxPending \in Nat \ {0}
    /\ IsFiniteSet(Slot)
    /\ Access \in [User -> SUBSET Installation]

VARIABLES
    states,     \* integrations_oauth_states and ..._github_app_states
    fs,         \* what each handler keeps of its flow
    tokens,     \* history: tokens that callbacks have exchanged codes for
    consumed,   \* history: how many callers each state has let through
    proven      \* history: installations that each user has proved

rvars == <<states, fs, tokens, consumed, proven>>

vars == <<ivars, rvars>>

Sid == 1..MaxSid

Stage == {"redirect", "select"}

RedirectState ==
    [st: {"none", "pending", "gone"}, user: User \cup {NoUser}, type: Type,
     stage: Stage, label: Label \cup {NoLabel}, row: {0} \cup Id,
     cands: SUBSET Installation, exp: Nat]

NoState == [st |-> "none", user |-> NoUser, type |-> "oauth_app",
            stage |-> "redirect", label |-> NoLabel, row |-> 0, cands |-> {},
            exp |-> 0]

Flow == [sid: {0} \cup Sid, good: BOOLEAN, stage: Stage, exp: Nat,
         cands: SUBSET Installation, stale: SUBSET Sid,
         chosen: Installation \cup {NoCred}]

NoFlow == [sid |-> 0, good |-> TRUE, stage |-> "redirect", exp |-> 0,
           cands |-> {}, stale |-> {}, chosen |-> NoCred]

\* What each variable may hold.
FlowTypeOK ==
    /\ TypeOK
    /\ states \in [Sid -> RedirectState]
    /\ fs \in [Slot -> Flow]
    /\ tokens \subseteq Cred
    /\ consumed \in [Sid -> Nat]
    /\ proven \subseteq User \X Installation

\* The type that each flow stores.
TypeOf(op) == IF op \in {"oauthStart", "oauthCallback"}
                THEN "oauth_app" ELSE "github_app"

Callbacks == {"oauthCallback", "appCallback", "appSelect"}

Ends(h) == Finish(h) /\ fs' = [fs EXCEPT ![h] = NoFlow]

PendingOf(u, t) == {s \in Sid : /\ states[s].st = "pending"
                                /\ states[s].user = u /\ states[s].type = t}

-----------------------------------------------------------------------------
(* start, and the issue of a state.                                        *)

\* start for a new integration: cap and label come first.
StartCreate(h, op, u, l) ==
    /\ Accepts(h, op, u)
    /\ hs' = [hs EXCEPT ![h] = [Begin(h, op, u) EXCEPT
                !.pc = "count", !.type = TypeOf(op), !.label = l]]
    /\ fs' = [fs EXCEPT ![h] = NoFlow]
    /\ UNCHANGED <<rows, issued, dropped, cli, claimed, now, states, tokens,
                   consumed, proven>>

\* start for an existing one, which is the caller's and of this type.
StartReplace(h, op, u, r) ==
    /\ Accepts(h, op, u)
    /\ r \in Owned(u) /\ rows[r].type = TypeOf(op)
    /\ hs' = [hs EXCEPT ![h] = [Begin(h, op, u) EXCEPT
                !.pc = "purge", !.type = TypeOf(op), !.row = r]]
    /\ fs' = [fs EXCEPT ![h] = NoFlow]
    /\ UNCHANGED <<rows, issued, dropped, cli, claimed, now, states, tokens,
                   consumed, proven>>

\* issue: expired states of every user are deleted.
Purge(h) ==
    /\ At(h, "purge")
    /\ states' = [s \in Sid |->
                    IF /\ states[s].st = "pending" /\ states[s].exp <= now
                       /\ states[s].type = hs[h].type
                      THEN [NoState EXCEPT !.st = "gone"] ELSE states[s]]
    /\ hs' = [hs EXCEPT ![h].pc = "pending", ![h].at = now]
    /\ UNCHANGED <<rows, issued, dropped, cli, claimed, now, fs, tokens,
                   consumed, proven>>

\* Mutant: one pending state too many is kept.
PrunableLate(u, t) ==
    {s \in PendingOf(u, t) :
       Cardinality({q \in PendingOf(u, t) : q > s}) >= MaxPending}

\* prunePending: all but the newest MaxPending - 1.
Prunable(u, t) ==
    {s \in PendingOf(u, t) :
       Cardinality({q \in PendingOf(u, t) : q > s}) >= MaxPending - 1}

\* prunePending's read.
ListPending(h) ==
    /\ At(h, "pending")
    /\ LET stale == Prunable(hs[h].user, hs[h].type) IN
       /\ fs' = [fs EXCEPT ![h].stale = stale]
       /\ Goto(h, IF stale = {} THEN "save" ELSE "prune")
    /\ UNCHANGED <<rows, issued, dropped, cli, claimed, now, states, tokens,
                   consumed, proven>>

\* prunePending's delete, of what was read.
Prune(h) ==
    /\ At(h, "prune")
    /\ states' = [s \in Sid |-> IF s \in fs[h].stale
                                  THEN [NoState EXCEPT !.st = "gone"]
                                  ELSE states[s]]
    /\ Goto(h, "save")
    /\ UNCHANGED <<rows, issued, dropped, cli, claimed, now, fs, tokens,
                   consumed, proven>>

NextSid == 1 + Cardinality({s \in Sid : states[s].st # "none"})

\* issue's insert: a select state carries the candidates that were verified.
SaveState(h) ==
    /\ At(h, "save")
    /\ NextSid <= MaxSid
    /\ states' = [states EXCEPT ![NextSid] =
                    [st |-> "pending", user |-> hs[h].user,
                     type |-> hs[h].type,
                     stage |-> IF hs[h].op = "appCallback"
                                 THEN "select" ELSE "redirect",
                     label |-> hs[h].label, row |-> hs[h].row,
                     cands |-> fs[h].cands, exp |-> hs[h].at + StateTtl]]
    /\ Ends(h)
    /\ UNCHANGED <<rows, issued, dropped, cli, claimed, now, tokens, consumed,
                   proven>>

-----------------------------------------------------------------------------
(* callback and select.                                                    *)

\* Mutant: the lookup is by uuid alone.
PresentedAny(op, u, s) ==
    states[s].st = "pending" /\ states[s].type = TypeOf(op)

\* consume's lookup is bound to the caller.
Presented(op, u, s) == s \in PendingOf(u, TypeOf(op))

\* callback or select, with a state and, for select, an installation.
Callback(h, op, u, s, good, i) ==
    /\ Accepts(h, op, u)
    /\ Presented(op, u, s)
    /\ hs' = [hs EXCEPT ![h] = [Begin(h, op, u) EXCEPT
                !.pc = "consume", !.type = TypeOf(op), !.at = now,
                !.label = states[s].label, !.row = states[s].row]]
    /\ fs' = [fs EXCEPT ![h] = [NoFlow EXCEPT
                !.sid = s, !.good = good, !.stage = states[s].stage,
                !.exp = states[s].exp, !.cands = states[s].cands,
                !.chosen = i]]
    /\ UNCHANGED <<rows, issued, dropped, cli, claimed, now, states, tokens,
                   consumed, proven>>

StageOf(op) == IF op = "appSelect" THEN "select" ELSE "redirect"

\* Mutant: whether the delete found the row is not looked at.
PassesTwice(h) ==
    /\ fs[h].good /\ fs[h].exp > hs[h].at
    /\ fs[h].stage = StageOf(hs[h].op)

\* consume: only the caller whose DELETE found the row goes on, with the
\* right secret, before the expiry, at the stage that the state is for.
Passes(h) ==
    /\ states[fs[h].sid].st = "pending"
    /\ fs[h].good /\ fs[h].exp > hs[h].at
    /\ fs[h].stage = StageOf(hs[h].op)

Consume(h) ==
    LET s == fs[h].sid IN
    /\ At(h, "consume")
    /\ states' = [states EXCEPT ![s] = [NoState EXCEPT !.st = "gone"]]
    /\ IF Passes(h)
         THEN /\ consumed' = [consumed EXCEPT ![s] = @ + 1]
              /\ Goto(h, IF hs[h].row = 0 THEN "count" ELSE "target")
              /\ fs' = [fs EXCEPT ![h] = [NoFlow EXCEPT
                          !.cands = fs[h].cands, !.chosen = fs[h].chosen]]
         ELSE Ends(h) /\ UNCHANGED consumed
    /\ UNCHANGED <<rows, issued, dropped, cli, claimed, now, tokens, proven>>

\* The replace target is looked up again.
FindTarget(h) ==
    /\ At(h, "target")
    /\ IF /\ hs[h].row \in Owned(hs[h].user)
          /\ rows[hs[h].row].type = hs[h].type
         THEN Goto(h, "github") /\ UNCHANGED fs ELSE Ends(h)
    /\ UNCHANGED <<rows, issued, dropped, cli, claimed, now, states, tokens,
                   consumed, proven>>

\* The attempt fails: the cool-off, the code, the installation or GitHub.
FlowRefused(h) ==
    /\ At(h, "github")
    /\ hs[h].op \in Callbacks
    /\ Ends(h)
    /\ UNCHANGED <<rows, issued, dropped, cli, claimed, now, states, tokens,
                   consumed, proven>>

\* validate: the exchange gave a token that is not good enough, or whose
\* check failed; it is revoked.
TokenRejected(h, c) ==
    /\ At(h, "github")
    /\ hs[h].op = "oauthCallback"
    /\ c \in Cred \ issued
    /\ issued' = issued \cup {c}
    /\ tokens' = tokens \cup {c}
    /\ dropped' = dropped \cup {c}
    /\ Ends(h)
    /\ UNCHANGED <<rows, cli, claimed, now, states, consumed, proven>>

Accepted(h, c) ==
    hs' = [hs EXCEPT ![h].cred = c,
                     ![h].pc = IF hs[h].row = 0 THEN "insert" ELSE "refind"]

\* validate: the exchange gave a token that GitHub accepts.
TokenAccepted(h, c) ==
    /\ At(h, "github")
    /\ hs[h].op = "oauthCallback"
    /\ c \in Cred \ issued
    /\ issued' = issued \cup {c}
    /\ tokens' = tokens \cup {c}
    /\ Accepted(h, c)
    /\ UNCHANGED <<rows, dropped, cli, claimed, now, states, fs, consumed,
                   proven>>

\* verify and pickInstallation: the one claimed, or the only one.
InstallationPicked(h, listed, i) ==
    /\ At(h, "github")
    /\ hs[h].op = "appCallback"
    /\ listed \subseteq Access[hs[h].user] /\ i \in listed
    /\ proven' = proven \cup ({hs[h].user} \X listed)
    /\ Accepted(h, i)
    /\ UNCHANGED <<rows, issued, dropped, cli, claimed, now, states, fs,
                   tokens, consumed>>

\* offer: several are listed and none is claimed.
SelectionOffered(h, listed) ==
    /\ At(h, "github")
    /\ hs[h].op = "appCallback"
    /\ listed \subseteq Access[hs[h].user] /\ Cardinality(listed) > 1
    /\ proven' = proven \cup ({hs[h].user} \X listed)
    /\ fs' = [fs EXCEPT ![h].cands = listed]
    /\ Goto(h, "purge")
    /\ UNCHANGED <<rows, issued, dropped, cli, claimed, now, states, tokens,
                   consumed>>

\* select: the chosen installation is one of the candidates.
Selected(h) ==
    /\ At(h, "github")
    /\ hs[h].op = "appSelect"
    /\ fs[h].chosen \in fs[h].cands
    /\ Accepted(h, fs[h].chosen)
    /\ UNCHANGED <<rows, issued, dropped, cli, claimed, now, rvars>>

-----------------------------------------------------------------------------
(* Storing what was verified.                                              *)

\* Mutant: a token that is not stored is forgotten.
UnstoredForgotten(h) == Idle

\* storeOrRevoke: what a handler does when its token is not stored.
Unstored(h) ==
    IF hs[h].type = "oauth_app"
      THEN [hs[h] EXCEPT !.pc = "revoke", !.old = hs[h].cred] ELSE Idle

\* create, within the cap.
FlowInsert(h) ==
    /\ hs[h].op \in Callbacks
    /\ InsertWithinCap(h, Unstored(h))
    /\ fs' = [fs EXCEPT ![h] = NoFlow]
    /\ UNCHANGED <<issued, dropped, cli, claimed, now, states, tokens, consumed,
                   proven>>

\* replace: the row may be gone since FindTarget; its token is read to be
\* revoked once it has been replaced.
Refind(h) ==
    LET x == hs[h] IN
    /\ At(h, "refind")
    /\ hs' = [hs EXCEPT ![h] =
                IF x.row \notin Owned(x.user) THEN Unstored(h)
                ELSE [x EXCEPT !.pc = "update", !.old =
                       IF /\ x.type = "oauth_app"
                          /\ Decrypts(rows[x.row].key, rows[x.row].intact)
                         THEN rows[x.row].cred ELSE NoCred]]
    /\ fs' = [fs EXCEPT ![h] = NoFlow]
    /\ UNCHANGED <<rows, issued, dropped, cli, claimed, now, states, tokens,
                   consumed, proven>>

\* updateOwned with the fresh columns, by id.
FlowUpdate(h) ==
    LET x == hs[h] IN
    /\ At(h, "update")
    /\ x.op \in Callbacks
    /\ UpdateOwned(x.row, Sealed(rows[x.row], x.cred))
    /\ IF x.old = NoCred THEN Finish(h) ELSE Goto(h, "revoke")
    /\ UNCHANGED <<issued, dropped, cli, claimed, now, rvars>>

\* revoke, best effort.
Revoke(h) ==
    /\ At(h, "revoke")
    /\ dropped' = dropped \cup {hs[h].old}
    /\ Finish(h)
    /\ UNCHANGED <<rows, issued, cli, claimed, now, rvars>>

-----------------------------------------------------------------------------

FlowInit ==
    /\ Init
    /\ states = [s \in Sid |-> NoState]
    /\ fs = [h \in Slot |-> NoFlow]
    /\ tokens = {}
    /\ consumed = [s \in Sid |-> 0]
    /\ proven = {}

FlowRequest(h) ==
    \E u \in User :
      \/ \E op \in {"oauthStart", "appStart"} :
           \/ \E l \in Label : StartCreate(h, op, u, l)
           \/ \E r \in Id : StartReplace(h, op, u, r)
      \/ \E s \in Sid, good \in BOOLEAN :
           \/ \E op \in {"oauthCallback", "appCallback"} :
                Callback(h, op, u, s, good, NoCred)
           \/ \E i \in Installation : Callback(h, "appSelect", u, s, good, i)

FlowStep(h) ==
    \/ Purge(h) \/ ListPending(h) \/ Prune(h) \/ SaveState(h)
    \/ Consume(h) \/ FindTarget(h) \/ FlowRefused(h)
    \/ \E c \in Cred : TokenRejected(h, c) \/ TokenAccepted(h, c)
    \/ \E listed \in SUBSET Installation :
         \/ \E i \in listed : InstallationPicked(h, listed, i)
         \/ SelectionOffered(h, listed)
    \/ Selected(h)
    \/ FlowInsert(h) \/ Refind(h) \/ FlowUpdate(h) \/ Revoke(h)

FlowNext ==
    \/ \E h \in Slot : FlowRequest(h) \/ FlowStep(h)
    \/ /\ Next
       /\ fs' = [h \in Slot |-> IF hs'[h] = Idle THEN NoFlow ELSE fs[h]]
       /\ UNCHANGED <<states, tokens, consumed, proven>>

FlowSpec == FlowInit /\ [][FlowNext]_vars

-----------------------------------------------------------------------------

\* A redirect state lets at most one caller through, however many present it
\* at once and whatever prunes it meanwhile (consume's DELETE).
StateSingleUse == \A s \in Sid : consumed[s] <= 1

\* The handlers that can issue a state of type t to user u.
Issuers(u, t) ==
    {h \in Slot : \E op \in {"oauthStart", "appStart", "appCallback"} :
                    TypeOf(op) = t /\ <<op, u>> \in Serves[h]}

\* Concurrent starts can pass the cap on pending states, for the read that
\* prunes is not in the insert's transaction, but by no more than the other
\* handlers that issue states to that user (prunePending).
PendingBounded ==
    \A u \in User, t \in Type :
      Cardinality(PendingOf(u, t)) < MaxPending + Cardinality(Issuers(u, t))

\* A stored installation is one that its owner has proved access to with
\* their own GitHub account, also when the proof and the choice were two
\* requests (the state's binding, pickInstallation and select).
InstallationProven ==
    \A r \in Live : rows[r].type = "github_app" =>
                      <<rows[r].user, rows[r].cred>> \in proven

Holds(h, c) == c \in {hs[h].cred, hs[h].old}

\* A token that GitHub issued to an OAuth App callback is stored, is in a
\* handler's hands, or its revocation has been asked (storeOrRevoke, replace
\* and cleanUp).
TokensAccounted ==
    \A c \in tokens :
      \/ c \in dropped
      \/ \E r \in Live : rows[r].cred = c
      \/ \E h \in Slot : Holds(h, c)
=============================================================================
