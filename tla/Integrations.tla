---------------------------- MODULE Integrations ----------------------------
(***************************************************************************)
(* GitHub integrations of users: the store, the pasted-credential          *)
(* operations, the connection test with its cooldown, deletion, and the    *)
(* key-rotation command (backend/src/integrations/*.ts).  The redirect     *)
(* flows are in RedirectFlows, which extends this module; the failure      *)
(* cool-off around GitHub's validation is in CoolOffs.                     *)
(*                                                                         *)
(* A handler is a slot with a program counter, and an action is one        *)
(* awaited statement with the code around it.  Abstractions: a secret is a *)
(* model value drawn fresh at each successful validation; its encryption   *)
(* is the id of the key and whether the ciphertext still authenticates     *)
(* (intact); a label is its normalised form; GitHub's answers are what     *)
(* CoolOffs makes of them; a 423 and any other refusal by the cool-off is  *)
(* one of the ways in which Validate ends without a credential.  The login *)
(* and metadata columns follow the credential, and are left out.           *)
(***************************************************************************)
EXTENDS Naturals, FiniteSets

CONSTANTS
    User, Label,
    Cred,           \* pool of pasted secrets and OAuth tokens
    Installation,   \* GitHub App installations
    Key,            \* ids of encryption keys
    Current,        \* the one that encrypts
    Previous,       \* those that still decrypt
    MaxId,          \* bound: rows ever inserted
    Existing,       \* number of rows in the initial states
    ExistingType,   \* and their types
    Slot, Serves,   \* handlers in flight together, and the calls that each takes
    NoUser, NoLabel, NoCred, NoKey,
    MaxPerUser, Cooldown, BatchSize,
    CallTime,       \* the longest that a connection test takes
    Rotating,       \* whether the operator runs the key-rotation command
    MaxNow          \* bound: the last tick of the clock

PasteOps == {"create", "rename", "replace", "test", "delete"}

RedirectOps == {"oauthStart", "appStart", "oauthCallback", "appCallback",
                "appSelect"}

ASSUME IntegrationAssumption ==
    /\ NoUser \notin User /\ NoLabel \notin Label /\ NoKey \notin Key
    /\ NoCred \notin Cred \cup Installation
    /\ Cred \cap Installation = {}
    /\ Current \in Key /\ Previous \subseteq Key \ {Current}
    /\ {MaxId, MaxPerUser, Cooldown, CallTime, MaxNow} \subseteq Nat
    /\ BatchSize \in Nat \ {0} /\ Rotating \in BOOLEAN
    /\ Existing \in 0..MaxId /\ Existing <= MaxPerUser
    /\ ExistingType \subseteq {"pat", "oauth_app"}
    /\ Serves \in [Slot -> SUBSET ((PasteOps \cup RedirectOps) \X User)]

\* A test ends within the cooldown that it claimed: by default a cooldown is
\* 30 seconds and a call to GitHub is cut at 10, and a test makes two at most.
ASSUME TestsAreShort == CallTime <= Cooldown

VARIABLES
    rows,       \* integrations
    issued,     \* secrets that GitHub has accepted or issued
    dropped,    \* tokens whose revocation has been asked of GitHub
    hs,         \* handlers in flight
    cli,        \* the key-rotation command
    claimed,    \* history: when each row's last test was claimed
    now

ivars == <<rows, issued, dropped, hs, cli, claimed, now>>

Id == 1..MaxId

Type == {"pat", "oauth_app", "github_app"}

Secret == Cred \cup Installation

Integration ==
    [st: {"none", "live", "gone"}, user: User \cup {NoUser}, type: Type,
     label: Label \cup {NoLabel}, cred: Secret \cup {NoCred},
     key: Key \cup {NoKey}, intact: BOOLEAN,
     status: {"active", "invalid", "expired", "undecryptable"}, tested: Nat]

NoIntegration ==
    [st |-> "none", user |-> NoUser, type |-> "pat", label |-> NoLabel,
     cred |-> NoCred, key |-> NoKey, intact |-> TRUE, status |-> "active",
     tested |-> 0]

PC == {"idle", "count", "label", "rename", "github", "insert", "update",
       "claim", "unreadable", "reencrypt", "probe", "record", "cleanup",
       "delete", "purge", "pending", "prune", "save", "consume", "target",
       "refind", "revoke"}

\* What a type's test answers.
Outcome == {"active", "invalid", "expired", "transient"}

Handler ==
    [pc: PC, op: PasteOps \cup RedirectOps \cup {"none"},
     user: User \cup {NoUser}, type: Type, label: Label \cup {NoLabel},
     row: {0} \cup Id, cred: Secret \cup {NoCred}, old: Secret \cup {NoCred},
     key: Key \cup {NoKey}, intact: BOOLEAN, at: Nat,
     outcome: Outcome \cup {"none"}]

Idle == [pc |-> "idle", op |-> "none", user |-> NoUser, type |-> "pat",
         label |-> NoLabel, row |-> 0, cred |-> NoCred, old |-> NoCred,
         key |-> NoKey, intact |-> TRUE, at |-> 0, outcome |-> "none"]

Command == [pc: {"idle", "read", "row", "done"}, after: {0} \cup Id,
            batch: SUBSET [id: Id, cred: Secret, key: Key, intact: BOOLEAN],
            full: BOOLEAN]

NoCommand == [pc |-> "idle", after |-> 0, batch |-> {}, full |-> FALSE]

Done == [NoCommand EXCEPT !.pc = "done"]

\* What each variable may hold.
TypeOK ==
    /\ rows \in [Id -> Integration]
    /\ issued \subseteq Cred
    /\ dropped \subseteq Cred
    /\ hs \in [Slot -> Handler]
    /\ cli \in Command
    /\ claimed \in [Id -> Nat]
    /\ now \in Nat

-----------------------------------------------------------------------------
(* The store: every statement is scoped by owner.                          *)

At(h, pc) == hs[h].pc = pc

Accepts(h, op, u) == At(h, "idle") /\ <<op, u>> \in Serves[h]

Goto(h, pc) == hs' = [hs EXCEPT ![h].pc = pc]

Finish(h) == hs' = [hs EXCEPT ![h] = Idle]

Live == {r \in Id : rows[r].st = "live"}

\* findOwned: a missing or foreign row is a 404.
Owned(u) == {r \in Live : rows[r].user = u}

\* The unique index on (user_id, label_normalized), seen by a write of label
\* l to row r (0 for an insert).
LabelRace(u, l, r) == \E q \in Owned(u) \ {r} : rows[q].label = l

\* AUTO_INCREMENT: ids are never reused.
NextId == 1 + Cardinality({r \in Id : rows[r].st # "none"})

\* updateOwned: an UPDATE by id, which a deleted row ignores.
UpdateOwned(r, changed) ==
    rows' = IF r \in Live THEN [rows EXCEPT ![r] = changed] ELSE rows

\* Mutant: the rewrite is scoped by the row only.
RewriteAlways(r, c, expected) ==
    rows' = IF r \in Live
              THEN [rows EXCEPT ![r].cred = c, ![r].key = Current,
                                ![r].intact = TRUE]
              ELSE rows

\* rewriteSecret: the secret columns change only while the stored key id is
\* the one that was read.
RewriteSecret(r, c, expected) ==
    rows' = IF r \in Live /\ rows[r].key = expected
              THEN [rows EXCEPT ![r].cred = c, ![r].key = Current,
                                ![r].intact = TRUE]
              ELSE rows

\* decryptRow of columns that were read earlier.
Decrypts(key, intact) == key \in {Current} \cup Previous /\ intact

\* seal, and the columns of a fresh validation.
Sealed(row, c) ==
    [row EXCEPT !.cred = c, !.key = Current, !.intact = TRUE,
                !.status = "active", !.tested = now]

-----------------------------------------------------------------------------
(* create, rename and replaceCredential.                                   *)

Begin(h, op, u) == [Idle EXCEPT !.op = op, !.user = u]

\* create: parse takes the credential-paste type only.
Create(h, u, l) ==
    /\ Accepts(h, "create", u)
    /\ hs' = [hs EXCEPT ![h] = [Begin(h, "create", u) EXCEPT
                                  !.pc = "count", !.label = l]]
    /\ UNCHANGED <<rows, issued, dropped, cli, claimed, now>>

\* rename: the owner lookup comes first.
Rename(h, u, r, l) ==
    /\ Accepts(h, "rename", u)
    /\ r \in Owned(u)
    /\ hs' = [hs EXCEPT ![h] = [Begin(h, "rename", u) EXCEPT
                                  !.pc = "label", !.row = r, !.label = l]]
    /\ UNCHANGED <<rows, issued, dropped, cli, claimed, now>>

\* replaceCredential: owner lookup, then parse for the row's type.
Replace(h, u, r) ==
    /\ Accepts(h, "replace", u)
    /\ r \in Owned(u)
    /\ rows[r].type = "pat"
    /\ hs' = [hs EXCEPT ![h] = [Begin(h, "replace", u) EXCEPT
                                  !.pc = "github", !.row = r]]
    /\ UNCHANGED <<rows, issued, dropped, cli, claimed, now>>

\* countOwned, ahead of the check that insertWithinCap makes again.
CountOwned(h) ==
    /\ At(h, "count")
    /\ IF Cardinality(Owned(hs[h].user)) >= MaxPerUser
         THEN Finish(h) ELSE Goto(h, "label")
    /\ UNCHANGED <<rows, issued, dropped, cli, claimed, now>>

\* What follows the label check in each operation.
AfterLabel(op) ==
    CASE op = "rename" -> "rename"
      [] op \in {"oauthStart", "appStart"} -> "purge"
      [] OTHER -> "github"

\* assertLabelFree: a holder other than the row itself is a 409.
AssertLabelFree(h) ==
    /\ At(h, "label")
    /\ IF LabelRace(hs[h].user, hs[h].label, hs[h].row)
         THEN Finish(h) ELSE Goto(h, AfterLabel(hs[h].op))
    /\ UNCHANGED <<rows, issued, dropped, cli, claimed, now>>

\* rename's update: guardLabelRace turns a duplicate into a 409.
WriteLabel(h) ==
    /\ At(h, "rename")
    /\ IF LabelRace(hs[h].user, hs[h].label, hs[h].row)
         THEN UNCHANGED rows
         ELSE UpdateOwned(hs[h].row,
                          [rows[hs[h].row] EXCEPT !.label = hs[h].label])
    /\ Finish(h)
    /\ UNCHANGED <<issued, dropped, cli, claimed, now>>

\* validate: GitHub, or the cool-off, refuses the pasted credential.
ValidateRefused(h) ==
    /\ At(h, "github")
    /\ hs[h].op \in {"create", "replace"}
    /\ Finish(h)
    /\ UNCHANGED <<rows, issued, dropped, cli, claimed, now>>

\* validate: GitHub accepts it.
ValidateAccepted(h, c) ==
    /\ At(h, "github")
    /\ hs[h].op \in {"create", "replace"}
    /\ c \in Cred \ issued
    /\ issued' = issued \cup {c}
    /\ hs' = [hs EXCEPT ![h].cred = c,
                        ![h].pc = IF hs[h].row = 0 THEN "insert" ELSE "update"]
    /\ UNCHANGED <<rows, dropped, cli, claimed, now>>

Inserted(x) ==
    Sealed([NoIntegration EXCEPT !.st = "live", !.user = x.user,
                                 !.type = x.type, !.label = x.label], x.cred)

\* Mutant: the count that came before GitHub's call is the only one.
InsertUncapped(h, refused) ==
    /\ At(h, "insert")
    /\ NextId <= MaxId
    /\ IF LabelRace(hs[h].user, hs[h].label, 0)
         THEN hs' = [hs EXCEPT ![h] = refused] /\ UNCHANGED rows
         ELSE rows' = [rows EXCEPT ![NextId] = Inserted(hs[h])] /\ Finish(h)

\* insertWithinCap: the count and the insert are one transaction that holds
\* the lock of the owner's cool-off row; a duplicate label is a 409.
InsertWithinCap(h, refused) ==
    /\ At(h, "insert")
    /\ NextId <= MaxId
    /\ IF \/ Cardinality(Owned(hs[h].user)) >= MaxPerUser
          \/ LabelRace(hs[h].user, hs[h].label, 0)
         THEN hs' = [hs EXCEPT ![h] = refused] /\ UNCHANGED rows
         ELSE rows' = [rows EXCEPT ![NextId] = Inserted(hs[h])] /\ Finish(h)

Insert(h) ==
    /\ hs[h].op = "create"
    /\ InsertWithinCap(h, Idle)
    /\ UNCHANGED <<issued, dropped, cli, claimed, now>>

\* replaceCredential's update.
WriteCredential(h) ==
    /\ At(h, "update")
    /\ hs[h].op = "replace"
    /\ UpdateOwned(hs[h].row, Sealed(rows[hs[h].row], hs[h].cred))
    /\ Finish(h)
    /\ UNCHANGED <<issued, dropped, cli, claimed, now>>

-----------------------------------------------------------------------------
(* The connection test.                                                    *)

\* test: the row is read, secret included, before the cooldown is claimed.
Test(h, u, r) ==
    /\ Accepts(h, "test", u)
    /\ r \in Owned(u)
    /\ hs' = [hs EXCEPT ![h] = [Begin(h, "test", u) EXCEPT
                !.pc = "claim", !.row = r, !.at = now, !.cred = rows[r].cred,
                !.key = rows[r].key, !.intact = rows[r].intact]]
    /\ UNCHANGED <<rows, issued, dropped, cli, claimed, now>>

\* What a claimed test does with the secret that it read.
AfterClaim(x) ==
    IF ~Decrypts(x.key, x.intact) THEN "unreadable"
    ELSE IF x.key \in Previous THEN "reencrypt" ELSE "probe"

\* Mutant: the cooldown is compared without the window.
ClaimEarly(h) ==
    LET x == hs[h] IN
    /\ At(h, "claim")
    /\ IF x.row \in Live /\ rows[x.row].tested < x.at
         THEN /\ rows' = [rows EXCEPT ![x.row].tested = x.at]
              /\ claimed' = [claimed EXCEPT ![x.row] = x.at]
              /\ Goto(h, AfterClaim(x))
         ELSE Finish(h) /\ UNCHANGED <<rows, claimed>>
    /\ UNCHANGED <<issued, dropped, cli, now>>

\* claim: last_tested_at = now in one UPDATE, unless the window is running.
Claim(h) ==
    LET x == hs[h] IN
    /\ At(h, "claim")
    /\ IF x.row \in Live /\ rows[x.row].tested + Cooldown < x.at
         THEN /\ rows' = [rows EXCEPT ![x.row].tested = x.at]
              /\ claimed' = [claimed EXCEPT ![x.row] = x.at]
              /\ Goto(h, AfterClaim(x))
         ELSE Finish(h) /\ UNCHANGED <<rows, claimed>>
    /\ UNCHANGED <<issued, dropped, cli, now>>

\* A secret that no key decrypts: no call to GitHub.
MarkUndecryptable(h) ==
    /\ At(h, "unreadable")
    /\ UpdateOwned(hs[h].row, [rows[hs[h].row] EXCEPT
                       !.status = "undecryptable", !.tested = hs[h].at])
    /\ Finish(h)
    /\ UNCHANGED <<issued, dropped, cli, claimed, now>>

\* reencryptIfPrevious.
Reencrypt(h) ==
    /\ At(h, "reencrypt")
    /\ RewriteSecret(hs[h].row, hs[h].cred, hs[h].key)
    /\ Goto(h, "probe")
    /\ UNCHANGED <<issued, dropped, cli, claimed, now>>

\* The type's test: what GitHub says of the secret that was read.
Probe(h, o) ==
    /\ At(h, "probe")
    /\ hs' = [hs EXCEPT ![h].pc = "record", ![h].outcome = o]
    /\ UNCHANGED <<rows, issued, dropped, cli, claimed, now>>

\* record: by id, on whatever credential the row holds now.
Record(h) ==
    LET x == hs[h]
        row == rows[x.row]
    IN
    /\ At(h, "record")
    /\ UpdateOwned(x.row, [row EXCEPT !.tested = x.at, !.status =
                     IF x.outcome = "transient" THEN row.status ELSE x.outcome])
    /\ Finish(h)
    /\ UNCHANGED <<issued, dropped, cli, claimed, now>>

-----------------------------------------------------------------------------
(* delete, and the key-rotation command.                                   *)

\* delete: the owner lookup.
Delete(h, u, r) ==
    /\ Accepts(h, "delete", u)
    /\ r \in Owned(u)
    /\ hs' = [hs EXCEPT ![h] = [Begin(h, "delete", u) EXCEPT
                !.pc = "cleanup", !.row = r, !.type = rows[r].type,
                !.cred = rows[r].cred, !.key = rows[r].key,
                !.intact = rows[r].intact]]
    /\ UNCHANGED <<rows, issued, dropped, cli, claimed, now>>

\* cleanUp: only an OAuth token that decrypts is revoked, and a failure is
\* swallowed.
CleanUp(h) ==
    LET x == hs[h] IN
    /\ At(h, "cleanup")
    /\ dropped' = IF x.type = "oauth_app" /\ Decrypts(x.key, x.intact)
                    THEN dropped \cup {x.cred} ELSE dropped
    /\ Goto(h, "delete")
    /\ UNCHANGED <<rows, issued, cli, claimed, now>>

\* deleteOwned.
DeleteOwned(h) ==
    /\ At(h, "delete")
    /\ UpdateOwned(hs[h].row, [NoIntegration EXCEPT !.st = "gone"])
    /\ Finish(h)
    /\ UNCHANGED <<issued, dropped, cli, claimed, now>>

\* integrations-keys reencrypt is started.
RotateStart ==
    /\ Rotating /\ cli.pc \in {"idle", "done"}
    /\ cli' = [NoCommand EXCEPT !.pc = "read"]
    /\ UNCHANGED <<rows, issued, dropped, hs, claimed, now>>

Stale == {r \in Live : rows[r].key \in Previous /\ r > cli.after}

\* findBySecretKeyIdsForOperator: the next rows by id under a previous key.
Batch == {r \in Stale : Cardinality({q \in Stale : q <= r}) <= BatchSize}

Snapshot(r) == [id |-> r, cred |-> rows[r].cred, key |-> rows[r].key,
                intact |-> rows[r].intact]

\* Mutant: a full batch is taken for the last one.
RotateReadOnce ==
    /\ cli.pc = "read"
    /\ cli' = IF Batch = {} THEN Done
              ELSE [cli EXCEPT !.batch = {Snapshot(r) : r \in Batch},
                               !.full = FALSE, !.pc = "row"]
    /\ UNCHANGED <<rows, issued, dropped, hs, claimed, now>>

\* A batch is read; the loop goes on while batches are full.
RotateRead ==
    /\ cli.pc = "read"
    /\ cli' = IF Batch = {} THEN Done
              ELSE [cli EXCEPT !.batch = {Snapshot(r) : r \in Batch},
                               !.full = Cardinality(Batch) = BatchSize,
                               !.pc = "row"]
    /\ UNCHANGED <<rows, issued, dropped, hs, claimed, now>>

\* reencryptRow, for the batch's rows in the order of their ids: one that
\* does not decrypt, or that changed meanwhile, is skipped.
RotateRow ==
    LET s == CHOOSE t \in cli.batch : \A q \in cli.batch : t.id <= q.id
        rest == cli.batch \ {s}
    IN
    /\ cli.pc = "row"
    /\ IF s.intact THEN RewriteSecret(s.id, s.cred, s.key) ELSE UNCHANGED rows
    /\ cli' = IF rest = {} /\ ~cli.full THEN Done
              ELSE [cli EXCEPT !.after = s.id, !.batch = rest,
                               !.pc = IF rest = {} THEN "read" ELSE "row"]
    /\ UNCHANGED <<issued, dropped, hs, claimed, now>>

\* Time, during which no test outlives CallTime.
Tick ==
    /\ now < MaxNow
    /\ \A h \in Slot : hs[h].op = "test" => now < hs[h].at + CallTime
    /\ now' = now + 1
    /\ UNCHANGED <<rows, issued, dropped, hs, cli, claimed>>

-----------------------------------------------------------------------------

\* Rows that earlier key sets and processes have left, at a time when they
\* can be tested.
Init ==
    /\ \E f \in [1..Existing -> [user: User, type: ExistingType, label: Label,
                                 cred: Cred, key: Key, intact: BOOLEAN]] :
         /\ \A r, q \in 1..Existing :
              r # q => /\ f[r].cred # f[q].cred
                       /\ f[r].user # f[q].user \/ f[r].label # f[q].label
         /\ rows = [r \in Id |->
                      IF r > Existing THEN NoIntegration
                      ELSE [st |-> "live", user |-> f[r].user,
                            type |-> f[r].type, label |-> f[r].label,
                            cred |-> f[r].cred, key |-> f[r].key,
                            intact |-> f[r].intact, status |-> "active",
                            tested |-> 0]]
         /\ issued = {f[r].cred : r \in 1..Existing}
    /\ dropped = {}
    /\ hs = [h \in Slot |-> Idle]
    /\ cli = NoCommand
    /\ claimed = [r \in Id |-> 0]
    /\ now = Cooldown + 1

Request(h) ==
    \E u \in User :
      \/ \E l \in Label : Create(h, u, l)
      \/ \E r \in Id :
           \/ \E l \in Label : Rename(h, u, r, l)
           \/ Replace(h, u, r)
           \/ Test(h, u, r)
           \/ Delete(h, u, r)

Step(h) ==
    \/ CountOwned(h) \/ AssertLabelFree(h) \/ WriteLabel(h)
    \/ ValidateRefused(h)
    \/ \E c \in Cred : ValidateAccepted(h, c)
    \/ Insert(h) \/ WriteCredential(h)
    \/ Claim(h) \/ MarkUndecryptable(h) \/ Reencrypt(h)
    \/ \E o \in Outcome : Probe(h, o)
    \/ Record(h) \/ CleanUp(h) \/ DeleteOwned(h)

Rotate == RotateStart \/ RotateRead \/ RotateRow

Next ==
    \/ \E h \in Slot : Request(h) \/ Step(h)
    \/ Rotate
    \/ Tick

Spec == Init /\ [][Next]_ivars

-----------------------------------------------------------------------------

\* Concurrent creates never pass the per-user cap: the count that decides is
\* the one in the insert's transaction (insertWithinCap).
CapHolds == \A u \in User : Cardinality(Owned(u)) <= MaxPerUser

\* The stored secret of a row changes only when a replacement writes the one
\* that GitHub has just accepted: the lazy and the operator's re-encryption
\* never bring back a secret that was read before the replacement
\* (rewriteSecret).
ReplacementWins ==
    [][\A r \in Live :
         rows'[r].st = "live" /\ rows'[r].cred # rows[r].cred =>
           \E h \in Slot : /\ At(h, "update")
                            /\ hs[h].row = r
                            /\ rows'[r].cred = hs[h].cred]_ivars

\* Once the rotation command has finished, a row that is still under a
\* previous key is one that does not decrypt, so the previous keys can be
\* retired (reencrypt's batches, its cursor and its skipped rows).
RotationComplete ==
    cli.pc = "done" =>
      \A r \in Live : rows[r].key \in Previous => ~rows[r].intact

\* Two tests of one integration are more than a cooldown apart, although a
\* slow test writes its own start back as last_tested_at when it ends
\* (claim, record).
TestsSpaced ==
    [][\A r \in Id : claimed'[r] # claimed[r] =>
                       claimed'[r] > claimed[r] + Cooldown]_ivars
=============================================================================
