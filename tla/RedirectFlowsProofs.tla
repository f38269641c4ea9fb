------------------------ MODULE RedirectFlowsProofs -------------------------
(***************************************************************************)
(* Proofs about Integrations and RedirectFlows, for any number of          *)
(* handlers, rows, keys, states and installations.  First of the store     *)
(* alone: type correctness, the cap on a user's integrations, that         *)
(* re-encryption never brings back a replaced secret, that a finished      *)
(* rotation leaves no readable secret under a previous key, and that tests *)
(* keep their distance.  Then, with the callbacks of the redirect flows    *)
(* among the writers, all of this again, and the single use of states, the *)
(* bound on pending states, and that a stored installation is one that its *)
(* owner has proved; and, as long as OAuth replaces do not overlap with    *)
(* other writes of their row, that no issued token is lost.                *)
(***************************************************************************)
EXTENDS RedirectFlows, FiniteSetTheorems, WellFoundedInduction, TLAPS

-----------------------------------------------------------------------------
(* The inductive invariant of the store.  What a handler or the command    *)
(* keeps of a row is stated of a table of rows R, so that the table before *)
(* and after a step can be compared.                                       *)

Lives(R, r) == r \in Id /\ R[r].st = "live"

\* An app's rows hold installations, the others hold tokens.
CredFits(t, c) == c \in IF t = "github_app" THEN Installation ELSE Cred

RowHolds(x) == x.st = "live" => x.user \in User /\ CredFits(x.type, x.cred)

\* Ids are given in order.
Prefix(R) == \E n \in 0..MaxId : \A r \in Id : R[r].st # "none" <=> r <= n

\* What a handler has of the row it works on: the row has been inserted, it
\* has the owner and the type that the handler's credential is for, and as
\* long as it is under a previous key it has the secret that was read.
HandlerHolds(x, R) ==
    /\ x.pc # "idle" => x.user \in User
    /\ x.op \in {"create", "replace"} => x.type = "pat"
    /\ x.pc \in {"count", "label"} /\ x.op # "rename" => x.row = 0
    /\ x.row # 0 => R[x.row].st # "none"
    /\ x.pc \in {"github", "refind", "update"} /\ Lives(R, x.row) =>
         R[x.row].type = x.type /\ R[x.row].user = x.user
    /\ x.pc \in {"insert", "refind", "update", "cleanup"} => CredFits(x.type, x.cred)
    /\ x.old \in Cred \cup {NoCred}
    /\ x.pc = "revoke" => x.old \in Cred
    /\ x.pc = "reencrypt" => x.key \in Previous
    /\ x.pc = "record" => x.outcome \in Outcome
    /\ x.pc \in {"claim", "reencrypt"} /\ Lives(R, x.row) =>
         (R[x.row].key \in Previous => R[x.row].cred = x.cred)

\* The same of a row that the rotation command has read.
SnapshotHolds(s, R) ==
    /\ s.key \in Previous
    /\ R[s.id].st # "none"
    /\ Lives(R, s.id) /\ R[s.id].key \in Previous =>
         /\ R[s.id].cred = s.cred /\ R[s.id].key = s.key
         /\ R[s.id].intact = s.intact

StoreInv ==
    /\ TypeOK
    /\ Prefix(rows)
    /\ \A r \in Id : RowHolds(rows[r])
    /\ \A h \in Slot : HandlerHolds(hs[h], rows)
    /\ \A s \in cli.batch : SnapshotHolds(s, rows)

\* What any step may do to a row: a row is inserted under the current key, it
\* keeps its owner and type, a secret under a previous key is not written, and
\* a deleted row does not come back.
Moves(x, y) ==
    /\ x.st # "none" => y.st # "none"
    /\ y.st = "live" => x.st \in {"none", "live"}
    /\ x.st = "live" /\ y.st = "live" =>
         /\ y.user = x.user /\ y.type = x.type
         /\ y.key \in Previous =>
              y.cred = x.cred /\ y.key = x.key /\ y.intact = x.intact
    /\ x.st = "none" /\ y.st = "live" => y.key = Current

RowsMove(R, S) == \A r \in Id : Moves(R[r], S[r])

-----------------------------------------------------------------------------
(* The rotation command and the connection test.                           *)

\* The rows that the command is to re-encrypt.
Readable == {r \in Live : rows[r].key \in Previous /\ rows[r].intact}

\* Those left are past the cursor; while a batch is at hand they are in it,
\* or past it and another batch follows.
RotateInv ==
    /\ \A s, t \in cli.batch : s.id = t.id => s = t
    /\ cli.pc = "row" => cli.batch # {}
    /\ cli.pc = "done" => Readable = {}
    /\ cli.pc \in {"read", "row"} => \A r \in Readable : r > cli.after
    /\ cli.pc = "row" =>
         \A r \in Readable : \/ \E s \in cli.batch : s.id = r
                             \/ cli.full /\ \A s \in cli.batch : r > s.id

Testing == {"unreadable", "reencrypt", "probe", "record"}

\* What a test has of its row: once it has claimed it, the claim is the last
\* one and the row is at least as recently tested; no test outlives CallTime.
TestHolds(x, R, C, n) ==
    /\ x.pc \in {"claim"} \cup Testing => x.op = "test"
    /\ x.op = "test" => x.at <= n /\ n <= x.at + CallTime
    /\ x.pc \in Testing /\ Lives(R, x.row) =>
         C[x.row] = x.at /\ x.at <= R[x.row].tested

TestInv ==
    /\ \A h \in Slot : TestHolds(hs[h], rows, claimed, now)
    /\ \A r \in Id : /\ claimed[r] <= now
                     /\ rows[r].st = "live" => claimed[r] <= rows[r].tested

-----------------------------------------------------------------------------
(* Handlers.                                                               *)

\* An idle slot is a handler, and keeps nothing of any row.
LEMMA IdleHolds ==
  ASSUME NEW R
  PROVE  Idle \in Handler /\ HandlerHolds(Idle, R)
  BY DEF Idle, Handler, PC, Type, HandlerHolds

\* Setting the program counter, as an update of the whole handler.
LEMMA GotoIs ==
  ASSUME TypeOK, NEW h \in Slot, NEW pc \in PC, Goto(h, pc)
  PROVE  /\ hs' = [hs EXCEPT ![h] = [hs[h] EXCEPT !.pc = pc]]
         /\ [hs[h] EXCEPT !.pc = pc] \in Handler
  BY DEF TypeOK, Goto, Handler

\* What a handler has of its row survives every step of the others.
LEMMA HandlerKept ==
  ASSUME NEW x \in Handler, NEW R, NEW S, HandlerHolds(x, R), RowsMove(R, S)
  PROVE  HandlerHolds(x, S)
  <1>1. x.row # 0 => x.row \in Id /\ Moves(R[x.row], S[x.row])
    BY DEF Handler, RowsMove
  <1>2. x.row # 0 => S[x.row].st # "none"
    BY <1>1 DEF HandlerHolds, Moves
  <1>3. Lives(S, x.row) =>
          /\ Lives(R, x.row) /\ S[x.row].type = R[x.row].type
          /\ S[x.row].user = R[x.row].user
          /\ S[x.row].key \in Previous => /\ R[x.row].key \in Previous
                                          /\ S[x.row].cred = R[x.row].cred
    <2> SUFFICES ASSUME Lives(S, x.row)
                 PROVE  /\ Lives(R, x.row) /\ S[x.row].type = R[x.row].type
                        /\ S[x.row].user = R[x.row].user
                        /\ S[x.row].key \in Previous =>
                             /\ R[x.row].key \in Previous
                             /\ S[x.row].cred = R[x.row].cred
      OBVIOUS
    <2>1. x.row # 0
      BY DEF Lives, Id
    <2>2. R[x.row].st # "none"
      BY <2>1 DEF HandlerHolds
    <2> QED
      BY <1>1, <2>1, <2>2 DEF Lives, Moves
  <1> QED
    BY <1>2, <1>3 DEF HandlerHolds

\* One slot goes on as v, while the store moves.
LEMMA HandlersMove ==
  ASSUME StoreInv, NEW h \in Slot, NEW v \in Handler,
         hs' = [hs EXCEPT ![h] = v], HandlerHolds(v, rows'),
         RowsMove(rows, rows')
  PROVE  /\ hs' \in [Slot -> Handler]
         /\ \A g \in Slot : HandlerHolds(hs'[g], rows')
  <1>1. \A g \in Slot : hs[g] \in Handler /\ HandlerHolds(hs[g], rows)
    BY DEF StoreInv, TypeOK
  <1>2. \A g \in Slot : HandlerHolds(hs[g], rows')
    BY <1>1, HandlerKept
  <1>3. \A g \in Slot : hs'[g] = IF g = h THEN v ELSE hs[g]
    BY DEF StoreInv, TypeOK
  <1>4. hs' \in [Slot -> Handler]
    BY DEF StoreInv, TypeOK
  <1> QED
    BY <1>2, <1>3, <1>4

\* What the command has read survives too.
LEMMA SnapshotsKept ==
  ASSUME StoreInv, RowsMove(rows, rows')
  PROVE  \A s \in cli.batch : SnapshotHolds(s, rows')
  <1> SUFFICES ASSUME NEW s \in cli.batch
               PROVE  SnapshotHolds(s, rows')
    OBVIOUS
  <1>1. s.id \in Id /\ SnapshotHolds(s, rows)
    BY DEF StoreInv, TypeOK, Command
  <1>2. Moves(rows[s.id], rows'[s.id])
    BY <1>1 DEF RowsMove
  <1> QED
    BY <1>1, <1>2 DEF SnapshotHolds, Moves, Lives

-----------------------------------------------------------------------------
(* The statements of the store.                                            *)

\* The rows after a statement, typed, in order and holding what they should.
RowsKept ==
    /\ rows' \in [Id -> Integration]
    /\ Prefix(rows')
    /\ \A r \in Id : RowHolds(rows'[r])
    /\ RowsMove(rows, rows')

\* A statement that writes nothing.
LEMMA SameRows ==
  ASSUME StoreInv, rows' = rows
  PROVE  RowsKept
  BY DEF StoreInv, TypeOK, RowsKept, RowsMove, Moves, Integration

\* A write of one live row.
LEMMA WriteRow ==
  ASSUME StoreInv, NEW r \in Live, NEW v \in Integration,
         Moves(rows[r], v), RowHolds(v), rows' = [rows EXCEPT ![r] = v]
  PROVE  RowsKept
  <1>0. r \in Id /\ rows[r].st = "live" /\ rows \in [Id -> Integration]
    BY DEF Live, StoreInv, TypeOK
  <1>1. \A q \in Id : rows'[q] = IF q = r THEN v ELSE rows[q]
    BY <1>0
  <1>2. rows' \in [Id -> Integration]
    BY <1>0
  <1>3. RowsMove(rows, rows')
    <2>1. \A q \in Id : Moves(rows[q], rows[q])
      BY <1>0 DEF Moves, Integration
    <2> QED
      BY <1>1, <2>1 DEF RowsMove
  <1>4. \A q \in Id : rows'[q].st # "none" <=> rows[q].st # "none"
    BY <1>0, <1>1 DEF Moves
  <1>5. Prefix(rows')
    BY <1>4 DEF StoreInv, Prefix
  <1>6. \A q \in Id : RowHolds(rows'[q])
    BY <1>1 DEF StoreInv
  <1> QED
    BY <1>2, <1>3, <1>5, <1>6 DEF RowsKept

\* updateOwned, and deleteOwned.
LEMMA UpdateKept ==
  ASSUME StoreInv, NEW r, NEW v, UpdateOwned(r, v),
         r \in Live => v \in Integration /\ Moves(rows[r], v) /\ RowHolds(v)
  PROVE  RowsKept
  BY SameRows, WriteRow DEF UpdateOwned

\* The rewrite of a secret that the row still has under the key it was read
\* under changes its key only.
LEMMA RewriteKept ==
  ASSUME StoreInv, NEW r, NEW c, NEW k \in Previous, RewriteSecret(r, c, k),
         r \in Live /\ rows[r].key \in Previous => rows[r].cred = c
  PROVE  RowsKept
  <1>1. CASE ~(r \in Live /\ rows[r].key = k)
    BY <1>1, SameRows DEF RewriteSecret
  <1>2. CASE r \in Live /\ rows[r].key = k
    <2> DEFINE v == [rows[r] EXCEPT !.cred = c, !.key = Current, !.intact = TRUE]
    <2>1. /\ r \in Id /\ rows[r] \in Integration /\ rows[r].cred = c
          /\ RowHolds(rows[r]) /\ Current \in Key /\ Current \notin Previous
      BY <1>2, IntegrationAssumption DEF Live, StoreInv, TypeOK
    <2>2. rows' = [rows EXCEPT ![r] = v]
      BY <1>2, <2>1 DEF RewriteSecret, StoreInv, TypeOK
    <2>3. v \in Integration /\ Moves(rows[r], v) /\ RowHolds(v)
      BY <2>1, ZenonT(60) DEF Integration, Moves, RowHolds
    <2> QED
      BY <1>2, <2>2, <2>3, WriteRow
  <1> QED
    BY <1>1, <1>2

\* The columns of a fresh validation on the row of an update.
LEMMA SealedKept ==
  ASSUME StoreInv, NEW r, NEW c, UpdateOwned(r, Sealed(rows[r], c)),
         r \in Live => CredFits(rows[r].type, c)
  PROVE  RowsKept
  <1> SUFFICES ASSUME r \in Live
               PROVE  /\ Sealed(rows[r], c) \in Integration
                      /\ Moves(rows[r], Sealed(rows[r], c))
                      /\ RowHolds(Sealed(rows[r], c))
    BY UpdateKept
  <1>1. /\ r \in Id /\ rows[r] \in Integration /\ RowHolds(rows[r])
        /\ now \in Nat /\ rows[r].st = "live"
        /\ Current \in Key /\ Current \notin Previous
    BY IntegrationAssumption DEF Live, StoreInv, TypeOK
  <1>2. c \in Secret
    BY DEF CredFits, Secret
  <1> QED
    BY <1>1, <1>2 DEF Sealed, Integration, Moves, RowHolds

\* The next id is one that no row has had.
LEMMA NextIdFree ==
  ASSUME StoreInv, NextId <= MaxId
  PROVE  /\ NextId \in Id /\ rows[NextId].st = "none"
         /\ \A r \in Id : rows[r].st # "none" <=> r < NextId
  <1>1. PICK n \in 0..MaxId : \A r \in Id : rows[r].st # "none" <=> r <= n
    BY DEF StoreInv, Prefix
  <1>2. MaxId \in Nat
    BY IntegrationAssumption
  <1>3. {r \in Id : rows[r].st # "none"} = 1..n
    BY <1>1, <1>2 DEF Id
  <1>4. Cardinality(1..n) = n
    BY <1>2, FS_Interval
  <1>a. NextId = 1 + Cardinality(1..n)
    BY <1>3, Zenon DEF NextId
  <1>5. NextId = n + 1
    BY <1>4, <1>a
  <1> QED
    BY <1>1, <1>2, <1>5 DEF Id

\* An insert.
LEMMA InsertKept ==
  ASSUME StoreInv, NextId <= MaxId, NEW x \in Handler,
         x.user \in User, CredFits(x.type, x.cred),
         rows' = [rows EXCEPT ![NextId] = Inserted(x)]
  PROVE  RowsKept
  <1> DEFINE v == Inserted(x)
  <1>0. /\ NextId \in Id /\ rows[NextId].st = "none" /\ now \in Nat
        /\ rows \in [Id -> Integration] /\ Current \in Key /\ MaxId \in Nat
    BY NextIdFree, IntegrationAssumption DEF StoreInv, TypeOK
  <1>1. /\ v \in Integration /\ v.st = "live" /\ v.key = Current
        /\ v.user = x.user /\ v.type = x.type /\ v.cred = x.cred
    BY <1>0, ZenonT(60)
       DEF Inserted, Sealed, NoIntegration, Integration, Handler, Type
  <1> HIDE DEF v
  <1>2. \A q \in Id : rows'[q] = IF q = NextId THEN v ELSE rows[q]
    BY <1>0 DEF v
  <1>3. rows' \in [Id -> Integration]
    BY <1>0, <1>1, <1>2 DEF v
  <1>4. RowsMove(rows, rows')
    <2>1. \A q \in Id : Moves(rows[q], rows[q])
      BY <1>0 DEF Moves, Integration
    <2>2. Moves(rows[NextId], v)
      BY <1>0, <1>1 DEF Moves
    <2> QED
      BY <1>2, <2>1, <2>2 DEF RowsMove
  <1>5. \A q \in Id : RowHolds(rows'[q])
    BY <1>1, <1>2 DEF StoreInv, RowHolds
  <1>6. Prefix(rows')
    <2>1. \A q \in Id : rows'[q].st # "none" <=> q < NextId + 1
      BY <1>0, <1>1, <1>2, NextIdFree DEF Id
    <2>2. NextId \in 0..MaxId /\ NextId \in Nat
      BY <1>0 DEF Id
    <2>3. \A q \in Id : rows'[q].st # "none" <=> q <= NextId
      BY <2>1, <2>2 DEF Id
    <2> QED
      BY <2>2, <2>3 DEF Prefix
  <1> QED
    BY <1>3, <1>4, <1>5, <1>6 DEF RowsKept

\* A step that keeps the invariant of the store.
StoreKept == StoreInv' /\ RowsKept

\* A step of a handler, put together.
LEMMA HandlerStep ==
  ASSUME StoreInv, RowsKept, NEW h \in Slot, NEW v \in Handler,
         hs' = [hs EXCEPT ![h] = v], HandlerHolds(v, rows'),
         issued' \subseteq Cred, dropped' \subseteq Cred, claimed' \in [Id -> Nat],
         UNCHANGED <<cli, now>>
  PROVE  StoreKept
  <1>1. /\ hs' \in [Slot -> Handler]
        /\ \A g \in Slot : HandlerHolds(hs'[g], rows')
    BY HandlersMove DEF RowsKept
  <1>2. \A s \in cli'.batch : SnapshotHolds(s, rows')
    BY SnapshotsKept DEF RowsKept
  <1>3. TypeOK'
    BY <1>1 DEF StoreInv, TypeOK, RowsKept
  <1>4. Prefix(rows)'
    BY DEF RowsKept, Prefix
  <1>5. \A r \in Id : RowHolds(rows[r])'
    BY DEF RowsKept, RowHolds
  <1>6. \A g \in Slot : HandlerHolds(hs[g], rows)'
    BY <1>1 DEF HandlerHolds, Lives
  <1>7. \A s \in cli'.batch : SnapshotHolds(s, rows')
    BY <1>2
  <1> QED
    BY <1>3, <1>4, <1>5, <1>6, <1>7
       DEF StoreInv, SnapshotHolds, Lives, StoreKept

\* A step that writes no row.
LEMMA QuietStep ==
  ASSUME StoreInv, NEW h \in Slot, NEW v \in Handler,
         hs' = [hs EXCEPT ![h] = v], HandlerHolds(v, rows),
         issued' \subseteq Cred, dropped' \subseteq Cred,
         UNCHANGED <<rows, cli, claimed, now>>
  PROVE  StoreKept
  <1>1. RowsKept
    BY SameRows
  <1>2. HandlerHolds(v, rows')
    BY DEF HandlerHolds, Lives
  <1>3. claimed' \in [Id -> Nat]
    BY DEF StoreInv, TypeOK
  <1> QED
    BY <1>1, <1>2, <1>3, HandlerStep

\* A step that ends its handler.
LEMMA LastStep ==
  ASSUME StoreInv, RowsKept, NEW h \in Slot, Finish(h),
         UNCHANGED <<issued, dropped, cli, claimed, now>>
  PROVE  StoreKept
  <1>1. /\ issued' \subseteq Cred /\ dropped' \subseteq Cred
        /\ claimed' \in [Id -> Nat] /\ hs' = [hs EXCEPT ![h] = Idle]
    BY DEF StoreInv, TypeOK, Finish
  <1> QED
    BY <1>1, IdleHolds, HandlerStep

\* An owned row is a live one of that user.
LEMMA OwnedRow ==
  ASSUME StoreInv, NEW u, NEW r \in Owned(u)
  PROVE  /\ r \in Id /\ r # 0 /\ Lives(rows, r) /\ rows[r] \in Integration
         /\ RowHolds(rows[r]) /\ rows[r].st = "live" /\ rows[r].user = u
  BY DEF Owned, Live, Lives, StoreInv, TypeOK, Id

-----------------------------------------------------------------------------
(* Every action keeps the invariant of the store.                          *)

\* The requests.
LEMMA RequestStore ==
  ASSUME StoreInv, NEW h \in Slot, Request(h)
  PROVE  StoreKept
  <1>0. /\ issued \subseteq Cred /\ dropped \subseteq Cred /\ now \in Nat
    BY DEF StoreInv, TypeOK
  <1>1. ASSUME NEW u \in User, NEW l \in Label, Create(h, u, l)
        PROVE  StoreKept
    <2> DEFINE v == [Begin(h, "create", u) EXCEPT !.pc = "count", !.label = l]
    <2>1. v \in Handler /\ HandlerHolds(v, rows)
      BY DEF Begin, Idle, Handler, PC, Type, PasteOps, HandlerHolds
    <2> QED
      BY <1>0, <1>1, <2>1, QuietStep DEF Create
  <1>2. ASSUME NEW u \in User, NEW r \in Id, NEW l \in Label, Rename(h, u, r, l)
        PROVE  StoreKept
    <2> DEFINE v == [Begin(h, "rename", u) EXCEPT !.pc = "label", !.row = r,
                                                  !.label = l]
    <2>1. rows[r].st = "live"
      BY <1>2, OwnedRow DEF Rename
    <2>2. v \in Handler /\ HandlerHolds(v, rows)
      BY <2>1 DEF Begin, Idle, Handler, PC, Type, PasteOps, HandlerHolds
    <2> QED
      BY <1>0, <1>2, <2>2, QuietStep DEF Rename
  <1>3. ASSUME NEW u \in User, NEW r \in Id, Replace(h, u, r)
        PROVE  StoreKept
    <2> DEFINE v == [Begin(h, "replace", u) EXCEPT !.pc = "github", !.row = r]
    <2>1. rows[r].st = "live" /\ rows[r].type = "pat" /\ rows[r].user = u
      BY <1>3, OwnedRow DEF Replace
    <2>2. v \in Handler /\ HandlerHolds(v, rows)
      BY <2>1 DEF Begin, Idle, Handler, PC, Type, PasteOps, HandlerHolds
    <2> QED
      BY <1>0, <1>3, <2>2, QuietStep DEF Replace
  <1>4. ASSUME NEW u \in User, NEW r \in Id, Test(h, u, r)
        PROVE  StoreKept
    <2> DEFINE v == [Begin(h, "test", u) EXCEPT
                       !.pc = "claim", !.row = r, !.at = now,
                       !.cred = rows[r].cred, !.key = rows[r].key,
                       !.intact = rows[r].intact]
    <2>1. rows[r].st = "live" /\ rows[r] \in Integration
      BY <1>4, OwnedRow DEF Test
    <2>2. v \in Handler
      BY <1>0, <2>1, ZenonT(60)
         DEF Begin, Idle, Handler, PC, Type, PasteOps, Integration
    <2>3. HandlerHolds(v, rows)
      BY <2>1 DEF Begin, Idle, HandlerHolds
    <2> QED
      BY <1>0, <1>4, <2>2, <2>3, QuietStep DEF Test
  <1>5. ASSUME NEW u \in User, NEW r \in Id, Delete(h, u, r)
        PROVE  StoreKept
    <2> DEFINE v == [Begin(h, "delete", u) EXCEPT
                       !.pc = "cleanup", !.row = r, !.type = rows[r].type,
                       !.cred = rows[r].cred, !.key = rows[r].key,
                       !.intact = rows[r].intact]
    <2>1. /\ rows[r].st = "live" /\ rows[r] \in Integration
          /\ CredFits(rows[r].type, rows[r].cred)
      BY <1>5, OwnedRow DEF Delete, RowHolds
    <2>2. v \in Handler
      BY <2>1, ZenonT(60) DEF Begin, Idle, Handler, PC, PasteOps, Integration
    <2>3. HandlerHolds(v, rows)
      BY <2>1 DEF Begin, Idle, HandlerHolds
    <2> QED
      BY <1>0, <1>5, <2>2, <2>3, QuietStep DEF Delete
  <1> QED
    BY <1>1, <1>2, <1>3, <1>4, <1>5 DEF Request

\* The two ways in which InsertWithinCap ends.
LEMMA InsertCases ==
  ASSUME StoreInv, NEW h \in Slot, NEW refused, InsertWithinCap(h, refused)
  PROVE  \/ hs' = [hs EXCEPT ![h] = refused] /\ rows' = rows
         \/ RowsKept /\ Finish(h)
  <1>1. hs[h] \in Handler /\ HandlerHolds(hs[h], rows) /\ hs[h].pc = "insert"
    BY DEF StoreInv, TypeOK, InsertWithinCap, At
  <1>2. hs[h].user \in User /\ CredFits(hs[h].type, hs[h].cred)
    BY <1>1 DEF HandlerHolds
  <1>3. rows' = [rows EXCEPT ![NextId] = Inserted(hs[h])] => RowsKept
    BY <1>1, <1>2, InsertKept DEF InsertWithinCap
  <1> QED
    BY <1>3 DEF InsertWithinCap

\* The statements on the way to a create, a rename or a replacement.
LEMMA PasteStore ==
  ASSUME StoreInv, NEW h \in Slot,
         \/ CountOwned(h) \/ AssertLabelFree(h) \/ WriteLabel(h)
         \/ ValidateRefused(h) \/ \E c \in Cred : ValidateAccepted(h, c)
         \/ Insert(h) \/ WriteCredential(h)
  PROVE  StoreKept
  <1>0. /\ hs[h] \in Handler /\ HandlerHolds(hs[h], rows)
        /\ issued \subseteq Cred /\ dropped \subseteq Cred /\ TypeOK
        /\ RowsKept \/ rows' # rows
    BY SameRows DEF StoreInv, TypeOK
  <1>a. ASSUME NEW pc \in PC, Goto(h, pc),
               HandlerHolds([hs[h] EXCEPT !.pc = pc], rows),
               UNCHANGED <<rows, issued, dropped, cli, claimed, now>>
        PROVE  StoreKept
    BY <1>0, <1>a, GotoIs, QuietStep
  <1>1. CASE CountOwned(h)
    <2>1. hs[h].pc = "count"
      BY <1>1 DEF CountOwned, At
    <2>2. HandlerHolds([hs[h] EXCEPT !.pc = "label"], rows)
      BY <1>0, <2>1 DEF HandlerHolds, Handler
    <2> QED
      BY <1>0, <1>1, <1>a, <2>2, LastStep DEF CountOwned, PC
  <1>2. CASE AssertLabelFree(h)
    <2>1. hs[h].pc = "label"
      BY <1>2 DEF AssertLabelFree, At
    <2>2. /\ AfterLabel(hs[h].op) \in {"rename", "purge", "github"}
          /\ AfterLabel(hs[h].op) = "github" => hs[h].op # "rename"
      BY DEF AfterLabel
    <2>3. HandlerHolds([hs[h] EXCEPT !.pc = AfterLabel(hs[h].op)], rows)
      BY <1>0, <2>1, <2>2 DEF HandlerHolds, Handler, Lives, Id
    <2> QED
      BY <1>0, <1>2, <1>a, <2>2, <2>3, LastStep DEF AssertLabelFree, PC
  <1>3. CASE WriteLabel(h)
    <2> DEFINE r == hs[h].row
               v == [rows[r] EXCEPT !.label = hs[h].label]
    <2>1. r \in Live => v \in Integration /\ Moves(rows[r], v) /\ RowHolds(v)
      BY <1>0, SMTT(40)
         DEF StoreInv, TypeOK, Live, Integration, Handler, Moves, RowHolds
    <2>2. UpdateOwned(r, v) => RowsKept
      BY <2>1, UpdateKept
    <2> QED
      BY <1>0, <1>3, <2>2, LastStep DEF WriteLabel
  <1>4. CASE ValidateRefused(h)
    BY <1>0, <1>4, LastStep DEF ValidateRefused
  <1>5. ASSUME NEW c \in Cred, ValidateAccepted(h, c)
        PROVE  StoreKept
    <2> DEFINE pc == IF hs[h].row = 0 THEN "insert" ELSE "update"
               v == [hs[h] EXCEPT !.cred = c, !.pc = pc]
    <2>0. pc \in {"insert", "update"} /\ pc \in PC /\ c \in Secret
      BY DEF PC, Secret
    <2>1. hs[h].pc = "github" /\ hs[h].type = "pat"
      BY <1>0, <1>5 DEF ValidateAccepted, At, HandlerHolds
    <2>2. hs' = [hs EXCEPT ![h] = v]
      BY <1>0, <1>5 DEF ValidateAccepted, TypeOK
    <2>3. v \in Handler /\ HandlerHolds(v, rows)
      <3> HIDE DEF pc
      <3>1. v \in Handler
        BY <1>0, <2>0 DEF Handler
      <3>2. /\ v.op = hs[h].op /\ v.user = hs[h].user /\ v.type = hs[h].type
            /\ v.row = hs[h].row /\ v.cred = c /\ v.pc = pc
            /\ v.old = hs[h].old
        BY <1>0 DEF Handler
      <3> HIDE DEF v
      <3> QED
        BY <1>0, <2>0, <2>1, <3>1, <3>2 DEF HandlerHolds, CredFits
    <2> QED
      BY <1>0, <1>5, <2>2, <2>3, QuietStep DEF ValidateAccepted
  <1>6. CASE Insert(h)
    <2>1. \/ hs' = [hs EXCEPT ![h] = Idle] /\ rows' = rows
          \/ RowsKept /\ Finish(h)
      BY <1>6, InsertCases DEF Insert
    <2> QED
      BY <1>0, <1>6, <2>1, LastStep DEF Insert, Finish
  <1>7. CASE WriteCredential(h)
    <2>1. hs[h].pc = "update" /\ CredFits(hs[h].type, hs[h].cred)
      BY <1>0, <1>7 DEF WriteCredential, At, HandlerHolds
    <2>2. hs[h].row \in Live => CredFits(rows[hs[h].row].type, hs[h].cred)
      BY <1>0, <2>1 DEF HandlerHolds, Lives, Live
    <2> QED
      BY <1>7, <2>2, SealedKept, LastStep DEF WriteCredential
  <1> QED
    BY <1>1, <1>2, <1>3, <1>4, <1>5, <1>6, <1>7

\* The connection test and the deletion.
LEMMA TestStore ==
  ASSUME StoreInv, NEW h \in Slot,
         \/ Claim(h) \/ MarkUndecryptable(h) \/ Reencrypt(h)
         \/ \E o \in Outcome : Probe(h, o)
         \/ Record(h) \/ CleanUp(h) \/ DeleteOwned(h)
  PROVE  StoreKept
  <1>0. /\ hs[h] \in Handler /\ HandlerHolds(hs[h], rows)
        /\ issued \subseteq Cred /\ dropped \subseteq Cred /\ TypeOK
        /\ RowsKept \/ rows' # rows
        /\ claimed \in [Id -> Nat] /\ hs[h].at \in Nat
    BY SameRows DEF StoreInv, TypeOK, Handler
  <1>1. CASE Claim(h)
    <2> DEFINE x == hs[h]
               r == x.row
               pc == AfterClaim(x)
               v == [rows[r] EXCEPT !.tested = x.at]
               y == [x EXCEPT !.pc = pc]
    <2>0. /\ pc \in {"unreadable", "reencrypt", "probe"} /\ pc \in PC
          /\ pc = "reencrypt" => x.key \in Previous
          /\ x.pc = "claim"
      BY <1>1 DEF AfterClaim, PC, Claim, At
    <2>1. CASE r \in Live /\ rows[r].tested + Cooldown < x.at
      <3>1. r \in Id /\ rows[r] \in Integration /\ RowHolds(rows[r])
        BY <2>1 DEF StoreInv, TypeOK, Live
      <3>2. /\ rows' = [rows EXCEPT ![r] = v]
            /\ claimed' = [claimed EXCEPT ![r] = x.at] /\ Goto(h, pc)
        BY <1>0, <1>1, <2>1, <3>1 DEF Claim, TypeOK
      <3>3. v \in Integration /\ Moves(rows[r], v) /\ RowHolds(v)
        BY <1>0, <2>1, <3>1 DEF Integration, Moves, RowHolds, Live
      <3> HIDE DEF v
      <3>4. RowsKept
        BY <2>1, <3>2, <3>3, WriteRow
      <3>5. HandlerHolds(y, rows)
        <4> HIDE DEF pc
        <4> QED
          BY <1>0, <2>0 DEF HandlerHolds, Handler
      <3> HIDE DEF pc
      <3>6. hs' = [hs EXCEPT ![h] = y] /\ y \in Handler
        BY <1>0, <2>0, <3>2, GotoIs
      <3>7. HandlerHolds(y, rows')
        BY <3>4, <3>5, <3>6, HandlerKept DEF RowsKept
      <3>8. claimed' \in [Id -> Nat]
        BY <1>0, <3>1, <3>2
      <3> HIDE DEF y
      <3>9. /\ issued' \subseteq Cred /\ dropped' \subseteq Cred
            /\ UNCHANGED <<cli, now>>
        BY <1>0, <1>1 DEF Claim
      <3> QED
        BY <3>4, <3>6, <3>7, <3>8, <3>9, HandlerStep
    <2>2. CASE ~(r \in Live /\ rows[r].tested + Cooldown < x.at)
      BY <1>0, <1>1, <2>2, LastStep DEF Claim
    <2> QED
      BY <2>1, <2>2
  <1>2. CASE MarkUndecryptable(h)
    <2> DEFINE r == hs[h].row
               v == [rows[r] EXCEPT !.status = "undecryptable", !.tested = hs[h].at]
    <2>1. ASSUME r \in Live
          PROVE  v \in Integration /\ Moves(rows[r], v) /\ RowHolds(v)
      <3>1. rows[r] \in Integration /\ rows[r].st = "live" /\ RowHolds(rows[r])
        BY <2>1 DEF StoreInv, TypeOK, Live
      <3> QED
        BY <1>0, <3>1 DEF Integration, Moves, RowHolds
    <2>2. RowsKept
      BY <1>2, <2>1, UpdateKept DEF MarkUndecryptable
    <2> QED
      BY <1>2, <2>2, LastStep DEF MarkUndecryptable
  <1>3. CASE Reencrypt(h)
    <2> DEFINE y == [hs[h] EXCEPT !.pc = "probe"]
    <2>0. /\ hs[h].pc = "reencrypt" /\ hs[h].key \in Previous
          /\ Lives(rows, hs[h].row) /\ rows[hs[h].row].key \in Previous =>
               rows[hs[h].row].cred = hs[h].cred
      BY <1>0, <1>3 DEF Reencrypt, At, HandlerHolds
    <2>1. RowsKept
      BY <1>3, <2>0, RewriteKept DEF Reencrypt, Live, Lives
    <2>2. HandlerHolds(y, rows)
      BY <1>0, <2>0 DEF HandlerHolds, Handler
    <2>3. hs' = [hs EXCEPT ![h] = y] /\ y \in Handler
      BY <1>0, <1>3, GotoIs DEF Reencrypt, PC
    <2> HIDE DEF y
    <2>4. HandlerHolds(y, rows')
      BY <2>1, <2>2, <2>3, HandlerKept DEF RowsKept
    <2>5. /\ issued' \subseteq Cred /\ dropped' \subseteq Cred
          /\ claimed' \in [Id -> Nat] /\ UNCHANGED <<cli, now>>
      BY <1>0, <1>3 DEF Reencrypt
    <2> QED
      BY <2>1, <2>3, <2>4, <2>5, HandlerStep
  <1>4. ASSUME NEW o \in Outcome, Probe(h, o)
        PROVE  StoreKept
    <2> DEFINE v == [hs[h] EXCEPT !.pc = "record", !.outcome = o]
    <2>1. hs' = [hs EXCEPT ![h] = v] /\ hs[h].pc = "probe"
      BY <1>0, <1>4 DEF Probe, At, TypeOK
    <2>a. "record" \in PC /\ o \in Outcome \cup {"none"}
      BY DEF PC
    <2>2. v \in Handler
      BY <1>0, <2>a, ZenonT(60) DEF Handler
    <2>3. HandlerHolds(v, rows)
      BY <1>0, <2>1 DEF Handler, HandlerHolds
    <2> QED
      BY <1>0, <1>4, <2>1, <2>2, <2>3, QuietStep DEF Probe
  <1>5. CASE Record(h)
    <2> DEFINE r == hs[h].row
               status == IF hs[h].outcome = "transient"
                           THEN rows[r].status ELSE hs[h].outcome
               v == [rows[r] EXCEPT !.tested = hs[h].at, !.status = status]
    <2>0. hs[h].outcome \in Outcome
      BY <1>0, <1>5 DEF Record, At, HandlerHolds
    <2>1. ASSUME r \in Live
          PROVE  v \in Integration /\ Moves(rows[r], v) /\ RowHolds(v)
      <3>1. rows[r] \in Integration /\ rows[r].st = "live" /\ RowHolds(rows[r])
        BY <2>1 DEF StoreInv, TypeOK, Live
      <3>2. status \in {"active", "invalid", "expired", "undecryptable"}
        BY <2>0, <3>1 DEF Outcome, Integration
      <3> HIDE DEF status
      <3> QED
        BY <1>0, <3>1, <3>2 DEF Integration, Moves, RowHolds
    <2>2. RowsKept
      BY <1>5, <2>1, UpdateKept DEF Record
    <2> QED
      BY <1>5, <2>2, LastStep DEF Record
  <1>6. CASE CleanUp(h)
    <2> DEFINE v == [hs[h] EXCEPT !.pc = "delete"]
    <2>1. hs[h].pc = "cleanup" /\ CredFits(hs[h].type, hs[h].cred)
      BY <1>0, <1>6 DEF CleanUp, At, HandlerHolds
    <2>2. dropped' \subseteq Cred
      BY <1>0, <1>6, <2>1 DEF CleanUp, CredFits
    <2>3. hs' = [hs EXCEPT ![h] = v] /\ v \in Handler
      BY <1>0, <1>6, GotoIs DEF CleanUp, PC
    <2>4. HandlerHolds(v, rows)
      BY <1>0, <2>1 DEF Handler, HandlerHolds
    <2> QED
      BY <1>0, <1>6, <2>2, <2>3, <2>4, QuietStep DEF CleanUp
  <1>7. CASE DeleteOwned(h)
    <2> DEFINE v == [NoIntegration EXCEPT !.st = "gone"]
    <2>1. hs[h].row \in Live =>
            v \in Integration /\ Moves(rows[hs[h].row], v) /\ RowHolds(v)
      BY DEF NoIntegration, Integration, Type, Moves, RowHolds, Live
    <2>2. RowsKept
      BY <1>7, <2>1, UpdateKept DEF DeleteOwned
    <2> QED
      BY <1>7, <2>2, LastStep DEF DeleteOwned
  <1> QED
    BY <1>1, <1>2, <1>3, <1>4, <1>5, <1>6, <1>7

-----------------------------------------------------------------------------
(* The rotation command, and every step.                                   *)

\* A nonempty set of ids has a least one.
LEMMA LeastId ==
  ASSUME NEW S \in SUBSET Nat, S # {}
  PROVE  \E m \in S : \A q \in S : m <= q
  <1> DEFINE R == OpToRel(<, Nat)
  <1>1. IsWellFoundedOn(R, Nat)
    BY NatLessThanWellFounded, Zenon
  <1>2. \A x, y \in Nat : x < y => <<x, y>> \in R
    BY DEF OpToRel
  <1> HIDE DEF R
  <1>3. PICK m \in S : \A q \in S : ~(<<q, m>> \in R)
    BY <1>1, WFMin, Zenon
  <1>4. ASSUME NEW q \in S PROVE m <= q
    <2>1. m \in Nat /\ q \in Nat
      OBVIOUS
    <2>2. ~(q < m)
      BY <1>2, <1>3, <2>1, Zenon
    <2> QED
      BY <2>1, <2>2
  <1> QED
    BY <1>3, <1>4

\* The row of the batch that comes first.
FirstOf(B) == CHOOSE t \in B : \A q \in B : t.id <= q.id

\* A batch that is not empty has a first row.
LEMMA FirstRow ==
  ASSUME TypeOK, cli.batch # {}
  PROVE  /\ FirstOf(cli.batch) \in cli.batch
         /\ \A q \in cli.batch : FirstOf(cli.batch).id <= q.id
  <1> DEFINE B == cli.batch
             S == {t.id : t \in B}
  <1>1. \A t \in B : t.id \in Id /\ t.id \in Nat
    BY DEF TypeOK, Command, Id
  <1>2. S \in SUBSET Nat /\ S # {}
    BY <1>1
  <1>3. PICK m \in S : \A q \in S : m <= q
    BY <1>2, LeastId
  <1>4. PICK t \in B : t.id = m
    BY <1>3
  <1>5. \A q \in B : q.id \in S
    OBVIOUS
  <1>6. \E t1 \in B : \A q \in B : t1.id <= q.id
    BY <1>3, <1>4, <1>5
  <1> QED
    BY <1>6 DEF FirstOf

\* The rows that a batch takes, with the secrets that they have.
LEMMA BatchHolds ==
  ASSUME StoreInv, NEW r \in Batch
  PROVE  /\ Snapshot(r) \in [id: Id, cred: Secret, key: Key, intact: BOOLEAN]
         /\ SnapshotHolds(Snapshot(r), rows)
  <1>1. /\ r \in Id /\ rows[r] \in Integration /\ rows[r].st = "live"
        /\ rows[r].key \in Previous /\ RowHolds(rows[r])
    BY DEF Batch, Stale, Live, StoreInv, TypeOK
  <1>2. rows[r].cred \in Secret /\ rows[r].key \in Key
    BY <1>1, IntegrationAssumption DEF RowHolds, CredFits, Secret
  <1> QED
    BY <1>1, <1>2 DEF Snapshot, SnapshotHolds, Integration

\* A step of the command keeps the invariant of the store.
LEMMA RotateStore ==
  ASSUME StoreInv, Rotate, RotateInv
  PROVE  StoreKept
  <1>0. cli \in Command /\ TypeOK
    BY DEF StoreInv, TypeOK
  <1>a. ASSUME RowsKept, cli' \in Command,
               \A s \in cli'.batch : SnapshotHolds(s, rows),
               UNCHANGED <<issued, dropped, hs, claimed, now>>
        PROVE  StoreKept
    <2>1. \A h \in Slot : HandlerHolds(hs[h], rows')
      BY <1>a, HandlerKept DEF StoreInv, TypeOK, RowsKept
    <2>2. \A s \in cli'.batch : SnapshotHolds(s, rows')
      <3> SUFFICES ASSUME NEW s \in cli'.batch PROVE SnapshotHolds(s, rows')
        OBVIOUS
      <3>1. s.id \in Id /\ SnapshotHolds(s, rows)
        BY <1>a DEF Command
      <3>2. Moves(rows[s.id], rows'[s.id])
        BY <1>a, <3>1 DEF RowsMove, RowsKept
      <3> QED
        BY <3>1, <3>2 DEF SnapshotHolds, Moves, Lives
    <2>3. TypeOK'
      BY <1>a DEF StoreInv, TypeOK, RowsKept
    <2>4. Prefix(rows)' /\ \A r \in Id : RowHolds(rows[r])'
      BY <1>a DEF RowsKept, Prefix, RowHolds
    <2>5. \A h \in Slot : HandlerHolds(hs[h], rows)'
      BY <1>a, <2>1 DEF HandlerHolds, Lives
    <2> QED
      BY <1>a, <2>2, <2>3, <2>4, <2>5
         DEF StoreInv, SnapshotHolds, Lives, StoreKept
  <1>b. Done \in Command /\ Done.batch = {}
    BY DEF Done, NoCommand, Command
  <1>1. CASE RotateStart
    <2>1. cli' \in Command /\ cli'.batch = {}
      BY <1>1 DEF RotateStart, NoCommand, Command
    <2> QED
      BY <1>1, <1>a, <2>1, SameRows DEF RotateStart
  <1>2. CASE RotateRead
    <2> DEFINE B == {Snapshot(r) : r \in Batch}
               full == Cardinality(Batch) = BatchSize
    <2>1. B \in SUBSET [id: Id, cred: Secret, key: Key, intact: BOOLEAN]
          /\ \A s \in B : SnapshotHolds(s, rows)
      BY BatchHolds
    <2>2. full \in BOOLEAN
      OBVIOUS
    <2> HIDE DEF B, full
    <2>3. [cli EXCEPT !.batch = B, !.full = full, !.pc = "row"] \in Command
      BY <1>0, <2>1, <2>2 DEF Command
    <2>4. [cli EXCEPT !.batch = B, !.full = full, !.pc = "row"].batch = B
      BY <1>0 DEF Command
    <2>5. \/ cli' = Done
          \/ cli' = [cli EXCEPT !.batch = B, !.full = full, !.pc = "row"]
      BY <1>2 DEF RotateRead, B, full
    <2>6. cli' \in Command /\ \A s \in cli'.batch : SnapshotHolds(s, rows)
      BY <1>b, <2>1, <2>3, <2>4, <2>5
    <2> QED
      BY <1>2, <1>a, <2>6, SameRows DEF RotateRead
  <1>3. CASE RotateRow
    <2> DEFINE s == FirstOf(cli.batch)
               rest == cli.batch \ {s}
               pc == IF rest = {} THEN "read" ELSE "row"
               next == [cli EXCEPT !.after = s.id, !.batch = rest, !.pc = pc]
    <2>0. cli.pc = "row" /\ s \in cli.batch
      BY <1>0, <1>3, FirstRow DEF RotateRow, RotateInv
    <2>1. /\ s.id \in Id /\ SnapshotHolds(s, rows)
      BY <1>0, <2>0 DEF Command, StoreInv
    <2>2. /\ IF s.intact THEN RewriteSecret(s.id, s.cred, s.key) ELSE UNCHANGED rows
          /\ cli' = IF rest = {} /\ ~cli.full THEN Done ELSE next
          /\ UNCHANGED <<issued, dropped, hs, claimed, now>>
      BY <1>3 DEF RotateRow, FirstOf
    <2> HIDE DEF s
    <2>3. RowsKept
      <3>1. CASE s.intact
        <4>1. s.key \in Previous /\ (s.id \in Live /\ rows[s.id].key \in Previous =>
                                       rows[s.id].cred = s.cred)
          BY <2>1 DEF SnapshotHolds, Live, Lives
        <4> QED
          BY <2>2, <3>1, <4>1, RewriteKept
      <3> QED
        BY <2>2, <3>1, SameRows
    <2>4. next \in Command /\ next.batch = rest
      <3>1. rest \in SUBSET [id: Id, cred: Secret, key: Key, intact: BOOLEAN]
        BY <1>0 DEF Command
      <3>2. pc \in {"idle", "read", "row", "done"}
        OBVIOUS
      <3> HIDE DEF rest, pc
      <3> QED
        BY <1>0, <2>1, <3>1, <3>2 DEF Command
    <2>5. \A t \in rest : SnapshotHolds(t, rows)
      BY DEF StoreInv
    <2> HIDE DEF next
    <2>6. cli' \in Command /\ \A t \in cli'.batch : SnapshotHolds(t, rows)
      BY <1>b, <2>2, <2>4, <2>5
    <2> QED
      BY <1>a, <2>2, <2>3, <2>6
  <1> QED
    BY <1>1, <1>2, <1>3 DEF Rotate

\* Every step of a handler.
LEMMA StepStore ==
  ASSUME StoreInv, NEW h \in Slot, Request(h) \/ Step(h)
  PROVE  StoreKept
  BY RequestStore, PasteStore, TestStore DEF Step

\* A step that changes none of the variables of the invariant but the clock.
LEMMA IdleStore ==
  ASSUME StoreInv, now' \in Nat, UNCHANGED <<rows, issued, dropped, hs, cli, claimed>>
  PROVE  StoreKept
  <1>1. TypeOK'
    BY DEF StoreInv, TypeOK
  <1>2. StoreInv'
    BY <1>1 DEF StoreInv, Prefix, RowHolds, HandlerHolds, SnapshotHolds, Lives
  <1> QED
    BY <1>2, SameRows DEF StoreKept

\* The initial rows.
LEMMA InitStore == Init => StoreInv
  <1> SUFFICES ASSUME Init PROVE StoreInv
    OBVIOUS
  <1>0. /\ MaxId \in Nat /\ Cooldown \in Nat /\ Existing \in 0..MaxId
        /\ ExistingType \subseteq {"pat", "oauth_app"}
    BY IntegrationAssumption
  <1>1. PICK f \in [1..Existing -> [user: User, type: ExistingType, label: Label,
                                    cred: Cred, key: Key, intact: BOOLEAN]] :
          /\ rows = [r \in Id |->
                       IF r > Existing THEN NoIntegration
                       ELSE [st |-> "live", user |-> f[r].user,
                             type |-> f[r].type, label |-> f[r].label,
                             cred |-> f[r].cred, key |-> f[r].key,
                             intact |-> f[r].intact, status |-> "active",
                             tested |-> 0]]
          /\ issued = {f[r].cred : r \in 1..Existing}
    BY DEF Init
  <1>2. NoIntegration \in Integration
    BY DEF NoIntegration, Integration, Type
  <1>3. ASSUME NEW r \in Id, ~(r > Existing)
        PROVE  /\ rows[r] \in Integration /\ rows[r].st = "live"
               /\ RowHolds(rows[r])
    <2>1. r \in 1..Existing
      BY <1>0, <1>3 DEF Id
    <2>2. /\ f[r].user \in User /\ f[r].type \in {"pat", "oauth_app"}
          /\ f[r].label \in Label /\ f[r].cred \in Cred /\ f[r].key \in Key
          /\ f[r].intact \in BOOLEAN
      BY <1>0, <2>1
    <2>3. rows[r] = [st |-> "live", user |-> f[r].user,
                     type |-> f[r].type, label |-> f[r].label,
                     cred |-> f[r].cred, key |-> f[r].key,
                     intact |-> f[r].intact, status |-> "active",
                     tested |-> 0]
      BY <1>1, <1>3
    <2> QED
      BY <2>2, <2>3 DEF Integration, Type, Secret, RowHolds, CredFits
  <1>4. \A r \in Id : r > Existing => rows[r] = NoIntegration
    BY <1>1
  <1>5. rows \in [Id -> Integration]
    <2>1. \A r \in Id : rows[r] \in Integration
      BY <1>2, <1>3, <1>4
    <2>2. rows = [r \in Id |-> rows[r]]
      BY <1>1
    <2> QED
      BY <2>1, <2>2
  <1>6. Prefix(rows)
    <2>1. \A r \in Id : rows[r].st # "none" <=> r <= Existing
      BY <1>0, <1>3, <1>4 DEF NoIntegration, Id
    <2> QED
      BY <1>0, <2>1 DEF Prefix
  <1>7. \A r \in Id : RowHolds(rows[r])
    BY <1>3, <1>4 DEF RowHolds, NoIntegration
  <1>8. issued \subseteq Cred
    BY <1>1
  <1>9. /\ hs \in [Slot -> Handler]
        /\ \A h \in Slot : HandlerHolds(hs[h], rows)
    BY IdleHolds DEF Init
  <1>10. cli \in Command /\ cli.batch = {}
    BY DEF Init, NoCommand, Command
  <1>11. TypeOK
    BY <1>0, <1>5, <1>8, <1>9, <1>10 DEF Init, TypeOK
  <1> QED
    BY <1>6, <1>7, <1>9, <1>10, <1>11 DEF StoreInv

-----------------------------------------------------------------------------
(* A finished rotation.                                                    *)

\* A set of ids has a greatest one too, and is finite.
LEMMA GreatestId ==
  ASSUME NEW S \in SUBSET Id, S # {}
  PROVE  \E m \in S : \A q \in S : q <= m
  <1>0. MaxId \in Nat /\ \A q \in S : q \in Nat /\ q <= MaxId
    <2>1. MaxId \in Nat
      BY IntegrationAssumption
    <2>2. \A q \in 1..MaxId : q \in Nat /\ q <= MaxId
      BY <2>1
    <2> QED
      BY <2>1, <2>2 DEF Id
  <1> DEFINE T == {MaxId - q : q \in S}
  <1>1. T \in SUBSET Nat /\ T # {}
    BY <1>0
  <1>2. PICK t \in T : \A u \in T : t <= u
    BY <1>1, LeastId
  <1>3. PICK m \in S : t = MaxId - m
    BY <1>2
  <1>4. \A q \in S : t <= MaxId - q
    BY <1>2
  <1> QED
    BY <1>0, <1>3, <1>4

\* The rows under a previous key that a batch can take are finitely many.
LEMMA StaleFinite ==
  ASSUME NEW S \in SUBSET Id
  PROVE  IsFiniteSet(S) /\ Cardinality(S) \in Nat
  <1>1. 1 \in Int /\ MaxId \in Int
    BY IntegrationAssumption
  <1>2. IsFiniteSet(1..MaxId)
    BY <1>1, FS_Interval
  <1>3. IsFiniteSet(Id)
    BY <1>2 DEF Id
  <1> QED
    BY <1>3, FS_Subset, FS_CardinalityType

\* findBySecretKeyIdsForOperator: what a batch leaves is past all it takes,
\* and a batch that is not full leaves nothing.
LEMMA BatchIsFirst ==
  ASSUME TypeOK
  PROVE  /\ \A r \in Stale \ Batch, q \in Batch : r > q
         /\ Cardinality(Batch) # BatchSize => Stale \ Batch = {}
  <1> DEFINE UpTo(r) == {q \in Stale : q <= r}
  <1>0. /\ Stale \in SUBSET Id /\ Batch \in SUBSET Id /\ Batch \subseteq Stale
        /\ \A r \in Id : r \in Nat
        /\ BatchSize \in Nat \ {0}
    BY IntegrationAssumption DEF Stale, Batch, Live, Id
  <1>a. \A r : UpTo(r) \in SUBSET Id /\ Cardinality(UpTo(r)) \in Nat
               /\ IsFiniteSet(UpTo(r))
    BY <1>0, StaleFinite
  <1>b. \A r \in Stale : r \in Batch <=> Cardinality(UpTo(r)) <= BatchSize
    BY DEF Batch
  <1> HIDE DEF UpTo
  <1>1. ASSUME NEW r \in Stale \ Batch, NEW q \in Batch PROVE r > q
    <2>1. SUFFICES ASSUME ~(r > q) PROVE FALSE
      OBVIOUS
    <2>2. UpTo(r) \subseteq UpTo(q)
      BY <1>0, <2>1 DEF UpTo
    <2>3. Cardinality(UpTo(r)) <= Cardinality(UpTo(q))
      BY <1>a, <2>2, FS_Subset
    <2>4. Cardinality(UpTo(q)) <= BatchSize /\ ~(Cardinality(UpTo(r)) <= BatchSize)
      BY <1>0, <1>b
    <2> QED
      BY <1>0, <1>a, <2>3, <2>4
  <1>2. ASSUME Cardinality(Batch) # BatchSize, Stale \ Batch # {} PROVE FALSE
    <2>0. IsFiniteSet(Batch) /\ Cardinality(Batch) \in Nat
      BY <1>0, StaleFinite
    <2>1. Cardinality(Batch) <= BatchSize
      <3>1. CASE Batch = {}
        BY <1>0, <3>1, FS_EmptySet
      <3>2. CASE Batch # {}
        <4>1. PICK m \in Batch : \A q \in Batch : q <= m
          BY <1>0, <3>2, GreatestId
        <4>2. Batch \subseteq UpTo(m)
          BY <1>0, <4>1 DEF UpTo
        <4>3. Cardinality(Batch) <= Cardinality(UpTo(m))
          BY <1>a, <4>2, FS_Subset
        <4>4. Cardinality(UpTo(m)) <= BatchSize
          BY <1>0, <1>b
        <4> QED
          BY <1>0, <1>a, <2>0, <4>3, <4>4
      <3> QED
        BY <3>1, <3>2
    <2>2. PICK m \in Stale \ Batch : \A q \in Stale \ Batch : m <= q
      <3>1. Stale \ Batch \in SUBSET Nat
        BY <1>0
      <3> QED
        BY <1>2, <3>1, LeastId
    <2>3. UpTo(m) \subseteq Batch \cup {m}
      <3> SUFFICES ASSUME NEW q \in UpTo(m), q \notin Batch PROVE q = m
        OBVIOUS
      <3>1. q \in Stale /\ q <= m /\ m <= q
        BY <2>2 DEF UpTo
      <3> QED
        BY <1>0, <3>1
    <2>4. IsFiniteSet(Batch \cup {m}) /\ Cardinality(Batch \cup {m}) = Cardinality(Batch) + 1
      BY <2>0, FS_AddElement
    <2>5. Cardinality(UpTo(m)) <= Cardinality(Batch) + 1
      BY <2>3, <2>4, FS_Subset
    <2>6. Cardinality(UpTo(m)) <= BatchSize
      BY <1>0, <1>2, <1>a, <2>0, <2>1, <2>5
    <2> QED
      BY <1>b, <2>6
  <1> QED
    BY <1>1, <1>2

\* No step makes a secret under a previous key out of another one.
LEMMA ReadableShrinks ==
  ASSUME StoreInv, RowsKept
  PROVE  Readable' \subseteq Readable
  <1> SUFFICES ASSUME NEW r \in Readable' PROVE r \in Readable
    OBVIOUS
  <1>1. r \in Id /\ rows'[r].st = "live" /\ rows'[r].key \in Previous
        /\ rows'[r].intact
    BY DEF Readable, Live
  <1>2. Moves(rows[r], rows'[r]) /\ Current \notin Previous
    BY <1>1, IntegrationAssumption DEF RowsKept, RowsMove
  <1> QED
    BY <1>1, <1>2 DEF Readable, Live, Moves

\* The steps of the others leave the command where it was.
LEMMA RotateOthers ==
  ASSUME StoreInv, RotateInv, RowsKept, UNCHANGED cli
  PROVE  RotateInv'
  <1>1. Readable' \subseteq Readable
    BY ReadableShrinks
  <1> QED
    BY <1>1 DEF RotateInv

\* The command's own steps.
LEMMA RotateSteps ==
  ASSUME StoreInv, RotateInv, RowsKept, Rotate
  PROVE  RotateInv'
  <1>0. /\ TypeOK /\ cli \in Command /\ Readable' \subseteq Readable
        /\ \A r \in Readable : r \in Id /\ r \in Nat /\ r > 0
    BY ReadableShrinks, IntegrationAssumption
       DEF StoreInv, TypeOK, Readable, Live, Id
  <1>a. Done.pc = "done" /\ Done.batch = {}
    BY DEF Done, NoCommand
  <1>1. CASE RotateStart
    <2>1. cli'.pc = "read" /\ cli'.batch = {} /\ cli'.after = 0
      BY <1>1 DEF RotateStart, NoCommand
    <2> QED
      BY <1>0, <2>1 DEF RotateInv
  <1>2. CASE RotateRead
    <2>0. cli.pc = "read" /\ \A r \in Readable : r > cli.after
      BY <1>2 DEF RotateRead, RotateInv
    <2>1. Readable \subseteq Stale
      BY <2>0 DEF Readable, Stale
    <2>2. CASE Batch = {}
      <3>1. Cardinality(Batch) # BatchSize
        BY <2>2, FS_EmptySet, IntegrationAssumption
      <3>2. Readable = {}
        BY <1>0, <2>1, <2>2, <3>1, BatchIsFirst
      <3>3. cli' = Done
        BY <1>2, <2>2 DEF RotateRead
      <3> QED
        BY <1>0, <1>a, <3>2, <3>3 DEF RotateInv
    <2>3. CASE Batch # {}
      <3> DEFINE B == {Snapshot(r) : r \in Batch}
                 full == Cardinality(Batch) = BatchSize
      <3>1. \A r \in Batch : Snapshot(r).id = r
        BY DEF Snapshot
      <3>2. /\ \A s, t \in B : s.id = t.id => s = t
            /\ B # {}
            /\ \A s \in B : s.id \in Batch
            /\ \A r \in Batch : \E s \in B : s.id = r
        BY <2>3, <3>1
      <3>3. cli' = [cli EXCEPT !.batch = B, !.full = full, !.pc = "row"]
        BY <1>2, <2>3 DEF RotateRead
      <3>4. \A r \in Readable : r \in Batch \/ (full /\ \A q \in Batch : r > q)
        BY <1>0, <2>1, BatchIsFirst
      <3> HIDE DEF B, full
      <3>5. /\ cli'.pc = "row" /\ cli'.batch = B /\ cli'.full = full
            /\ cli'.after = cli.after
        BY <1>0, <3>3 DEF Command
      <3>6. \A r \in Readable : \/ \E s \in B : s.id = r
                                \/ full /\ \A s \in B : r > s.id
        BY <3>2, <3>4
      <3> QED
        BY <1>0, <2>0, <3>2, <3>5, <3>6 DEF RotateInv
    <2> QED
      BY <2>2, <2>3
  <1>3. CASE RotateRow
    <2> DEFINE s == FirstOf(cli.batch)
               rest == cli.batch \ {s}
               pc == IF rest = {} THEN "read" ELSE "row"
               next == [cli EXCEPT !.after = s.id, !.batch = rest, !.pc = pc]
    <2>0. /\ cli.pc = "row" /\ s \in cli.batch
          /\ \A q \in cli.batch : s.id <= q.id
      BY <1>0, <1>3, FirstRow DEF RotateRow, RotateInv
    <2>1. /\ SnapshotHolds(s, rows) /\ rows \in [Id -> Integration]
          /\ \A q \in cli.batch : q.id \in Id /\ q.id \in Nat
          /\ Current \notin Previous
      BY <1>0, <2>0, IntegrationAssumption DEF Command, StoreInv, TypeOK, Id
    <2>2. /\ IF s.intact THEN RewriteSecret(s.id, s.cred, s.key) ELSE UNCHANGED rows
          /\ cli' = IF rest = {} /\ ~cli.full THEN Done ELSE next
      BY <1>3 DEF RotateRow, FirstOf
    <2>3. next.pc = pc /\ next.batch = rest /\ next.full = cli.full
          /\ next.after = s.id
      <3> HIDE DEF s, rest, pc
      <3> QED
        BY <1>0 DEF Command
    <2> HIDE DEF s, next
    <2>4. s.id \notin Readable'
      <3> SUFFICES ASSUME s.id \in Readable' PROVE FALSE
        OBVIOUS
      <3>1. s.id \in Readable /\ s.id \in Id
        BY <1>0
      <3>2. /\ Lives(rows, s.id) /\ rows[s.id].key \in Previous
            /\ rows[s.id].intact
        BY <3>1 DEF Readable, Live, Lives
      <3>3. s.intact /\ rows[s.id].key = s.key /\ s.id \in Live
        BY <2>1, <3>1, <3>2 DEF SnapshotHolds, Readable
      <3>4. rows'[s.id].key = Current
        BY <2>1, <2>2, <3>1, <3>3 DEF RewriteSecret, Integration
      <3> QED
        BY <2>1, <3>4 DEF Readable
    <2>5. ASSUME NEW r \in Readable'
          PROVE  /\ r > s.id
                 /\ \/ \E t \in rest : t.id = r
                    \/ cli.full /\ \A t \in rest : r > t.id
      <3>1. r \in Readable /\ r # s.id /\ r \in Nat
        BY <1>0, <2>4, <2>5
      <3>2. \/ \E t \in cli.batch : t.id = r
            \/ cli.full /\ \A t \in cli.batch : r > t.id
        BY <2>0, <3>1 DEF RotateInv
      <3>3. CASE \E t \in cli.batch : t.id = r
        <4>1. PICK t \in cli.batch : t.id = r
          BY <3>3
        <4> QED
          BY <2>0, <2>1, <3>1, <4>1
      <3>4. CASE cli.full /\ \A t \in cli.batch : r > t.id
        BY <2>0, <3>4
      <3> QED
        BY <3>2, <3>3, <3>4
    <2>6. \A q, t \in rest : q.id = t.id => q = t
      BY DEF RotateInv
    <2>7. CASE rest = {} /\ ~cli.full
      <3>1. cli' = Done
        BY <2>2, <2>7
      <3>2. Readable' = {}
        BY <2>5, <2>7
      <3> QED
        BY <1>a, <3>1, <3>2 DEF RotateInv
    <2>8. CASE ~(rest = {} /\ ~cli.full)
      <3>1. /\ cli'.pc = pc /\ cli'.batch = rest /\ cli'.full = cli.full
            /\ cli'.after = s.id
        BY <2>2, <2>3, <2>8
      <3>2. pc \in {"read", "row"} /\ (pc = "row" => rest # {})
        OBVIOUS
      <3> HIDE DEF rest, pc
      <3>3. \A r \in Readable' : r > cli'.after
        BY <2>5, <3>1
      <3>4. \A r \in Readable' :
              \/ \E t \in cli'.batch : t.id = r
              \/ cli'.full /\ \A t \in cli'.batch : r > t.id
        BY <2>5, <3>1
      <3>5. \A q, t \in cli'.batch : q.id = t.id => q = t
        BY <2>6, <3>1
      <3> QED
        BY <3>1, <3>2, <3>3, <3>4, <3>5 DEF RotateInv
    <2> QED
      BY <2>7, <2>8
  <1> QED
    BY <1>1, <1>2, <1>3 DEF Rotate

\* A step of the whole system.
LEMMA NextStore ==
  ASSUME StoreInv, RotateInv, [Next]_ivars
  PROVE  StoreKept /\ RotateInv'
  <1>1. ASSUME NEW h \in Slot, Request(h) \/ Step(h)
        PROVE  StoreKept /\ RotateInv'
    <2>1. UNCHANGED cli
      BY <1>1, ZenonT(60)
         DEF Request, Create, Rename, Replace, Test, Delete, Step,
                  CountOwned, AssertLabelFree, WriteLabel, ValidateRefused,
                  ValidateAccepted, Insert, WriteCredential, Claim,
                  MarkUndecryptable, Reencrypt, Probe, Record, CleanUp,
                  DeleteOwned
    <2> QED
      BY <1>1, <2>1, StepStore, RotateOthers, ZenonT(60) DEF StoreKept
  <1>2. CASE Rotate
    BY <1>2, RotateStore, RotateSteps DEF StoreKept
  <1>3. CASE Tick
    <2>1. now' \in Nat
      BY <1>3 DEF Tick, StoreInv, TypeOK
    <2> QED
      BY <1>3, <2>1, IdleStore, RotateOthers DEF Tick, StoreKept
  <1>4. CASE UNCHANGED ivars
    <2>1. now' \in Nat
      BY <1>4 DEF ivars, StoreInv, TypeOK
    <2> QED
      BY <1>4, <2>1, IdleStore, RotateOthers DEF ivars, StoreKept
  <1> QED
    BY <1>1, <1>2, <1>3, <1>4 DEF Next

\* Initially the command has not started.
LEMMA InitRotate == Init => RotateInv
  BY DEF Init, NoCommand, RotateInv

\* The invariant of the store holds in every state.
LEMMA StoreInvariant == Spec => [](StoreInv /\ RotateInv)
  <1>1. StoreInv /\ RotateInv /\ [Next]_ivars => StoreInv' /\ RotateInv'
    BY NextStore DEF StoreKept
  <1> QED
    BY <1>1, InitStore, InitRotate, PTL DEF Spec

\* The store, the handlers and the rotation command: every variable keeps its
\* type; in particular only tokens are revoked, and what the rotation command
\* reads is a secret.
THEOREM TypeCorrect == Spec => []TypeOK
  <1>1. StoreInv => TypeOK
    BY DEF StoreInv
  <1> QED
    BY <1>1, StoreInvariant, PTL

\* reencrypt's loop over batches, its cursor and its skipped rows, while
\* requests write the same rows: once the command has finished, no row that
\* decrypts is under a previous key.
THEOREM RotationsComplete == Spec => []RotationComplete
  <1>1. RotateInv => RotationComplete
    BY DEF RotateInv, RotationComplete, Readable
  <1> QED
    BY <1>1, StoreInvariant, PTL

-----------------------------------------------------------------------------
(* The cap on a user's integrations.                                       *)

\* The rows of a user are finitely many.
LEMMA OwnedFinite ==
  ASSUME NEW u
  PROVE  /\ IsFiniteSet(Owned(u)) /\ Cardinality(Owned(u)) \in Nat
         /\ IsFiniteSet(Owned(u)') /\ Cardinality(Owned(u)') \in Nat
  BY StaleFinite DEF Owned, Live

\* A step that does not make a row live keeps the cap.
LEMMA CapKept ==
  ASSUME CapHolds, RowsMove(rows, rows'),
         \A r \in Id : rows'[r].st = "live" => rows[r].st = "live"
  PROVE  CapHolds'
  <1> SUFFICES ASSUME NEW u \in User
               PROVE  Cardinality(Owned(u)') <= MaxPerUser
    BY DEF CapHolds
  <1>1. Owned(u)' \subseteq Owned(u)
    BY DEF Owned, Live, RowsMove, Moves
  <1>2. Cardinality(Owned(u)') <= Cardinality(Owned(u))
    BY <1>1, OwnedFinite, FS_Subset
  <1>3. Cardinality(Owned(u)) <= MaxPerUser /\ MaxPerUser \in Nat
    BY IntegrationAssumption DEF CapHolds
  <1> QED
    BY <1>2, <1>3, OwnedFinite

\* insertWithinCap keeps it, for the count and the insert are one step.
LEMMA CapInsert ==
  ASSUME StoreInv, CapHolds, NEW h \in Slot, NEW refused,
         InsertWithinCap(h, refused)
  PROVE  CapHolds'
  <1>0. /\ rows \in [Id -> Integration] /\ MaxPerUser \in Nat
    BY IntegrationAssumption DEF StoreInv, TypeOK
  <1>1. CASE rows' = rows
    BY <1>1 DEF CapHolds, Owned, Live
  <1>2. CASE /\ rows' = [rows EXCEPT ![NextId] = Inserted(hs[h])]
             /\ ~(Cardinality(Owned(hs[h].user)) >= MaxPerUser)
    <2> SUFFICES ASSUME NEW u \in User
                 PROVE  Cardinality(Owned(u)') <= MaxPerUser
      BY DEF CapHolds
    <2>1. NextId \in Id /\ rows[NextId].st = "none"
      BY NextIdFree DEF InsertWithinCap
    <2>2. Inserted(hs[h]).user = hs[h].user
      BY DEF Inserted, Sealed, NoIntegration
    <2>3. \A q \in Id : rows'[q] = IF q = NextId THEN Inserted(hs[h]) ELSE rows[q]
      BY <1>0, <1>2, <2>1
    <2>4. Cardinality(Owned(u)) <= MaxPerUser
      BY DEF CapHolds
    <2>5. CASE u # hs[h].user
      <3>1. Owned(u)' \subseteq Owned(u)
        BY <2>1, <2>2, <2>3, <2>5 DEF Owned, Live
      <3>2. Cardinality(Owned(u)') <= Cardinality(Owned(u))
        BY <3>1, OwnedFinite, FS_Subset
      <3> QED
        BY <1>0, <2>4, <3>2, OwnedFinite
    <2>6. CASE u = hs[h].user
      <3>1. Owned(u)' \subseteq Owned(u) \cup {NextId} /\ NextId \notin Owned(u)
        BY <2>1, <2>3 DEF Owned, Live
      <3>2. /\ IsFiniteSet(Owned(u) \cup {NextId})
            /\ Cardinality(Owned(u) \cup {NextId}) = Cardinality(Owned(u)) + 1
        BY <3>1, OwnedFinite, FS_AddElement, SMTT(40)
      <3>3. Cardinality(Owned(u)') <= Cardinality(Owned(u)) + 1
        BY <3>1, <3>2, FS_Subset
      <3>4. Cardinality(Owned(u)) < MaxPerUser
        BY <1>0, <1>2, <2>6, OwnedFinite
      <3> QED
        BY <1>0, <3>3, <3>4, OwnedFinite
    <2> QED
      BY <2>5, <2>6
  <1> QED
    BY <1>1, <1>2 DEF InsertWithinCap

\* What the other statements write is not a new row.
LEMMA NothingNew ==
  ASSUME StoreInv,
         \/ rows' = rows
         \/ \E r, v : UpdateOwned(r, v)
         \/ \E r, c, k : RewriteSecret(r, c, k)
         \/ \E r, t : r \in Live /\ rows' = [rows EXCEPT ![r].tested = t]
  PROVE  \A r \in Id : rows'[r].st = "live" => rows[r].st = "live"
  BY DEF StoreInv, TypeOK, UpdateOwned, RewriteSecret, Live

\* A step of a handler that is not the insert, or of the command.
LEMMA StepWrites ==
  ASSUME StoreInv,
         \/ Rotate \/ Tick \/ UNCHANGED ivars
         \/ \E h \in Slot : Request(h) \/ (Step(h) /\ ~Insert(h))
  PROVE  \A r \in Id : rows'[r].st = "live" => rows[r].st = "live"
  <1>1. CASE Tick \/ UNCHANGED ivars
    BY <1>1 DEF Tick, ivars
  <1>2. CASE Rotate
    BY <1>2, NothingNew, ZenonT(60)
       DEF Rotate, RotateStart, RotateRead, RotateRow
  <1>3. ASSUME NEW h \in Slot, Request(h)
        PROVE  rows' = rows
    BY <1>3, ZenonT(60) DEF Request, Create, Rename, Replace, Test, Delete
  <1>4. ASSUME NEW h \in Slot, Step(h) /\ ~Insert(h)
        PROVE  \A r \in Id : rows'[r].st = "live" => rows[r].st = "live"
    <2>1. \/ rows' = rows
          \/ \E r, v : UpdateOwned(r, v)
          \/ \E r, c, k : RewriteSecret(r, c, k)
          \/ \E r, t : r \in Live /\ rows' = [rows EXCEPT ![r].tested = t]
      BY <1>4, ZenonT(60)
         DEF Step, CountOwned, AssertLabelFree, WriteLabel, ValidateRefused,
                  ValidateAccepted, WriteCredential, Claim,
                  MarkUndecryptable, Reencrypt, Probe, Record, CleanUp,
                  DeleteOwned
    <2> QED
      BY <2>1, NothingNew
  <1> QED
    BY <1>1, <1>2, <1>3, <1>4

\* Every step of the pasted-credential operations keeps the cap.
LEMMA CapStep ==
  ASSUME StoreInv, RotateInv, CapHolds, [Next]_ivars
  PROVE  CapHolds'
  <1>0. RowsMove(rows, rows')
    BY NextStore DEF StoreKept, RowsKept
  <1>1. ASSUME NEW h \in Slot, Insert(h) PROVE CapHolds'
    BY <1>1, CapInsert DEF Insert
  <1>2. CASE \/ Rotate \/ Tick \/ UNCHANGED ivars
             \/ \E h \in Slot : Request(h) \/ (Step(h) /\ ~Insert(h))
    BY <1>0, <1>2, StepWrites, CapKept
  <1> QED
    BY <1>1, <1>2 DEF Next

\* The rows that are there at the start are within the cap.
LEMMA CapInit == Init => CapHolds
  <1> SUFFICES ASSUME Init, NEW u \in User
               PROVE  Cardinality(Owned(u)) <= MaxPerUser
    BY DEF CapHolds
  <1>0. /\ Existing \in Nat /\ Existing <= MaxPerUser /\ MaxPerUser \in Nat
        /\ MaxId \in Nat
    BY IntegrationAssumption
  <1>1. Owned(u) \subseteq 1..Existing
    BY <1>0 DEF Init, Owned, Live, NoIntegration, Id
  <1>2. Cardinality(Owned(u)) <= Cardinality(1..Existing)
    BY <1>0, <1>1, FS_Interval, FS_Subset
  <1>3. Cardinality(1..Existing) = Existing
    BY <1>0, FS_Interval
  <1> QED
    BY <1>0, <1>2, <1>3, OwnedFinite

\* insertWithinCap: however many creates run at once, a user never has more
\* integrations than the cap.
THEOREM CapsHold == Spec => []CapHolds
  <1>1. StoreInv /\ RotateInv /\ CapHolds /\ [Next]_ivars => CapHolds'
    BY CapStep
  <1> QED
    BY <1>1, CapInit, StoreInvariant, PTL DEF Spec

-----------------------------------------------------------------------------
(* Replacements win.                                                       *)

\* Every write of a row but the insert and the replacement leaves the secret
\* of a row that stays live as it was.
LEMMA SecretSame ==
  ASSUME StoreInv, NEW r \in Live, rows'[r].st = "live",
         \/ rows' = rows
         \/ \E q, v : /\ UpdateOwned(q, v)
                      /\ q \in Live /\ v.st = "live" => v.cred = rows[q].cred
         \/ \E q, c, k : /\ RewriteSecret(q, c, k)
                         /\ q \in Live /\ rows[q].key = k => c = rows[q].cred
  PROVE  rows'[r].cred = rows[r].cred
  <1>0. r \in Id /\ rows \in [Id -> Integration]
    BY DEF Live, StoreInv, TypeOK
  <1>1. ASSUME NEW q, NEW v, UpdateOwned(q, v),
               q \in Live /\ v.st = "live" => v.cred = rows[q].cred
        PROVE  rows'[r].cred = rows[r].cred
    BY <1>0, <1>1 DEF UpdateOwned
  <1>2. ASSUME NEW q, NEW c, NEW k, RewriteSecret(q, c, k),
               q \in Live /\ rows[q].key = k => c = rows[q].cred
        PROVE  rows'[r].cred = rows[r].cred
    <2>1. CASE ~(q \in Live /\ rows[q].key = k)
      BY <1>2, <2>1 DEF RewriteSecret
    <2>2. CASE q \in Live /\ rows[q].key = k
      <3>1. q \in Id /\ rows[q] \in Integration /\ c = rows[q].cred
        BY <1>0, <1>2, <2>2 DEF Live
      <3>2. rows' = [rows EXCEPT ![q].cred = c, ![q].key = Current,
                                 ![q].intact = TRUE]
        BY <1>2, <2>2 DEF RewriteSecret
      <3>3. CASE r = q
        BY <1>0, <3>1, <3>2, <3>3 DEF Integration
      <3>4. CASE r # q
        BY <1>0, <3>2, <3>4
      <3> QED
        BY <3>3, <3>4
    <2> QED
      BY <2>1, <2>2
  <1> QED
    BY <1>1, <1>2

\* A step of a handler changes the secret of a live row only by an update.
LEMMA SecretStep ==
  ASSUME StoreInv, NEW h \in Slot, Step(h), NEW r \in Live,
         rows'[r].st = "live", rows'[r].cred # rows[r].cred
  PROVE  /\ At(h, "update") /\ hs[h].row = r
         /\ rows'[r].cred = hs[h].cred
  <1>0. /\ r \in Id /\ rows \in [Id -> Integration] /\ r \in Live
        /\ hs[h] \in Handler /\ HandlerHolds(hs[h], rows)
    BY DEF Live, StoreInv, TypeOK
  <1>1. CASE rows' = rows
    BY <1>1
  <1>2. CASE WriteLabel(h)
    <2> DEFINE q == hs[h].row
               v == [rows[q] EXCEPT !.label = hs[h].label]
    <2>1. q \in Live => v.cred = rows[q].cred
      BY DEF Live, StoreInv, TypeOK, Integration
    <2>2. rows' = rows \/ UpdateOwned(q, v)
      BY <1>2 DEF WriteLabel
    <2> HIDE DEF q, v
    <2> QED
      BY <2>1, <2>2, SecretSame
  <1>3. CASE Insert(h)
    <2>1. NextId \in Id /\ rows[NextId].st = "none"
      BY <1>3, NextIdFree DEF Insert, InsertWithinCap
    <2>2. r # NextId
      BY <2>1 DEF Live
    <2> QED
      BY <1>0, <1>3, <2>2 DEF Insert, InsertWithinCap
  <1>4. CASE WriteCredential(h)
    <2>1. \A q \in Id : Sealed(rows[q], hs[h].cred).cred = hs[h].cred
      BY <1>0 DEF Sealed, Integration
    <2> QED
      BY <1>0, <1>4, <2>1 DEF WriteCredential, UpdateOwned
  <1>5. CASE Claim(h)
    <2>1. rows' = rows \/ rows' = [rows EXCEPT ![hs[h].row].tested = hs[h].at]
      BY <1>5 DEF Claim
    <2> QED
      BY <1>0, <2>1 DEF Integration
  <1>6. CASE MarkUndecryptable(h)
    <2> DEFINE q == hs[h].row
               v == [rows[q] EXCEPT !.status = "undecryptable", !.tested = hs[h].at]
    <2>1. q \in Live => v.cred = rows[q].cred
      BY DEF Live, StoreInv, TypeOK, Integration
    <2>2. UpdateOwned(q, v)
      BY <1>6 DEF MarkUndecryptable
    <2> HIDE DEF q, v
    <2> QED
      BY <2>1, <2>2, SecretSame
  <1>7. CASE Reencrypt(h)
    <2>1. hs[h].row \in Live /\ rows[hs[h].row].key = hs[h].key =>
            hs[h].cred = rows[hs[h].row].cred
      BY <1>0, <1>7 DEF Reencrypt, At, HandlerHolds, Live, Lives
    <2>2. RewriteSecret(hs[h].row, hs[h].cred, hs[h].key)
      BY <1>7 DEF Reencrypt
    <2> QED
      BY <2>1, <2>2, SecretSame
  <1>8. CASE Record(h)
    <2> DEFINE q == hs[h].row
               v == [rows[q] EXCEPT !.tested = hs[h].at, !.status =
                       IF hs[h].outcome = "transient" THEN rows[q].status
                                                      ELSE hs[h].outcome]
    <2>1. q \in Live => v.cred = rows[q].cred
      BY DEF Live, StoreInv, TypeOK, Integration
    <2>2. UpdateOwned(q, v)
      BY <1>8 DEF Record
    <2> HIDE DEF q, v
    <2> QED
      BY <2>1, <2>2, SecretSame
  <1>9. CASE DeleteOwned(h)
    <2> DEFINE q == hs[h].row
               v == [NoIntegration EXCEPT !.st = "gone"]
    <2>1. v.st = "gone" /\ UpdateOwned(q, v)
      BY <1>9 DEF DeleteOwned, NoIntegration
    <2> HIDE DEF q, v
    <2> QED
      BY <2>1, SecretSame
  <1> QED
    BY <1>1, <1>2, <1>3, <1>4, <1>5, <1>6, <1>7, <1>8, <1>9
       DEF Step, CountOwned, AssertLabelFree, ValidateRefused, ValidateAccepted,
           Probe, CleanUp

\* The rotation command never changes one.
LEMMA SecretRotate ==
  ASSUME StoreInv, RotateInv, Rotate, NEW r \in Live, rows'[r].st = "live"
  PROVE  rows'[r].cred = rows[r].cred
  <1>1. CASE rows' = rows
    BY <1>1
  <1>2. CASE RotateRow
    <2> DEFINE s == FirstOf(cli.batch)
    <2>0. TypeOK /\ cli.batch # {}
      BY <1>2 DEF StoreInv, RotateRow, RotateInv
    <2>1. s \in cli.batch
      BY <2>0, FirstRow
    <2>2. SnapshotHolds(s, rows)
      BY <2>1 DEF StoreInv
    <2>3. rows' = rows \/ RewriteSecret(s.id, s.cred, s.key)
      BY <1>2 DEF RotateRow, FirstOf
    <2> HIDE DEF s
    <2>4. s.id \in Live /\ rows[s.id].key = s.key => s.cred = rows[s.id].cred
      BY <2>2 DEF SnapshotHolds, Live, Lives
    <2> QED
      BY <2>3, <2>4, SecretSame
  <1> QED
    BY <1>1, <1>2 DEF Rotate, RotateStart, RotateRead

\* rewriteSecret, under the lazy re-encryption of the tests and under the
\* rotation command at once: the secret of a row changes only when a
\* replacement writes the one that GitHub has just accepted.
THEOREM ReplacementsWin == Spec => ReplacementWins
  <1>1. StoreInv /\ RotateInv /\ [Next]_ivars =>
          [\A r \in Live :
             rows'[r].st = "live" /\ rows'[r].cred # rows[r].cred =>
               \E h \in Slot : /\ At(h, "update")
                                /\ hs[h].row = r
                                /\ rows'[r].cred = hs[h].cred]_ivars
    <2> SUFFICES ASSUME StoreInv, RotateInv, Next, NEW r \in Live,
                        rows'[r].st = "live", rows'[r].cred # rows[r].cred
                 PROVE  \E h \in Slot : /\ At(h, "update")
                                         /\ hs[h].row = r
                                         /\ rows'[r].cred = hs[h].cred
      OBVIOUS
    <2>1. ASSUME NEW h \in Slot, Step(h)
          PROVE  /\ At(h, "update") /\ hs[h].row = r
                 /\ rows'[r].cred = hs[h].cred
      BY <2>1, SecretStep
    <2>2. ~Rotate
      BY SecretRotate
    <2>3. ~Tick
      BY ZenonT(60) DEF Tick
    <2>4. ASSUME NEW h \in Slot, Request(h) PROVE FALSE
      BY <2>4, ZenonT(60) DEF Request, Create, Rename, Replace, Test, Delete
    <2> QED
      BY <2>1, <2>2, <2>3, <2>4 DEF Next
  <1> QED
    BY <1>1, StoreInvariant, PTL DEF Spec, ReplacementWins

-----------------------------------------------------------------------------
(* Tests keep their distance.                                              *)

\* What a step that claims no row may do to the time that a row was tested.
TestedMoves ==
    \A r \in Id : rows'[r].st = "live" =>
      \/ /\ rows[r].st = "live"
         /\ rows'[r].tested \in {rows[r].tested, claimed[r], now}
      \/ rows[r].st = "none" /\ rows'[r].tested = now

\* Such a step leaves a test what it had.
LEMMA TestKept ==
  ASSUME StoreInv, TestInv, TestedMoves, NEW x \in Handler,
         HandlerHolds(x, rows), TestHolds(x, rows, claimed, now)
  PROVE  TestHolds(x, rows', claimed, now)
  <1>0. now \in Nat /\ rows \in [Id -> Integration] /\ claimed \in [Id -> Nat]
    BY DEF StoreInv, TypeOK
  <1>1. ASSUME x.pc \in Testing, Lives(rows', x.row)
        PROVE  claimed[x.row] = x.at /\ x.at <= rows'[x.row].tested
    <2>1. x.row \in Id /\ rows[x.row].st # "none"
      BY <1>1 DEF HandlerHolds, Lives, Id
    <2>2. /\ Lives(rows, x.row)
          /\ rows'[x.row].tested \in {rows[x.row].tested, claimed[x.row], now}
      BY <1>1, <2>1 DEF TestedMoves, Lives
    <2>3. /\ claimed[x.row] = x.at /\ x.at <= rows[x.row].tested /\ x.at <= now
      BY <1>1, <2>2 DEF TestHolds, Testing
    <2>4. x.at \in Nat
      BY DEF Handler
    <2> QED
      BY <2>2, <2>3, <2>4
  <1> QED
    BY <1>1 DEF TestHolds

\* One slot goes on as v, and no row is claimed.
LEMMA TestMoves ==
  ASSUME StoreInv, TestInv, TestedMoves, NEW h \in Slot, NEW v,
         TestHolds(v, rows', claimed, now),
         hs' = [hs EXCEPT ![h] = v], UNCHANGED <<claimed, now>>
  PROVE  TestInv'
  <1>0. /\ now \in Nat /\ rows \in [Id -> Integration] /\ claimed \in [Id -> Nat]
        /\ \A g \in Slot : hs[g] \in Handler /\ HandlerHolds(hs[g], rows)
    BY DEF StoreInv, TypeOK
  <1>1. \A g \in Slot : hs'[g] = IF g = h THEN v ELSE hs[g]
    BY DEF StoreInv, TypeOK
  <1>2. \A g \in Slot : TestHolds(hs'[g], rows', claimed, now)
    <2>1. \A g \in Slot : TestHolds(hs[g], rows', claimed, now)
      BY <1>0, TestKept DEF TestInv
    <2> QED
      BY <1>1, <2>1
  <1>3. ASSUME NEW r \in Id
        PROVE  claimed[r] <= now /\ (rows'[r].st = "live" =>
                                       claimed[r] <= rows'[r].tested)
    <2>1. /\ claimed[r] \in Nat /\ claimed[r] <= now
          /\ rows[r].st = "live" => claimed[r] <= rows[r].tested
      BY <1>0 DEF TestInv
    <2> QED
      BY <1>0, <2>1 DEF TestedMoves
  <1> QED
    BY <1>2, <1>3 DEF TestInv, TestHolds, Lives

\* A step of a handler that claims no row.
LEMMA TestQuiet ==
  ASSUME StoreInv, TestInv, TestedMoves, NEW h \in Slot, NEW v \in Handler,
         HandlerHolds(v, rows), TestHolds(v, rows, claimed, now),
         hs' = [hs EXCEPT ![h] = v], UNCHANGED <<claimed, now>>
  PROVE  TestInv'
  BY TestKept, TestMoves

\* An idle slot runs no test.
LEMMA IdleTests ==
  ASSUME NEW R, NEW C, NEW n
  PROVE  TestHolds(Idle, R, C, n)
  BY DEF TestHolds, Idle, Testing

\* A step that ends its handler and claims no row.
LEMMA TestEnds ==
  ASSUME StoreInv, TestInv, TestedMoves, NEW h \in Slot, Finish(h),
         UNCHANGED <<claimed, now>>
  PROVE  TestInv'
  BY IdleHolds, IdleTests, TestQuiet DEF Finish

\* A step that writes no row, or writes one with updateOwned or rewriteSecret.
LEMMA TestedWrites ==
  ASSUME StoreInv,
         \/ rows' = rows
         \/ \E q, v : /\ UpdateOwned(q, v)
                      /\ q \in Live /\ v.st = "live" =>
                           v.tested \in {rows[q].tested, claimed[q], now}
         \/ \E q, c, k : RewriteSecret(q, c, k)
  PROVE  TestedMoves
  <1>0. rows \in [Id -> Integration]
    BY DEF StoreInv, TypeOK
  <1>a. CASE rows' = rows
    <2>1. \A r \in Id : rows[r].st \in {"none", "live", "gone"}
      BY <1>0 DEF Integration
    <2> QED
      BY <1>a DEF TestedMoves
  <1>1. ASSUME NEW q, NEW v, UpdateOwned(q, v), q \in Live,
               v.st = "live" => v.tested \in {rows[q].tested, claimed[q], now}
        PROVE  TestedMoves
    <2>1. q \in Id /\ rows[q].st = "live"
      BY <1>1 DEF Live
    <2>2. \A r \in Id : rows'[r] = IF r = q THEN v ELSE rows[r]
      BY <1>0, <1>1 DEF UpdateOwned
    <2> QED
      BY <1>1, <2>1, <2>2 DEF TestedMoves
  <1>2. ASSUME NEW q, NEW c, NEW k, RewriteSecret(q, c, k), rows' # rows
        PROVE  TestedMoves
    <2>1. q \in Id /\ rows[q].st = "live" /\ rows[q] \in Integration
      BY <1>0, <1>2 DEF RewriteSecret, Live
    <2> DEFINE v == [rows[q] EXCEPT !.cred = c, !.key = Current, !.intact = TRUE]
    <2>2. rows' = [rows EXCEPT ![q] = v]
      BY <1>0, <1>2, <2>1 DEF RewriteSecret
    <2>3. v.tested = rows[q].tested
      BY <2>1 DEF Integration
    <2> HIDE DEF v
    <2>4. \A r \in Id : rows'[r] = IF r = q THEN v ELSE rows[r]
      BY <1>0, <2>2
    <2> QED
      BY <2>1, <2>3, <2>4 DEF TestedMoves
  <1> QED
    BY <1>a, <1>1, <1>2 DEF UpdateOwned

\* claim: the test that claims a row finds no other one at work on it, for
\* that one has marked the row as tested within the cooldown.
LEMMA TestClaim ==
  ASSUME StoreInv, TestInv, NEW h \in Slot, Claim(h)
  PROVE  /\ TestInv'
         /\ \A r \in Id : claimed'[r] # claimed[r] =>
                            claimed'[r] > claimed[r] + Cooldown
  <1> DEFINE x == hs[h]
             r == x.row
             y == [x EXCEPT !.pc = AfterClaim(x)]
  <1>0. /\ now \in Nat /\ rows \in [Id -> Integration] /\ claimed \in [Id -> Nat]
        /\ \A g \in Slot : /\ hs[g] \in Handler /\ HandlerHolds(hs[g], rows)
                           /\ TestHolds(hs[g], rows, claimed, now)
        /\ Cooldown \in Nat /\ CallTime \in Nat /\ CallTime <= Cooldown
    BY IntegrationAssumption, TestsAreShort DEF StoreInv, TypeOK, TestInv
  <1>1. CASE ~(r \in Live /\ rows[r].tested + Cooldown < x.at)
    <2>1. Finish(h) /\ UNCHANGED <<rows, claimed, now>>
      BY <1>1 DEF Claim
    <2> QED
      BY <2>1, TestedWrites, TestEnds
  <1>2. CASE r \in Live /\ rows[r].tested + Cooldown < x.at
    <2>0. /\ r \in Id /\ rows[r] \in Integration /\ rows[r].st = "live"
          /\ rows[r].tested \in Nat /\ x.at \in Nat /\ x \in Handler
      BY <1>0, <1>2 DEF Live, Integration, Handler
    <2>1. /\ x.pc = "claim" /\ x.op = "test" /\ x.at <= now
          /\ now <= x.at + CallTime
      BY <1>0 DEF Claim, At, TestHolds
    <2>2. claimed[r] <= rows[r].tested /\ claimed[r] \in Nat
      BY <1>0, <2>0 DEF TestInv
    <2>3. /\ rows' = [rows EXCEPT ![r].tested = x.at]
          /\ claimed' = [claimed EXCEPT ![r] = x.at] /\ now' = now
          /\ Goto(h, AfterClaim(x))
      BY <1>2 DEF Claim
    <2>4. /\ \A q \in Id : claimed'[q] = IF q = r THEN x.at ELSE claimed[q]
          /\ \A q \in Id : rows'[q].st = rows[q].st
          /\ \A q \in Id : rows'[q].tested = IF q = r THEN x.at ELSE rows[q].tested
      BY <1>0, <2>0, <2>3 DEF Integration
    <2>5. AfterClaim(x) \in Testing /\ AfterClaim(x) \in PC
      BY DEF AfterClaim, Testing, PC
    <2>6. /\ \A g \in Slot : hs'[g] = IF g = h THEN y ELSE hs[g]
          /\ y.pc = AfterClaim(x) /\ y.row = r /\ y.at = x.at /\ y.op = "test"
      <3>1. hs' = [hs EXCEPT ![h] = y]
        BY <2>3, <2>5, GotoIs DEF StoreInv
      <3> QED
        BY <2>0, <2>1, <3>1 DEF StoreInv, TypeOK, Handler
    <2> HIDE DEF y
    <2>7. \A g \in Slot : ~(hs[g].pc \in Testing /\ hs[g].row = r)
      <3> SUFFICES ASSUME NEW g \in Slot, hs[g].pc \in Testing, hs[g].row = r
                   PROVE  FALSE
        OBVIOUS
      <3>1. /\ hs[g].op = "test" /\ now <= hs[g].at + CallTime
            /\ hs[g].at <= rows[r].tested
        BY <1>0, <2>0 DEF TestHolds, Lives
      <3>2. hs[g].at \in Nat
        BY <1>0 DEF Handler
      <3> QED
        BY <1>0, <1>2, <2>0, <2>1, <3>1, <3>2
    <2>8. ASSUME NEW g \in Slot PROVE TestHolds(hs'[g], rows', claimed', now')
      <3>1. CASE g = h
        BY <2>0, <2>1, <2>3, <2>4, <2>6, <3>1 DEF TestHolds
      <3>2. CASE g # h
        <4>1. hs'[g] = hs[g] /\ TestHolds(hs[g], rows, claimed, now)
          BY <1>0, <2>6, <3>2
        <4>2. ASSUME hs[g].pc \in Testing, Lives(rows', hs[g].row)
              PROVE  /\ claimed'[hs[g].row] = hs[g].at
                     /\ hs[g].at <= rows'[hs[g].row].tested
          <5>1. hs[g].row # r /\ hs[g].row \in Id /\ Lives(rows, hs[g].row)
            BY <2>4, <2>7, <4>2 DEF Lives
          <5> QED
            BY <2>4, <4>1, <4>2, <5>1 DEF TestHolds
        <4> QED
          BY <2>3, <4>1, <4>2 DEF TestHolds
      <3> QED
        BY <3>1, <3>2
    <2>9. \A q \in Id : /\ claimed'[q] <= now
                        /\ rows'[q].st = "live" => claimed'[q] <= rows'[q].tested
      BY <2>0, <2>1, <2>4 DEF TestInv
    <2>10. TestInv'
      BY <2>3, <2>8, <2>9 DEF TestInv, TestHolds, Lives
    <2>11. x.at > claimed[r] + Cooldown
      BY <1>0, <1>2, <2>0, <2>2
    <2> QED
      BY <2>4, <2>10, <2>11
  <1> QED
    BY <1>1, <1>2

\* The other steps of a handler claim nothing and leave the tests theirs.
LEMMA TestSteps ==
  ASSUME StoreInv, TestInv, NEW h \in Slot, Request(h) \/ Step(h), ~Claim(h)
  PROVE  TestInv' /\ UNCHANGED claimed
  <1>0. /\ now \in Nat /\ rows \in [Id -> Integration] /\ claimed \in [Id -> Nat]
        /\ hs[h] \in Handler /\ HandlerHolds(hs[h], rows) /\ TypeOK
        /\ TestHolds(hs[h], rows, claimed, now) /\ CallTime \in Nat
    BY IntegrationAssumption DEF StoreInv, TypeOK, TestInv
  <1>a. StoreInv' /\ RowsKept /\ hs' \in [Slot -> Handler]
    BY StepStore, ZenonT(60) DEF StoreKept, StoreInv, TypeOK
  <1>b. UNCHANGED <<claimed, now>>
    BY ZenonT(60) DEF Request, Create, Rename, Replace, Test, Delete, Step,
           CountOwned, AssertLabelFree, WriteLabel, ValidateRefused,
           ValidateAccepted, Insert, WriteCredential,
           MarkUndecryptable, Reencrypt, Probe, Record, CleanUp, DeleteOwned
  <1> SUFFICES TestInv'
    BY <1>b
  <1>c. ASSUME NEW v \in Handler, hs' = [hs EXCEPT ![h] = v], TestedMoves,
               TestHolds(v, rows, claimed, now), HandlerHolds(v, rows)
        PROVE  TestInv'
    BY <1>b, <1>c, TestQuiet
  <1>d. ASSUME NEW v \in Handler, hs' = [hs EXCEPT ![h] = v], rows' = rows,
               TestHolds(v, rows, claimed, now)
        PROVE  TestInv'
    <2>1. v = hs'[h] /\ HandlerHolds(hs'[h], rows')
      BY <1>0, <1>a, <1>d DEF TypeOK, StoreInv, HandlerHolds, Lives
    <2>2. HandlerHolds(v, rows)
      BY <1>d, <2>1
    <2> QED
      BY <1>c, <1>d, <2>2, TestedWrites
  <1>e. ASSUME NEW pc \in PC, Goto(h, pc), rows' = rows, pc \notin Testing,
               pc # "claim"
        PROVE  TestInv'
    <2> DEFINE v == [hs[h] EXCEPT !.pc = pc]
    <2>1. hs' = [hs EXCEPT ![h] = v] /\ v \in Handler
      BY <1>0, <1>e, GotoIs
    <2>2. TestHolds(v, rows, claimed, now)
      BY <1>0, <1>e DEF TestHolds, Handler
    <2> QED
      BY <1>d, <1>e, <2>1, <2>2
  <1>f. ASSUME Finish(h), TestedMoves PROVE TestInv'
    BY <1>b, <1>f, TestEnds
  <1>1. CASE Request(h)
    <2>1. rows' = rows
      BY <1>1, ZenonT(60) DEF Request, Create, Rename, Replace, Test, Delete
    <2>2. ASSUME NEW v, hs' = [hs EXCEPT ![h] = v], v.op # "test",
                 v.pc \notin {"claim"} \cup Testing
          PROVE  TestInv'
      <3>1. v = hs'[h] /\ v \in Handler
        BY <1>0, <1>a, <2>2 DEF TypeOK
      <3> QED
        BY <1>d, <2>1, <2>2, <3>1 DEF TestHolds
    <2>3. ASSUME NEW u \in User, NEW l \in Label, Create(h, u, l)
          PROVE  TestInv'
      <3> DEFINE v == [Begin(h, "create", u) EXCEPT !.pc = "count", !.label = l]
      <3>1. v.op # "test" /\ v.pc \notin {"claim"} \cup Testing
        BY DEF Begin, Idle, Testing
      <3>2. hs' = [hs EXCEPT ![h] = v]
        BY <2>3 DEF Create
      <3> HIDE DEF v
      <3> QED
        BY <2>2, <3>1, <3>2
    <2>4. ASSUME NEW u \in User, NEW r \in Id, NEW l \in Label, Rename(h, u, r, l)
          PROVE  TestInv'
      <3> DEFINE v == [Begin(h, "rename", u) EXCEPT !.pc = "label", !.row = r,
                                                    !.label = l]
      <3>1. v.op # "test" /\ v.pc \notin {"claim"} \cup Testing
        BY DEF Begin, Idle, Testing
      <3>2. hs' = [hs EXCEPT ![h] = v]
        BY <2>4 DEF Rename
      <3> HIDE DEF v
      <3> QED
        BY <2>2, <3>1, <3>2
    <2>5. ASSUME NEW u \in User, NEW r \in Id, Replace(h, u, r)
          PROVE  TestInv'
      <3> DEFINE v == [Begin(h, "replace", u) EXCEPT !.pc = "github", !.row = r]
      <3>1. v.op # "test" /\ v.pc \notin {"claim"} \cup Testing
        BY DEF Begin, Idle, Testing
      <3>2. hs' = [hs EXCEPT ![h] = v]
        BY <2>5 DEF Replace
      <3> HIDE DEF v
      <3> QED
        BY <2>2, <3>1, <3>2
    <2>6. ASSUME NEW u \in User, NEW r \in Id, Delete(h, u, r)
          PROVE  TestInv'
      <3> DEFINE v == [Begin(h, "delete", u) EXCEPT
                         !.pc = "cleanup", !.row = r, !.type = rows[r].type,
                         !.cred = rows[r].cred, !.key = rows[r].key,
                         !.intact = rows[r].intact]
      <3>1. v.op # "test" /\ v.pc \notin {"claim"} \cup Testing
        BY DEF Begin, Idle, Testing
      <3>2. hs' = [hs EXCEPT ![h] = v]
        BY <2>6 DEF Delete
      <3> HIDE DEF v
      <3> QED
        BY <2>2, <3>1, <3>2
    <2>7. ASSUME NEW u \in User, NEW r \in Id, Test(h, u, r)
          PROVE  TestInv'
      <3> DEFINE v == [Begin(h, "test", u) EXCEPT
                         !.pc = "claim", !.row = r, !.at = now,
                         !.cred = rows[r].cred, !.key = rows[r].key,
                         !.intact = rows[r].intact]
      <3>1. hs' = [hs EXCEPT ![h] = v]
        BY <2>7 DEF Test
      <3>2. v.pc = "claim" /\ v.op = "test" /\ v.at = now
        BY DEF Begin, Idle
      <3> HIDE DEF v
      <3>3. v = hs'[h] /\ v \in Handler
        BY <1>0, <1>a, <3>1 DEF TypeOK
      <3>4. TestHolds(v, rows, claimed, now)
        BY <1>0, <3>2 DEF TestHolds, Testing
      <3> QED
        BY <1>d, <2>1, <3>1, <3>3, <3>4
    <2>8. PICK u \in User :
            \/ \E l \in Label : Create(h, u, l)
            \/ \E r \in Id : \/ \E l \in Label : Rename(h, u, r, l)
                             \/ Replace(h, u, r) \/ Test(h, u, r)
                             \/ Delete(h, u, r)
      BY <1>1 DEF Request
    <2> QED
      BY <2>3, <2>4, <2>5, <2>6, <2>7, <2>8, ZenonT(60)
  <1>2. CASE CountOwned(h)
    BY <1>2, <1>e, <1>f, TestedWrites DEF CountOwned, PC, Testing
  <1>3. CASE AssertLabelFree(h)
    <2>1. AfterLabel(hs[h].op) \in {"rename", "purge", "github"}
      BY DEF AfterLabel
    <2> QED
      BY <1>3, <1>e, <1>f, <2>1, TestedWrites DEF AssertLabelFree, PC, Testing
  <1>4. CASE WriteLabel(h)
    <2> DEFINE q == hs[h].row
               v == [rows[q] EXCEPT !.label = hs[h].label]
    <2>1. q \in Live => v.tested = rows[q].tested
      BY <1>0 DEF Live, Integration
    <2>2. rows' = rows \/ UpdateOwned(q, v)
      BY <1>4 DEF WriteLabel
    <2> HIDE DEF q, v
    <2>3. TestedMoves
      BY <2>1, <2>2, TestedWrites
    <2> QED
      BY <1>4, <1>f, <2>3 DEF WriteLabel
  <1>5. CASE ValidateRefused(h)
    BY <1>5, <1>f, TestedWrites DEF ValidateRefused
  <1>6. ASSUME NEW c \in Cred, ValidateAccepted(h, c) PROVE TestInv'
    <2> DEFINE pc == IF hs[h].row = 0 THEN "insert" ELSE "update"
               v == [hs[h] EXCEPT !.cred = c, !.pc = pc]
    <2>1. hs' = [hs EXCEPT ![h] = v] /\ rows' = rows
      BY <1>0, <1>6 DEF ValidateAccepted, TypeOK
    <2>2. v.op = hs[h].op /\ v.at = hs[h].at /\ v.pc \in {"insert", "update"}
      BY <1>0 DEF Handler
    <2> HIDE DEF v
    <2>3. v = hs'[h] /\ v \in Handler
      BY <1>0, <1>a, <2>1 DEF TypeOK
    <2>4. TestHolds(v, rows, claimed, now)
      BY <1>0, <2>2 DEF TestHolds, Testing
    <2> QED
      BY <1>d, <2>1, <2>3, <2>4
  <1>7. CASE Insert(h)
    <2>1. NextId \in Id /\ rows[NextId].st = "none"
      BY <1>7, NextIdFree DEF Insert, InsertWithinCap
    <2>2. Inserted(hs[h]).tested = now
      BY DEF Inserted, Sealed, NoIntegration
    <2>3. CASE rows' = [rows EXCEPT ![NextId] = Inserted(hs[h])]
      <3>1. \A q \in Id : rows'[q] = IF q = NextId THEN Inserted(hs[h]) ELSE rows[q]
        BY <1>0, <2>1, <2>3
      <3>2. TestedMoves
        BY <2>1, <2>2, <3>1 DEF TestedMoves
      <3> QED
        BY <1>7, <1>f, <3>2 DEF Insert, InsertWithinCap, Finish
    <2>4. CASE rows' = rows
      BY <1>7, <1>f, <2>4, TestedWrites DEF Insert, InsertWithinCap, Finish
    <2> QED
      BY <1>7, <2>3, <2>4 DEF Insert, InsertWithinCap
  <1>8. CASE WriteCredential(h)
    <2> DEFINE q == hs[h].row
               v == Sealed(rows[q], hs[h].cred)
    <2>1. q \in Live => v.tested = now
      BY <1>0 DEF Live, Integration, Sealed
    <2>2. UpdateOwned(q, v)
      BY <1>8 DEF WriteCredential
    <2> HIDE DEF q, v
    <2>3. TestedMoves
      BY <2>1, <2>2, TestedWrites
    <2> QED
      BY <1>8, <1>f, <2>3 DEF WriteCredential
  <1>9. ASSUME hs[h].pc \in Testing, hs[h].row \in Live
        PROVE  claimed[hs[h].row] = hs[h].at
    BY <1>0, <1>9 DEF TestHolds, Live, Lives
  <1>10. CASE MarkUndecryptable(h)
    <2> DEFINE q == hs[h].row
               v == [rows[q] EXCEPT !.status = "undecryptable", !.tested = hs[h].at]
    <2>1. q \in Live => v.tested = claimed[q]
      BY <1>0, <1>9, <1>10 DEF Live, Integration, MarkUndecryptable, At, Testing
    <2>2. UpdateOwned(q, v)
      BY <1>10 DEF MarkUndecryptable
    <2> HIDE DEF q, v
    <2>3. TestedMoves
      BY <2>1, <2>2, TestedWrites
    <2> QED
      BY <1>10, <1>f, <2>3 DEF MarkUndecryptable
  <1>11. CASE Reencrypt(h)
    <2> DEFINE v == [hs[h] EXCEPT !.pc = "probe"]
    <2>1. TestedMoves
      BY <1>11, TestedWrites DEF Reencrypt
    <2>2. hs' = [hs EXCEPT ![h] = v] /\ v \in Handler
      BY <1>0, <1>11, GotoIs DEF Reencrypt, PC
    <2>3. TestHolds(v, rows, claimed, now) /\ HandlerHolds(v, rows)
      BY <1>0, <1>11
         DEF Reencrypt, At, TestHolds, HandlerHolds, Testing, Handler
    <2> HIDE DEF v
    <2> QED
      BY <1>c, <2>1, <2>2, <2>3
  <1>12. ASSUME NEW o \in Outcome, Probe(h, o) PROVE TestInv'
    <2> DEFINE v == [hs[h] EXCEPT !.pc = "record", !.outcome = o]
    <2>1. hs' = [hs EXCEPT ![h] = v] /\ rows' = rows /\ hs[h].pc = "probe"
      BY <1>0, <1>12 DEF Probe, At, TypeOK
    <2>2. TestHolds(v, rows, claimed, now)
      BY <1>0, <2>1 DEF TestHolds, Testing, Handler
    <2> HIDE DEF v
    <2>3. v = hs'[h] /\ v \in Handler
      BY <1>0, <1>a, <2>1 DEF TypeOK
    <2> QED
      BY <1>d, <2>1, <2>2, <2>3
  <1>13. CASE Record(h)
    <2> DEFINE q == hs[h].row
               v == [rows[q] EXCEPT !.tested = hs[h].at, !.status =
                       IF hs[h].outcome = "transient" THEN rows[q].status
                                                      ELSE hs[h].outcome]
    <2>1. q \in Live => v.tested = claimed[q]
      BY <1>0, <1>9, <1>13 DEF Live, Integration, Record, At, Testing
    <2>2. UpdateOwned(q, v)
      BY <1>13 DEF Record
    <2> HIDE DEF q, v
    <2>3. TestedMoves
      BY <2>1, <2>2, TestedWrites
    <2> QED
      BY <1>13, <1>f, <2>3 DEF Record
  <1>14. CASE CleanUp(h)
    BY <1>14, <1>e DEF CleanUp, PC, Testing
  <1>15. CASE DeleteOwned(h)
    <2> DEFINE v == [NoIntegration EXCEPT !.st = "gone"]
    <2>1. v.st = "gone" /\ UpdateOwned(hs[h].row, v)
      BY <1>15 DEF DeleteOwned, NoIntegration
    <2> HIDE DEF v
    <2>2. TestedMoves
      BY <2>1, TestedWrites
    <2> QED
      BY <1>15, <1>f, <2>2 DEF DeleteOwned
  <1> QED
    BY <1>1, <1>2, <1>3, <1>4, <1>5, <1>6, <1>7, <1>8, <1>10, <1>11, <1>12,
       <1>13, <1>14, <1>15 DEF Step

\* The command, the clock and a step of nobody.
LEMMA TestOthers ==
  ASSUME StoreInv, TestInv, Rotate \/ Tick \/ UNCHANGED ivars
  PROVE  TestInv' /\ UNCHANGED claimed
  <1>0. /\ now \in Nat /\ rows \in [Id -> Integration] /\ claimed \in [Id -> Nat]
        /\ \A g \in Slot : /\ hs[g] \in Handler /\ HandlerHolds(hs[g], rows)
                           /\ TestHolds(hs[g], rows, claimed, now)
        /\ CallTime \in Nat
    BY IntegrationAssumption DEF StoreInv, TypeOK, TestInv
  <1>1. CASE Rotate
    <2>1. TestedMoves /\ UNCHANGED <<hs, claimed, now>>
      BY <1>1, TestedWrites DEF Rotate, RotateStart, RotateRead, RotateRow
    <2>2. \A g \in Slot : TestHolds(hs[g], rows', claimed, now)
      BY <1>0, <2>1, TestKept
    <2>3. ASSUME NEW r \in Id
          PROVE  claimed[r] <= now /\ (rows'[r].st = "live" =>
                                         claimed[r] <= rows'[r].tested)
      <3>1. /\ claimed[r] \in Nat /\ claimed[r] <= now
            /\ rows[r].st = "live" => claimed[r] <= rows[r].tested
        BY <1>0 DEF TestInv
      <3> QED
        BY <1>0, <2>1, <3>1 DEF TestedMoves
    <2> QED
      BY <2>1, <2>2, <2>3 DEF TestInv, TestHolds, Lives
  <1>2. CASE Tick
    <2>1. /\ now' = now + 1 /\ UNCHANGED <<rows, hs, claimed>>
          /\ \A g \in Slot : hs[g].op = "test" => now < hs[g].at + CallTime
      BY <1>2 DEF Tick
    <2>2. ASSUME NEW g \in Slot PROVE TestHolds(hs[g], rows, claimed, now + 1)
      <3>1. hs[g].at \in Nat
        BY <1>0 DEF Handler
      <3> QED
        BY <1>0, <2>1, <3>1 DEF TestHolds
    <2>3. \A r \in Id : claimed[r] <= now + 1
      BY <1>0 DEF TestInv
    <2> QED
      BY <2>1, <2>2, <2>3 DEF TestInv, TestHolds, Lives
  <1>3. CASE UNCHANGED ivars
    BY <1>3 DEF ivars, TestInv, TestHolds, Lives
  <1> QED
    BY <1>1, <1>2, <1>3

\* At the start nothing is under test.
LEMMA InitTests == Init => TestInv
  <1> SUFFICES ASSUME Init PROVE TestInv
    OBVIOUS
  <1>1. /\ claimed = [r \in Id |-> 0] /\ now = Cooldown + 1 /\ Cooldown \in Nat
        /\ hs = [h \in Slot |-> Idle]
    BY IntegrationAssumption DEF Init
  <1>2. \A r \in Id : rows[r].tested \in Nat
    BY InitStore DEF StoreInv, TypeOK, Integration
  <1> QED
    BY <1>1, <1>2, IdleTests DEF TestInv

\* Every step of the pasted-credential operations.
LEMMA TestNext ==
  ASSUME StoreInv, TestInv, [Next]_ivars
  PROVE  /\ TestInv'
         /\ \A r \in Id : claimed'[r] # claimed[r] =>
                            claimed'[r] > claimed[r] + Cooldown
  BY TestClaim, TestSteps, TestOthers DEF Next, Step

\* claim and record, with tests that overlap and end in any order: two tests
\* of one integration are more than a cooldown apart, because none outlives
\* the cooldown that it claimed.
THEOREM TestsAreSpaced == Spec => TestsSpaced
  <1>1. StoreInv /\ TestInv /\ [Next]_ivars =>
          /\ TestInv'
          /\ [\A r \in Id : claimed'[r] # claimed[r] =>
                              claimed'[r] > claimed[r] + Cooldown]_ivars
    BY TestNext
  <1> QED
    BY <1>1, InitTests, StoreInvariant, PTL DEF Spec, TestsSpaced

-----------------------------------------------------------------------------
(* The inductive invariant of the flows.                                   *)

\* The operations that issue states.
Issuing == {"oauthStart", "appStart", "appCallback"}

\* Pairs of a user and an installation in P have been proved.
Proves(P, u, cands) == \A i \in cands : <<u, i>> \in P

\* What a handler x and its flow f have: candidates and installations that
\* its user has proved, and states that have been issued.
FlowHolds(x, f, Z, P) ==
    /\ x.pc = "idle" => x.op = "none"
    /\ x.op \in RedirectOps => x.type = TypeOf(x.op)
    /\ x.pc \in {"purge", "pending", "prune", "save"} => x.op \in Issuing
    /\ x.pc = "consume" => f.sid \in Sid /\ Z[f.sid].st # "none"
    /\ x.pc = "prune" => \A s \in f.stale : Z[s].st # "none"
    /\ x.op \notin Callbacks \/ x.pc \in {"update", "revoke"} => f.cands = {}
    /\ Proves(P, x.user, f.cands)
    /\ x.pc \in {"insert", "refind", "update"} /\ x.type = "github_app" =>
         <<x.user, x.cred>> \in P

\* What a pending state has.
StateHolds(z, R, P) ==
    z.st = "pending" => /\ z.row # 0 => R[z.row].st # "none"
                        /\ Proves(P, z.user, z.cands)

\* The ids of states are given in order too.
StatePrefix(Z) == \E n \in 0..MaxSid : \A s \in Sid : Z[s].st # "none" <=> s <= n

FlowInv ==
    /\ StoreInv /\ RotateInv /\ FlowTypeOK
    /\ StatePrefix(states)
    /\ \A s \in Sid : StateHolds(states[s], rows, proven)
    /\ \A h \in Slot : FlowHolds(hs[h], fs[h], states, proven)
    /\ \A h \in Slot : hs[h].op # "none" => <<hs[h].op, hs[h].user>> \in Serves[h]

\* A state that is not gone has let nobody through.
UseInv == \A s \in Sid : /\ consumed[s] <= 1
                         /\ states[s].st # "gone" => consumed[s] = 0

\* The handlers that are about to insert a state, and those that have still
\* to delete what they have read as prunable.
Saving(u, t) == {h \in Slot : At(h, "save") /\ hs[h].user = u /\ hs[h].type = t}

Pruning(u, t) == {h \in Slot : At(h, "prune") /\ hs[h].user = u /\ hs[h].type = t}

\* For the pending states P of a user and a type: the bound leaves room for
\* the insert of every saving handler in S; and of any of the pruning ones in
\* G, one has read what leaves room for them all.
Roomy(P, S, G, F, I) ==
    /\ Cardinality(P) <= MaxPending - 1 + Cardinality(I \ S)
    /\ \A T \in SUBSET G : T # {} =>
         \E h \in T : Cardinality(P \ F[h].stale)
                        <= MaxPending - 1 + Cardinality(I \ (S \cup T))

PendingInv ==
    \A u \in User, t \in Type :
      Roomy(PendingOf(u, t), Saving(u, t), Pruning(u, t), fs, Issuers(u, t))

-----------------------------------------------------------------------------
(* Flows and states.                                                       *)

\* No flow, and what a handler has of it.
LEMMA NoFlowHolds ==
  ASSUME NEW Z, NEW P
  PROVE  NoFlow \in Flow /\ FlowHolds(Idle, NoFlow, Z, P)
  BY DEF NoFlow, Flow, Stage, FlowHolds, Idle, RedirectOps, Callbacks, Proves

\* What a handler has of its flow survives the issue, the consumption and the
\* deletion of states and the proof of more installations.
LEMMA FlowKept ==
  ASSUME NEW x, NEW f \in Flow, NEW Y, NEW Z, NEW P, NEW Q, FlowHolds(x, f, Y, P),
         \A s \in Sid : Y[s].st # "none" => Z[s].st # "none", P \subseteq Q
  PROVE  FlowHolds(x, f, Z, Q)
  BY DEF FlowHolds, Flow, Proves

\* What a pending state has survives every step of the store.
LEMMA StateKept ==
  ASSUME NEW z \in RedirectState, NEW R, NEW S, NEW P, NEW Q,
         StateHolds(z, R, P), RowsMove(R, S), P \subseteq Q
  PROVE  StateHolds(z, S, Q)
  BY DEF StateHolds, RedirectState, RowsMove, Moves, Proves

\* The states after a step, typed, in order and holding what they should.
StatesKept ==
    /\ states' \in [Sid -> RedirectState]
    /\ StatePrefix(states')
    /\ \A s \in Sid : states[s].st # "none" => states'[s].st # "none"
    /\ \A s \in Sid : StateHolds(states'[s], rows', proven')

LEMMA StatesSame ==
  ASSUME FlowInv, RowsKept, states' = states, proven \subseteq proven'
  PROVE  StatesKept
  <1>1. \A s \in Sid : states[s] \in RedirectState /\ StateHolds(states[s], rows, proven)
    BY DEF FlowInv, FlowTypeOK
  <1>2. \A s \in Sid : StateHolds(states[s], rows', proven')
    BY <1>1, StateKept DEF RowsKept
  <1> QED
    BY <1>2 DEF FlowInv, FlowTypeOK, StatesKept

\* States that have been issued are deleted.
LEMMA StatesDropped ==
  ASSUME FlowInv, rows' = rows, proven' = proven, NEW D,
         \A s \in D : s \in Sid => states[s].st # "none",
         states' = [s \in Sid |-> IF s \in D THEN [NoState EXCEPT !.st = "gone"]
                                             ELSE states[s]]
  PROVE  StatesKept
  <1> DEFINE gone == [NoState EXCEPT !.st = "gone"]
  <1>1. gone \in RedirectState /\ gone.st = "gone"
    BY DEF NoState, RedirectState, Type, Stage
  <1> HIDE DEF gone
  <1>2. \A s \in Sid : states'[s] = IF s \in D THEN gone ELSE states[s]
    BY DEF gone
  <1>3. \A s \in Sid : /\ states[s] \in RedirectState
                       /\ StateHolds(states[s], rows, proven)
    BY DEF FlowInv, FlowTypeOK
  <1>4. states' \in [Sid -> RedirectState]
    <2>1. \A s \in Sid : states'[s] \in RedirectState
      BY <1>1, <1>2, <1>3
    <2>2. states' = [s \in Sid |-> states'[s]]
      BY DEF gone
    <2> QED
      BY <2>1, <2>2
  <1>5. \A s \in Sid : states[s].st # "none" <=> states'[s].st # "none"
    BY <1>1, <1>2
  <1>6. StatePrefix(states')
    BY <1>5 DEF FlowInv, StatePrefix
  <1>7. \A s \in Sid : StateHolds(states'[s], rows', proven')
    BY <1>1, <1>2, <1>3 DEF StateHolds
  <1> QED
    BY <1>4, <1>5, <1>6, <1>7 DEF StatesKept

\* The next id is one that no state has had.
LEMMA NextSidFree ==
  ASSUME FlowInv, NextSid <= MaxSid
  PROVE  /\ NextSid \in Sid /\ states[NextSid].st = "none"
         /\ \A s \in Sid : states[s].st # "none" <=> s < NextSid
  <1>1. PICK n \in 0..MaxSid : \A s \in Sid : states[s].st # "none" <=> s <= n
    BY DEF FlowInv, StatePrefix
  <1>2. MaxSid \in Nat
    BY FlowAssumption
  <1>3. {s \in Sid : states[s].st # "none"} = 1..n
    BY <1>1, <1>2 DEF Sid
  <1>4. Cardinality(1..n) = n
    BY <1>2, FS_Interval
  <1>5. NextSid = 1 + Cardinality(1..n)
    BY <1>3, Zenon DEF NextSid
  <1>6. NextSid = n + 1
    BY <1>4, <1>5
  <1> QED
    BY <1>1, <1>2, <1>6 DEF Sid

\* A state is issued.
LEMMA StateSaved ==
  ASSUME FlowInv, NextSid <= MaxSid, rows' = rows, proven' = proven,
         NEW z \in RedirectState, z.st = "pending", StateHolds(z, rows, proven),
         states' = [states EXCEPT ![NextSid] = z]
  PROVE  StatesKept
  <1>0. /\ NextSid \in Sid /\ states \in [Sid -> RedirectState] /\ MaxSid \in Nat
        /\ \A s \in Sid : StateHolds(states[s], rows, proven)
    BY NextSidFree, FlowAssumption DEF FlowInv, FlowTypeOK
  <1>1. \A s \in Sid : states'[s] = IF s = NextSid THEN z ELSE states[s]
    BY <1>0
  <1>2. states' \in [Sid -> RedirectState]
    BY <1>0
  <1>3. \A s \in Sid : states'[s].st # "none" <=> s <= NextSid
    BY <1>0, <1>1, NextSidFree DEF Sid
  <1>a. NextSid \in 0..MaxSid
    BY <1>0 DEF Sid
  <1>4. StatePrefix(states')
    BY <1>3, <1>a DEF StatePrefix
  <1>5. \A s \in Sid : states[s].st # "none" => states'[s].st # "none"
    BY <1>1
  <1>6. \A s \in Sid : StateHolds(states'[s], rows', proven')
    BY <1>0, <1>1
  <1> QED
    BY <1>2, <1>4, <1>5, <1>6 DEF StatesKept

-----------------------------------------------------------------------------
(* Every step keeps the invariant.                                         *)

\* The histories after a step.
HistoriesKept ==
    /\ tokens' \subseteq Cred /\ consumed' \in [Sid -> Nat]
    /\ proven' \subseteq User \X Installation /\ proven \subseteq proven'

\* A slot goes on as v with the flow f.
Becomes(h, v, f) ==
    /\ v \in Handler /\ hs' = [hs EXCEPT ![h] = v]
    /\ f \in Flow /\ fs' = [fs EXCEPT ![h] = f]
    /\ FlowHolds(v, f, states', proven')
    /\ v.op # "none" => <<v.op, v.user>> \in Serves[h]

\* A step that leaves the histories.
LEMMA HistoriesSame ==
  ASSUME FlowInv, UNCHANGED <<tokens, consumed, proven>>
  PROVE  HistoriesKept
  BY DEF FlowInv, FlowTypeOK, HistoriesKept

\* A step of a flow, put together.
LEMMA FlowMoves ==
  ASSUME FlowInv, StoreKept, UNCHANGED cli, StatesKept, HistoriesKept,
         NEW h \in Slot, NEW v, NEW f, Becomes(h, v, f)
  PROVE  FlowInv'
  <1>0. /\ hs \in [Slot -> Handler] /\ fs \in [Slot -> Flow]
        /\ \A g \in Slot : FlowHolds(hs[g], fs[g], states, proven)
    BY DEF FlowInv, FlowTypeOK, TypeOK
  <1>1. \A g \in Slot : /\ hs'[g] = IF g = h THEN v ELSE hs[g]
                        /\ fs'[g] = IF g = h THEN f ELSE fs[g]
    BY <1>0 DEF Becomes
  <1>2. fs' \in [Slot -> Flow]
    BY <1>0 DEF Becomes
  <1>3. \A g \in Slot : FlowHolds(hs[g], fs[g], states', proven')
    BY <1>0, FlowKept DEF StatesKept, HistoriesKept
  <1>4. \A g \in Slot : FlowHolds(hs'[g], fs'[g], states', proven')
    BY <1>1, <1>3 DEF Becomes
  <1>5. \A g \in Slot : hs'[g].op # "none" => <<hs'[g].op, hs'[g].user>> \in Serves[g]
    BY <1>1 DEF Becomes, FlowInv
  <1>6. StoreInv' /\ RotateInv' /\ TypeOK'
    BY RotateOthers DEF FlowInv, StoreKept, StoreInv
  <1>7. FlowTypeOK'
    BY <1>2, <1>6 DEF FlowTypeOK, StatesKept, HistoriesKept
  <1>8. StatePrefix(states)' /\ \A s \in Sid : StateHolds(states[s], rows, proven)'
    BY DEF StatesKept, StatePrefix, StateHolds, Proves
  <1>9. \A g \in Slot : FlowHolds(hs[g], fs[g], states, proven)'
    BY <1>4 DEF FlowHolds, Proves
  <1> QED
    BY <1>5, <1>6, <1>7, <1>8, <1>9 DEF FlowInv

\* What a step of the flows keeps.
FlowsKept == FlowInv' /\ StoreKept

\* A step that writes no row.
LEMMA FlowQuiet ==
  ASSUME FlowInv, NEW h \in Slot, NEW v, NEW f, Becomes(h, v, f),
         HandlerHolds(v, rows), issued' \subseteq Cred, dropped' \subseteq Cred,
         UNCHANGED <<rows, cli, claimed, now>>, HistoriesKept,
         StatesKept \/ states' = states
  PROVE  FlowsKept
  <1>0. StoreInv
    BY DEF FlowInv
  <1>1. StoreKept
    BY <1>0, QuietStep DEF Becomes
  <1>2. StatesKept
    BY <1>0, SameRows, StatesSame DEF HistoriesKept
  <1> QED
    BY <1>1, <1>2, FlowMoves DEF FlowsKept

\* A step that ends its handler and writes no row.
LEMMA FlowEnds ==
  ASSUME FlowInv, NEW h \in Slot, Ends(h),
         issued' \subseteq Cred, dropped' \subseteq Cred,
         UNCHANGED <<rows, cli, claimed, now>>, HistoriesKept,
         StatesKept \/ states' = states
  PROVE  FlowsKept
  <1>1. Becomes(h, Idle, NoFlow)
    BY NoFlowHolds, IdleHolds DEF Becomes, Ends, Finish, Idle
  <1> QED
    BY <1>1, IdleHolds, FlowQuiet

\* What the invariant says of one handler.
LEMMA FlowSlot ==
  ASSUME FlowInv, NEW h \in Slot
  PROVE  /\ StoreInv /\ TypeOK /\ hs[h] \in Handler /\ fs[h] \in Flow
         /\ fs' = fs => fs' = [fs EXCEPT ![h] = fs[h]]
         /\ HandlerHolds(hs[h], rows) /\ FlowHolds(hs[h], fs[h], states, proven)
         /\ hs[h].op # "none" => <<hs[h].op, hs[h].user>> \in Serves[h]
         /\ issued \subseteq Cred /\ dropped \subseteq Cred /\ now \in Nat
         /\ hs[h].pc # "idle" => hs[h].user \in User
         /\ states \in [Sid -> RedirectState]
  BY DEF FlowInv, FlowTypeOK, StoreInv, TypeOK, HandlerHolds

\* start, callback and select.
LEMMA RequestKept ==
  ASSUME FlowInv, NEW h \in Slot, FlowRequest(h)
  PROVE  FlowsKept
  <1>0. /\ FlowInv /\ StoreInv /\ issued \subseteq Cred /\ dropped \subseteq Cred
        /\ now \in Nat /\ states \in [Sid -> RedirectState]
    BY FlowSlot
  <1>1. ASSUME NEW op \in {"oauthStart", "appStart"}, NEW u \in User, NEW l \in Label,
               StartCreate(h, op, u, l)
        PROVE  FlowsKept
    <2> DEFINE v == [Begin(h, op, u) EXCEPT !.pc = "count", !.type = TypeOf(op),
                                            !.label = l]
    <2>0. /\ TypeOf(op) \in Type /\ op \in RedirectOps /\ op \notin Callbacks
          /\ op \notin {"create", "replace", "rename", "none"} /\ "count" \in PC
      BY DEF TypeOf, Type, RedirectOps, Callbacks, PC
    <2>1. /\ v.pc = "count" /\ v.op = op /\ v.user = u /\ v.type = TypeOf(op)
          /\ v.row = 0 /\ v.old = NoCred
      BY DEF Begin, Idle
    <2>2. v \in Handler
      BY <2>0 DEF Begin, Idle, Handler
    <2>3. hs' = [hs EXCEPT ![h] = v] /\ fs' = [fs EXCEPT ![h] = NoFlow]
      BY <1>1 DEF StartCreate
    <2> HIDE DEF v
    <2>4. HandlerHolds(v, rows)
      BY <2>0, <2>1 DEF HandlerHolds
    <2>5. FlowHolds(v, NoFlow, states', proven')
      BY <2>0, <2>1 DEF FlowHolds, NoFlow, Proves
    <2>6. Becomes(h, v, NoFlow)
      BY <1>1, <2>1, <2>2, <2>3, <2>5, NoFlowHolds
         DEF Becomes, StartCreate, Accepts
    <2> QED
      BY <1>0, <1>1, <2>4, <2>6, HistoriesSame, FlowQuiet DEF StartCreate
  <1>2. ASSUME NEW op \in {"oauthStart", "appStart"}, NEW u \in User, NEW r \in Id,
               StartReplace(h, op, u, r)
        PROVE  FlowsKept
    <2> DEFINE v == [Begin(h, op, u) EXCEPT !.pc = "purge", !.type = TypeOf(op),
                                            !.row = r]
    <2>0. /\ TypeOf(op) \in Type /\ op \in RedirectOps /\ op \notin Callbacks
          /\ op \in Issuing
          /\ op \notin {"create", "replace", "rename", "none"} /\ "purge" \in PC
      BY DEF TypeOf, Type, RedirectOps, Callbacks, PC, Issuing
    <2>1. /\ v.pc = "purge" /\ v.op = op /\ v.user = u /\ v.type = TypeOf(op)
          /\ v.row = r /\ v.old = NoCred
      BY DEF Begin, Idle
    <2>2. v \in Handler
      BY <2>0 DEF Begin, Idle, Handler
    <2>3. hs' = [hs EXCEPT ![h] = v] /\ fs' = [fs EXCEPT ![h] = NoFlow]
      BY <1>2 DEF StartReplace
    <2>a. rows[r].st = "live"
      BY <1>0, <1>2, OwnedRow DEF StartReplace
    <2> HIDE DEF v
    <2>4. HandlerHolds(v, rows)
      BY <2>0, <2>1, <2>a DEF HandlerHolds
    <2>5. FlowHolds(v, NoFlow, states', proven')
      BY <2>0, <2>1 DEF FlowHolds, NoFlow, Proves
    <2>6. Becomes(h, v, NoFlow)
      BY <1>2, <2>1, <2>2, <2>3, <2>5, NoFlowHolds
         DEF Becomes, StartReplace, Accepts
    <2> QED
      BY <1>0, <1>2, <2>4, <2>6, HistoriesSame, FlowQuiet DEF StartReplace
  <1>3. ASSUME NEW op \in Callbacks, NEW u \in User, NEW s \in Sid, NEW good \in BOOLEAN,
               NEW i \in Installation \cup {NoCred}, Callback(h, op, u, s, good, i)
        PROVE  FlowsKept
    <2> DEFINE v == [Begin(h, op, u) EXCEPT
                       !.pc = "consume", !.type = TypeOf(op), !.at = now,
                       !.label = states[s].label, !.row = states[s].row]
               f == [NoFlow EXCEPT
                       !.sid = s, !.good = good, !.stage = states[s].stage,
                       !.exp = states[s].exp, !.cands = states[s].cands,
                       !.chosen = i]
    <2>0. /\ TypeOf(op) \in Type /\ op \in RedirectOps
          /\ op \notin {"create", "replace", "rename", "none"} /\ "consume" \in PC
      BY DEF TypeOf, Type, RedirectOps, Callbacks, PC
    <2>1. /\ v.pc = "consume" /\ v.op = op /\ v.user = u /\ v.type = TypeOf(op)
          /\ v.row = states[s].row /\ v.old = NoCred
          /\ f.sid = s /\ f.cands = states[s].cands
      BY DEF Begin, Idle, NoFlow
    <2>a. /\ states[s] \in RedirectState /\ states[s].st = "pending"
          /\ states[s].user = u /\ StateHolds(states[s], rows, proven)
      BY <1>0, <1>3 DEF Callback, Presented, PendingOf, FlowInv
    <2>2. v \in Handler /\ f \in Flow
      BY <1>0, <2>0, <2>a, ZenonT(60)
         DEF Begin, Idle, Handler, NoFlow, Flow, RedirectState
    <2>3. /\ hs' = [hs EXCEPT ![h] = v] /\ fs' = [fs EXCEPT ![h] = f]
          /\ UNCHANGED <<states, proven>>
      BY <1>3 DEF Callback
    <2> HIDE DEF v, f
    <2>4. HandlerHolds(v, rows)
      BY <2>0, <2>1, <2>a DEF HandlerHolds, StateHolds
    <2>5. FlowHolds(v, f, states', proven')
      BY <2>0, <2>1, <2>3, <2>a DEF FlowHolds, StateHolds, Proves
    <2>6. Becomes(h, v, f)
      BY <1>3, <2>1, <2>2, <2>3, <2>5 DEF Becomes, Callback, Accepts
    <2> QED
      BY <1>0, <1>3, <2>4, <2>6, HistoriesSame, FlowQuiet DEF Callback
  <1> QED
    BY <1>1, <1>2, <1>3 DEF FlowRequest, Callbacks

\* The statements of issue.
LEMMA IssueKept ==
  ASSUME FlowInv, NEW h \in Slot,
         Purge(h) \/ ListPending(h) \/ Prune(h) \/ SaveState(h)
  PROVE  FlowsKept
  <1> DEFINE x == hs[h]
  <1>0. /\ FlowInv /\ StoreInv /\ issued \subseteq Cred /\ dropped \subseteq Cred
        /\ now \in Nat /\ states \in [Sid -> RedirectState] /\ TypeOK
        /\ x \in Handler /\ fs[h] \in Flow /\ fs \in [Slot -> Flow]
        /\ HandlerHolds(x, rows) /\ FlowHolds(x, fs[h], states, proven)
        /\ <<x.op, x.user>> \in Serves[h] \/ x.op = "none"
    BY FlowSlot DEF FlowInv, FlowTypeOK
  <1>a. x.pc \in {"purge", "pending", "prune", "save"}
    BY DEF Purge, ListPending, Prune, SaveState, At
  <1>b. x.op \in Issuing /\ x.user \in User /\ x.op # "none"
    BY <1>0, <1>a DEF FlowHolds, HandlerHolds, Issuing
  <1>c. HistoriesKept
    BY HistoriesSame DEF Purge, ListPending, Prune, SaveState
  <1>d. ASSUME NEW v, NEW pc \in {"pending", "prune", "save"}, v.pc = pc,
               v.op = x.op, v.user = x.user, v.type = x.type, v.row = x.row,
               v.old = x.old
        PROVE  HandlerHolds(v, rows)
    BY <1>0, <1>b, <1>d DEF HandlerHolds, Issuing
  <1>1. CASE Purge(h)
    <2> DEFINE v == [x EXCEPT !.pc = "pending", !.at = now]
               D == {s \in Sid : /\ states[s].st = "pending" /\ states[s].exp <= now
                                 /\ states[s].type = x.type}
    <2>1. hs' = [hs EXCEPT ![h] = v] /\ v \in Handler
      <3>1. hs' = [hs EXCEPT ![h] = v]
        BY <1>0, <1>1 DEF Purge, TypeOK
      <3>2. "pending" \in PC
        BY DEF PC
      <3>3. v \in Handler
        BY <1>0, <3>2 DEF Handler
      <3> QED
        BY <3>1, <3>3
    <2>2. StatesKept
      <3>1. states' = [s \in Sid |-> IF s \in D THEN [NoState EXCEPT !.st = "gone"]
                                                ELSE states[s]]
        BY <1>1 DEF Purge
      <3>2. \A s \in D : s \in Sid => states[s].st # "none"
        OBVIOUS
      <3> HIDE DEF D
      <3> QED
        BY <1>1, <3>1, <3>2, StatesDropped DEF Purge
    <2>3. /\ v.pc = "pending" /\ v.op = x.op /\ v.user = x.user /\ v.type = x.type
          /\ v.row = x.row /\ v.old = x.old
      BY <1>0 DEF Handler
    <2> HIDE DEF v
    <2>4. FlowHolds(v, fs[h], states', proven')
      BY <1>0, <1>1, <1>b, <2>3 DEF FlowHolds, Purge, Proves
    <2>5. Becomes(h, v, fs[h])
      BY <1>0, <1>1, <2>1, <2>3, <2>4, FlowSlot DEF Becomes, Purge
    <2> QED
      BY <1>0, <1>1, <1>c, <1>d, <2>2, <2>3, <2>5, FlowQuiet DEF Purge
  <1>2. CASE ListPending(h)
    <2> DEFINE stale == Prunable(x.user, x.type)
               pc == IF stale = {} THEN "save" ELSE "prune"
               v == [x EXCEPT !.pc = pc]
               f == [fs[h] EXCEPT !.stale = stale]
    <2>0. /\ stale \subseteq Sid /\ \A s \in stale : states[s].st # "none"
          /\ pc \in {"save", "prune"} /\ pc \in PC
      BY DEF Prunable, PendingOf, PC
    <2>1. Goto(h, pc) /\ fs' = [fs EXCEPT ![h].stale = stale]
      BY <1>2 DEF ListPending
    <2> HIDE DEF stale, pc
    <2>2. hs' = [hs EXCEPT ![h] = v] /\ v \in Handler
      BY <1>0, <2>0, <2>1, GotoIs
    <2>3. fs' = [fs EXCEPT ![h] = f] /\ f \in Flow
      BY <1>0, <2>0, <2>1 DEF Flow
    <2>4. /\ v.pc = pc /\ v.op = x.op /\ v.user = x.user /\ v.type = x.type
          /\ v.row = x.row /\ v.old = x.old
          /\ f.cands = fs[h].cands /\ f.stale = stale
      BY <1>0 DEF Handler, Flow
    <2> HIDE DEF v, f
    <2>5. FlowHolds(v, f, states', proven')
      BY <1>0, <1>2, <1>b, <2>0, <2>4 DEF FlowHolds, ListPending, Proves
    <2>6. Becomes(h, v, f)
      BY <1>0, <2>2, <2>3, <2>4, <2>5 DEF Becomes
    <2> QED
      BY <1>0, <1>2, <1>c, <1>d, <2>0, <2>4, <2>6, FlowQuiet DEF ListPending
  <1>3. CASE Prune(h)
    <2> DEFINE v == [x EXCEPT !.pc = "save"]
               D == fs[h].stale
    <2>1. hs' = [hs EXCEPT ![h] = v] /\ v \in Handler
      BY <1>0, <1>3, GotoIs DEF Prune, PC
    <2>2. StatesKept
      <3>1. \A s \in D : s \in Sid => states[s].st # "none"
        BY <1>0, <1>3 DEF FlowHolds, Prune, At
      <3> QED
        BY <1>3, <3>1, StatesDropped DEF Prune
    <2>3. /\ v.pc = "save" /\ v.op = x.op /\ v.user = x.user /\ v.type = x.type
          /\ v.row = x.row /\ v.old = x.old
      BY <1>0 DEF Handler
    <2> HIDE DEF v
    <2>4. FlowHolds(v, fs[h], states', proven')
      BY <1>0, <1>3, <1>b, <2>3 DEF FlowHolds, Prune, Proves
    <2>5. Becomes(h, v, fs[h])
      BY <1>0, <1>3, <2>1, <2>3, <2>4, FlowSlot DEF Becomes, Prune
    <2> QED
      BY <1>0, <1>3, <1>c, <1>d, <2>2, <2>3, <2>5, FlowQuiet DEF Prune
  <1>4. CASE SaveState(h)
    <2> DEFINE stage == IF x.op = "appCallback" THEN "select" ELSE "redirect"
               z == [st |-> "pending", user |-> x.user, type |-> x.type,
                     stage |-> stage, label |-> x.label, row |-> x.row,
                     cands |-> fs[h].cands, exp |-> x.at + StateTtl]
    <2>1. states' = [states EXCEPT ![NextSid] = z] /\ NextSid <= MaxSid
      BY <1>4 DEF SaveState
    <2>2. stage \in Stage /\ x.at + StateTtl \in Nat
      BY <1>0, FlowAssumption DEF Stage, Handler
    <2> HIDE DEF stage
    <2>3. z \in RedirectState
      BY <1>0, <2>2 DEF RedirectState, Handler, Flow
    <2>4. z.st = "pending" /\ StateHolds(z, rows, proven)
      BY <1>0 DEF StateHolds, HandlerHolds, FlowHolds
    <2> HIDE DEF z
    <2>5. StatesKept
      BY <1>4, <2>1, <2>3, <2>4, StateSaved DEF SaveState
    <2> QED
      BY <1>0, <1>4, <1>c, <2>5, FlowEnds DEF SaveState
  <1> QED
    BY <1>1, <1>2, <1>3, <1>4

\* consume, and the lookup of the target.
LEMMA ConsumeKept ==
  ASSUME FlowInv, NEW h \in Slot, Consume(h) \/ FindTarget(h) \/ FlowRefused(h)
  PROVE  FlowsKept
  <1> DEFINE x == hs[h]
  <1>0. /\ FlowInv /\ StoreInv /\ issued \subseteq Cred /\ dropped \subseteq Cred
        /\ states \in [Sid -> RedirectState] /\ TypeOK /\ consumed \in [Sid -> Nat]
        /\ x \in Handler /\ fs[h] \in Flow
        /\ HandlerHolds(x, rows) /\ FlowHolds(x, fs[h], states, proven)
        /\ <<x.op, x.user>> \in Serves[h] \/ x.op = "none"
    BY FlowSlot DEF FlowInv, FlowTypeOK
  <1>1. CASE Consume(h)
    <2> DEFINE s == fs[h].sid
               pc == IF x.row = 0 THEN "count" ELSE "target"
               v == [x EXCEPT !.pc = pc]
               f == [NoFlow EXCEPT !.cands = fs[h].cands, !.chosen = fs[h].chosen]
    <2>0. /\ x.pc = "consume" /\ s \in Sid /\ states[s].st # "none"
          /\ x.user \in User
          /\ UNCHANGED <<rows, issued, dropped, cli, claimed, now, tokens, proven>>
      BY <1>0, <1>1 DEF Consume, At, FlowHolds, HandlerHolds
    <2>1. StatesKept
      <3> DEFINE D == {s}
      <3>1. states' = [q \in Sid |-> IF q \in D THEN [NoState EXCEPT !.st = "gone"]
                                                ELSE states[q]]
        BY <1>0, <1>1 DEF Consume
      <3>2. \A q \in D : q \in Sid => states[q].st # "none"
        BY <2>0
      <3> HIDE DEF D
      <3> QED
        BY <2>0, <3>1, <3>2, StatesDropped
    <2>2. CASE Passes(h)
      <3>1. /\ consumed' = [consumed EXCEPT ![s] = @ + 1] /\ Goto(h, pc)
            /\ fs' = [fs EXCEPT ![h] = f]
        BY <1>1, <2>2 DEF Consume
      <3>2. pc \in PC /\ pc \in {"count", "target"} /\ (pc = "count" => x.row = 0)
        BY DEF PC
      <3>3. HistoriesKept
        <4>1. consumed' \in [Sid -> Nat]
          BY <1>0, <2>0, <3>1
        <4> QED
          BY <1>0, <2>0, <4>1 DEF HistoriesKept, FlowInv, FlowTypeOK
      <3> HIDE DEF pc, s
      <3>4. hs' = [hs EXCEPT ![h] = v] /\ v \in Handler
        BY <1>0, <3>1, <3>2, GotoIs
      <3>5. f \in Flow /\ f.cands = fs[h].cands
        BY <1>0 DEF Flow, NoFlow, Stage
      <3>6. /\ v.pc = pc /\ v.op = x.op /\ v.user = x.user /\ v.type = x.type
            /\ v.row = x.row /\ v.old = x.old
        BY <1>0 DEF Handler
      <3> HIDE DEF v, f
      <3>7. HandlerHolds(v, rows)
        BY <1>0, <2>0, <3>2, <3>6 DEF HandlerHolds
      <3>8. FlowHolds(v, f, states', proven')
        BY <1>0, <2>0, <3>2, <3>5, <3>6 DEF FlowHolds, Proves
      <3>9. Becomes(h, v, f)
        BY <1>0, <3>1, <3>4, <3>5, <3>6, <3>8 DEF Becomes
      <3> QED
        BY <1>0, <2>0, <2>1, <3>3, <3>7, <3>9, FlowQuiet
    <2>3. CASE ~Passes(h)
      BY <1>0, <1>1, <2>0, <2>1, <2>3, HistoriesSame, FlowEnds DEF Consume
    <2> QED
      BY <2>2, <2>3
  <1>2. CASE FindTarget(h)
    <2> DEFINE found == /\ x.row \in Owned(x.user)
                        /\ rows[x.row].type = x.type
               v == [x EXCEPT !.pc = "github"]
    <2>0. x.pc = "target" /\ x.user \in User
      BY <1>0, <1>2 DEF FindTarget, At, HandlerHolds
    <2>1. CASE found
      <3>1. Goto(h, "github") /\ fs' = fs /\ UNCHANGED <<states, proven>>
        BY <1>2, <2>1 DEF FindTarget
      <3>2. rows[x.row].user = x.user /\ rows[x.row].type = x.type
        BY <1>0, <2>1, OwnedRow
      <3> HIDE DEF found
      <3>3. hs' = [hs EXCEPT ![h] = v] /\ v \in Handler
        BY <1>0, <3>1, GotoIs DEF PC
      <3>4. /\ v.pc = "github" /\ v.op = x.op /\ v.user = x.user /\ v.type = x.type
            /\ v.row = x.row /\ v.old = x.old
        BY <1>0 DEF Handler
      <3> HIDE DEF v
      <3>5. HandlerHolds(v, rows)
        BY <1>0, <2>0, <3>2, <3>4 DEF HandlerHolds
      <3>6. FlowHolds(v, fs[h], states', proven')
        BY <1>0, <2>0, <3>1, <3>4 DEF FlowHolds
      <3>7. Becomes(h, v, fs[h])
        BY <1>0, <3>1, <3>3, <3>4, <3>6, FlowSlot DEF Becomes
      <3> QED
        BY <1>0, <1>2, <3>5, <3>7, HistoriesSame, FlowQuiet DEF FindTarget
    <2>2. CASE ~found
      BY <1>0, <1>2, <2>2, HistoriesSame, FlowEnds DEF FindTarget
    <2> QED
      BY <2>1, <2>2
  <1>3. CASE FlowRefused(h)
    BY <1>0, <1>3, HistoriesSame, FlowEnds DEF FlowRefused
  <1> QED
    BY <1>1, <1>2, <1>3

\* A credential that fits the type, and for an app one that is proved.
LEMMA AcceptedKept ==
  ASSUME FlowInv, NEW h \in Slot, At(h, "github"), hs[h].op \in Callbacks,
         NEW c, Accepted(h, c), CredFits(hs[h].type, c),
         hs[h].type = "github_app" => <<hs[h].user, c>> \in proven',
         issued' \subseteq Cred, UNCHANGED <<rows, dropped, cli, claimed, now, states, fs>>,
         HistoriesKept
  PROVE  FlowsKept
  <1> DEFINE x == hs[h]
             pc == IF x.row = 0 THEN "insert" ELSE "refind"
             v == [x EXCEPT !.cred = c, !.pc = pc]
  <1>0. /\ StoreInv /\ TypeOK /\ x \in Handler /\ fs[h] \in Flow /\ dropped \subseteq Cred
        /\ HandlerHolds(x, rows) /\ FlowHolds(x, fs[h], states, proven)
        /\ <<x.op, x.user>> \in Serves[h] /\ x.pc = "github" /\ x.user \in User
    BY FlowSlot DEF Callbacks, At
  <1>1. c \in Secret /\ pc \in PC /\ pc \in {"insert", "refind"}
    BY DEF CredFits, Secret, PC
  <1>2. hs' = [hs EXCEPT ![h] = v]
    BY <1>0 DEF Accepted, TypeOK
  <1> HIDE DEF pc
  <1>3. v \in Handler
    BY <1>0, <1>1 DEF Handler
  <1>4. /\ v.pc = pc /\ v.op = x.op /\ v.user = x.user /\ v.type = x.type
        /\ v.row = x.row /\ v.old = x.old /\ v.cred = c
    BY <1>0 DEF Handler
  <1> HIDE DEF v
  <1>a. pc = "refind" => x.row # 0
    BY DEF pc
  <1>b. pc = "insert" => x.row = 0
    BY DEF pc
  <1>5. HandlerHolds(v, rows)
    BY <1>0, <1>1, <1>4 DEF HandlerHolds, Callbacks
  <1>6. FlowHolds(v, fs[h], states', proven')
    <2>1. FlowHolds(x, fs[h], states', proven')
      BY <1>0, FlowKept DEF HistoriesKept
    <2> QED
      BY <1>0, <1>1, <1>4, <2>1 DEF FlowHolds
  <1>7. Becomes(h, v, fs[h])
    BY <1>0, <1>2, <1>3, <1>4, <1>6, FlowSlot DEF Becomes
  <1> QED
    BY <1>0, <1>5, <1>7, FlowQuiet

\* GitHub's answers.
LEMMA AnswerKept ==
  ASSUME FlowInv, NEW h \in Slot,
         \/ \E c \in Cred : TokenRejected(h, c) \/ TokenAccepted(h, c)
         \/ \E listed \in SUBSET Installation :
              \/ \E i \in listed : InstallationPicked(h, listed, i)
              \/ SelectionOffered(h, listed)
         \/ Selected(h)
  PROVE  FlowsKept
  <1> DEFINE x == hs[h]
  <1>0. /\ FlowInv /\ StoreInv /\ issued \subseteq Cred /\ dropped \subseteq Cred
        /\ states \in [Sid -> RedirectState] /\ TypeOK
        /\ x \in Handler /\ fs[h] \in Flow /\ fs \in [Slot -> Flow]
        /\ HandlerHolds(x, rows) /\ FlowHolds(x, fs[h], states, proven)
        /\ tokens \subseteq Cred /\ consumed \in [Sid -> Nat]
        /\ proven \subseteq User \X Installation
        /\ <<x.op, x.user>> \in Serves[h] \/ x.op = "none"
    BY FlowSlot DEF FlowInv, FlowTypeOK
  <1>a. At(h, "github") /\ x.user \in User
    BY <1>0
       DEF TokenRejected, TokenAccepted, InstallationPicked, SelectionOffered,
                Selected, At, HandlerHolds
  <1>b. /\ x.op = "oauthCallback" => x.op \in Callbacks /\ x.type = "oauth_app"
        /\ x.op \in {"appCallback", "appSelect"} =>
             x.op \in Callbacks /\ x.type = "github_app"
    BY <1>0 DEF FlowHolds, TypeOf, Callbacks, RedirectOps
  <1>1. ASSUME NEW c \in Cred, TokenRejected(h, c) PROVE FlowsKept
    <2>1. HistoriesKept
      BY <1>0, <1>1 DEF TokenRejected, HistoriesKept
    <2> QED
      BY <1>0, <1>1, <2>1, FlowEnds DEF TokenRejected
  <1>2. ASSUME NEW c \in Cred, TokenAccepted(h, c) PROVE FlowsKept
    <2>1. HistoriesKept
      BY <1>0, <1>2 DEF TokenAccepted, HistoriesKept
    <2>2. CredFits(x.type, c) /\ x.type # "github_app" /\ issued' \subseteq Cred
      BY <1>0, <1>2, <1>b DEF TokenAccepted, CredFits
    <2> QED
      BY <1>0, <1>2, <1>a, <1>b, <2>1, <2>2, AcceptedKept DEF TokenAccepted
  <1>3. ASSUME NEW listed \in SUBSET Installation, NEW i \in listed,
               InstallationPicked(h, listed, i)
        PROVE  FlowsKept
    <2>1. HistoriesKept
      BY <1>0, <1>3, <1>a DEF InstallationPicked, HistoriesKept
    <2>2. CredFits(x.type, i) /\ <<x.user, i>> \in proven' /\ issued' \subseteq Cred
      BY <1>0, <1>3, <1>b DEF InstallationPicked, CredFits
    <2> QED
      BY <1>0, <1>3, <1>a, <1>b, <2>1, <2>2, AcceptedKept DEF InstallationPicked
  <1>4. ASSUME NEW listed \in SUBSET Installation, SelectionOffered(h, listed)
        PROVE  FlowsKept
    <2> DEFINE v == [x EXCEPT !.pc = "purge"]
               f == [fs[h] EXCEPT !.cands = listed]
    <2>1. HistoriesKept
      BY <1>0, <1>4, <1>a, SMTT(40) DEF SelectionOffered, HistoriesKept
    <2>2. hs' = [hs EXCEPT ![h] = v] /\ v \in Handler
      BY <1>0, <1>4, GotoIs DEF SelectionOffered, PC
    <2>3. fs' = [fs EXCEPT ![h] = f] /\ f \in Flow
      BY <1>0, <1>4 DEF SelectionOffered, Flow
    <2>4. /\ v.pc = "purge" /\ v.op = x.op /\ v.user = x.user /\ v.type = x.type
          /\ v.row = x.row /\ v.old = x.old /\ f.cands = listed
      BY <1>0 DEF Handler, Flow
    <2> HIDE DEF v, f
    <2>5. x.op = "appCallback" /\ Proves(proven', x.user, listed)
      BY <1>4 DEF SelectionOffered, Proves
    <2>6. HandlerHolds(v, rows)
      BY <1>0, <1>a, <2>4, <2>5 DEF HandlerHolds
    <2>7. FlowHolds(v, f, states', proven')
      BY <1>0, <2>4, <2>5 DEF FlowHolds, Issuing, Callbacks
    <2>8. Becomes(h, v, f)
      BY <1>0, <2>2, <2>3, <2>4, <2>5, <2>7 DEF Becomes
    <2> QED
      BY <1>0, <1>4, <2>1, <2>6, <2>8, FlowQuiet DEF SelectionOffered
  <1>5. CASE Selected(h)
    <2> DEFINE c == fs[h].chosen
    <2>1. c \in fs[h].cands /\ UNCHANGED <<tokens, consumed, proven>>
      BY <1>5 DEF Selected, rvars
    <2>2. /\ c \in Installation /\ <<x.user, c>> \in proven'
      BY <1>0, <2>1 DEF FlowHolds, Proves, Flow
    <2>3. CredFits(x.type, c) /\ HistoriesKept /\ x.op \in Callbacks
      BY <1>5, <1>b, <2>1, <2>2, HistoriesSame DEF Selected, CredFits
    <2>4. Accepted(h, c)
      BY <1>5 DEF Selected
    <2> HIDE DEF c
    <2> QED
      BY <1>0, <1>5, <1>a, <2>2, <2>3, <2>4, AcceptedKept DEF Selected, rvars
  <1> QED
    BY <1>1, <1>2, <1>3, <1>4, <1>5

\* Storing what was verified, and revoking what was not stored or was replaced.
LEMMA StoringKept ==
  ASSUME FlowInv, NEW h \in Slot,
         FlowInsert(h) \/ Refind(h) \/ FlowUpdate(h) \/ Revoke(h)
  PROVE  FlowsKept
  <1> DEFINE x == hs[h]
  <1>0. /\ FlowInv /\ StoreInv /\ issued \subseteq Cred /\ dropped \subseteq Cred
        /\ states \in [Sid -> RedirectState] /\ TypeOK /\ claimed \in [Id -> Nat]
        /\ x \in Handler /\ fs[h] \in Flow /\ fs \in [Slot -> Flow]
        /\ HandlerHolds(x, rows) /\ FlowHolds(x, fs[h], states, proven)
        /\ <<x.op, x.user>> \in Serves[h] \/ x.op = "none"
    BY FlowSlot DEF FlowInv, FlowTypeOK, TypeOK
  <1>a. HistoriesKept
    BY HistoriesSame DEF FlowInsert, Refind, FlowUpdate, Revoke, rvars
  <1>b. ASSUME NEW v \in Handler, NEW f \in Flow, f = NoFlow \/ f.cands = {},
               hs' = [hs EXCEPT ![h] = v], fs' = [fs EXCEPT ![h] = f],
               \/ v = Idle
               \/ /\ v.op = x.op /\ v.user = x.user /\ v.type = x.type
                  /\ v.pc \in {"update", "revoke"}
                  /\ v.pc = "update" => v.cred = x.cred /\ x.pc = "refind"
        PROVE  UNCHANGED <<states, proven>> => Becomes(h, v, f)
    <2> SUFFICES ASSUME UNCHANGED <<states, proven>>
                 PROVE  /\ FlowHolds(v, f, states, proven)
                        /\ v.op # "none" => <<v.op, v.user>> \in Serves[h]
      BY <1>b DEF Becomes
    <2>1. f.cands = {}
      BY <1>b DEF NoFlow
    <2>2. CASE v = Idle
      BY <2>1, <2>2 DEF Idle, FlowHolds, RedirectOps, Proves
    <2>3. CASE v # Idle
      BY <1>0, <1>b, <2>1, <2>3 DEF FlowHolds, Proves
    <2> QED
      BY <2>2, <2>3
  <1>c. ASSUME x.pc \in {"insert", "refind"}
        PROVE  \/ Unstored(h) = Idle
               \/ /\ Unstored(h) \in Handler /\ HandlerHolds(Unstored(h), rows)
                  /\ Unstored(h).op = x.op /\ Unstored(h).user = x.user
                  /\ Unstored(h).type = x.type /\ Unstored(h).pc = "revoke"
    <2> DEFINE v == [x EXCEPT !.pc = "revoke", !.old = x.cred]
    <2>1. CredFits(x.type, x.cred) /\ x.user \in User
      BY <1>0, <1>c DEF HandlerHolds
    <2>2. CASE x.type = "oauth_app"
      <3>1. Unstored(h) = v
        BY <2>2 DEF Unstored
      <3>2. x.cred \in Cred /\ "revoke" \in PC
        BY <2>1, <2>2 DEF CredFits, PC
      <3>3. v \in Handler
        BY <1>0, <3>2, ZenonT(60) DEF Handler, Secret
      <3>4. /\ v.pc = "revoke" /\ v.op = x.op /\ v.user = x.user /\ v.type = x.type
            /\ v.row = x.row /\ v.old = x.cred
        BY <1>0 DEF Handler
      <3> HIDE DEF v
      <3>5. HandlerHolds(v, rows)
        BY <1>0, <2>1, <3>2, <3>4 DEF HandlerHolds
      <3> QED
        BY <3>1, <3>3, <3>4, <3>5
    <2> QED
      BY <2>2 DEF Unstored
  <1>1. CASE FlowInsert(h)
    <2>0. /\ x.pc = "insert" /\ fs' = [fs EXCEPT ![h] = NoFlow]
          /\ UNCHANGED <<issued, dropped, cli, claimed, now, states, proven>>
      BY <1>1 DEF FlowInsert, InsertWithinCap, At
    <2>1. CASE hs' = [hs EXCEPT ![h] = Unstored(h)] /\ rows' = rows
      <3>1. Unstored(h) \in Handler /\ HandlerHolds(Unstored(h), rows)
        BY <1>c, <2>0, IdleHolds
      <3>2. Becomes(h, Unstored(h), NoFlow)
        BY <1>b, <1>c, <2>0, <2>1, <3>1, NoFlowHolds
      <3> QED
        BY <1>0, <1>a, <2>0, <2>1, <3>1, <3>2, FlowQuiet
    <2>2. CASE RowsKept /\ Finish(h)
      <3>1. Becomes(h, Idle, NoFlow)
        BY <1>b, <2>0, <2>2, IdleHolds, NoFlowHolds DEF Finish
      <3>2. StoreKept
        BY <1>0, <2>0, <2>2, LastStep
      <3>3. StatesKept
        BY <1>0, <2>0, <2>2, StatesSame
      <3> QED
        BY <1>0, <1>a, <2>0, <3>1, <3>2, <3>3, FlowMoves DEF FlowsKept
    <2> QED
      BY <1>0, <1>1, <2>1, <2>2, InsertCases DEF FlowInsert
  <1>2. CASE Refind(h)
    <2> DEFINE old == IF /\ x.type = "oauth_app"
                         /\ Decrypts(rows[x.row].key, rows[x.row].intact)
                        THEN rows[x.row].cred ELSE NoCred
               v == [x EXCEPT !.pc = "update", !.old = old]
    <2>0. /\ x.pc = "refind" /\ fs' = [fs EXCEPT ![h] = NoFlow]
          /\ UNCHANGED <<rows, issued, dropped, cli, claimed, now, states, proven>>
      BY <1>2 DEF Refind, At
    <2>1. CASE x.row \notin Owned(x.user)
      <3>1. hs' = [hs EXCEPT ![h] = Unstored(h)]
        BY <1>2, <2>1 DEF Refind
      <3>2. Unstored(h) \in Handler /\ HandlerHolds(Unstored(h), rows)
        BY <1>c, <2>0, IdleHolds
      <3>3. Becomes(h, Unstored(h), NoFlow)
        BY <1>b, <1>c, <2>0, <3>1, <3>2, NoFlowHolds
      <3> QED
        BY <1>0, <1>a, <2>0, <3>2, <3>3, FlowQuiet
    <2>2. CASE x.row \in Owned(x.user)
      <3>1. /\ rows[x.row].type = x.type /\ rows[x.row].user = x.user
            /\ CredFits(rows[x.row].type, rows[x.row].cred)
        BY <1>0, <2>0, <2>2, OwnedRow DEF HandlerHolds, RowHolds
      <3>2. old \in Cred \cup {NoCred} /\ old \in Secret \cup {NoCred}
            /\ "update" \in PC
        BY <3>1 DEF CredFits, Secret, PC
      <3>3. hs' = [hs EXCEPT ![h] = v]
        BY <1>2, <2>2 DEF Refind
      <3> HIDE DEF old
      <3>4. v \in Handler
        BY <1>0, <3>2, ZenonT(60) DEF Handler
      <3>5. /\ v.pc = "update" /\ v.op = x.op /\ v.user = x.user /\ v.type = x.type
            /\ v.row = x.row /\ v.old = old /\ v.cred = x.cred
        BY <1>0 DEF Handler
      <3> HIDE DEF v
      <3>6. HandlerHolds(v, rows)
        BY <1>0, <2>0, <3>2, <3>5 DEF HandlerHolds
      <3>7. Becomes(h, v, NoFlow)
        BY <1>b, <2>0, <3>3, <3>4, <3>5, NoFlowHolds
      <3> QED
        BY <1>0, <1>a, <2>0, <3>6, <3>7, FlowQuiet
    <2> QED
      BY <2>1, <2>2
  <1>3. CASE FlowUpdate(h)
    <2> DEFINE v == [x EXCEPT !.pc = "revoke"]
    <2>0. /\ x.pc = "update" /\ fs' = [fs EXCEPT ![h] = fs[h]] /\ fs[h].cands = {}
          /\ UNCHANGED <<issued, dropped, cli, claimed, now, states, proven>>
      BY <1>0, <1>3, FlowSlot DEF FlowUpdate, At, rvars, FlowHolds
    <2>1. RowsKept
      <3>1. x.row \in Live => CredFits(rows[x.row].type, x.cred)
        BY <1>0, <2>0 DEF HandlerHolds, Live, Lives
      <3> QED
        BY <1>0, <1>3, <3>1, SealedKept DEF FlowUpdate
    <2>2. StatesKept
      BY <1>0, <2>0, <2>1, StatesSame
    <2>3. CASE x.old = NoCred
      <3>1. Finish(h)
        BY <1>3, <2>3 DEF FlowUpdate
      <3>2. Becomes(h, Idle, fs[h])
        BY <1>0, <1>b, <2>0, <3>1, IdleHolds DEF Finish
      <3>3. StoreKept
        BY <1>0, <2>0, <2>1, <3>1, LastStep
      <3> QED
        BY <1>0, <1>a, <2>0, <2>2, <3>2, <3>3, FlowMoves DEF FlowsKept
    <2>4. CASE x.old # NoCred
      <3>1. Goto(h, "revoke")
        BY <1>3, <2>4 DEF FlowUpdate
      <3>2. hs' = [hs EXCEPT ![h] = v] /\ v \in Handler
        BY <1>0, <3>1, GotoIs DEF PC
      <3>3. /\ v.pc = "revoke" /\ v.op = x.op /\ v.user = x.user /\ v.type = x.type
            /\ v.row = x.row /\ v.old = x.old
        BY <1>0 DEF Handler
      <3> HIDE DEF v
      <3>4. HandlerHolds(v, rows)
        BY <1>0, <2>0, <2>4, <3>3 DEF HandlerHolds
      <3>5. Becomes(h, v, fs[h])
        BY <1>0, <1>b, <2>0, <3>2, <3>3
      <3>6. HandlerHolds(v, rows')
        BY <2>1, <3>2, <3>4, HandlerKept DEF RowsKept
      <3>7. StoreKept
        BY <1>0, <2>0, <2>1, <3>2, <3>6, HandlerStep
      <3> QED
        BY <1>0, <1>a, <2>0, <2>2, <3>5, <3>7, FlowMoves DEF FlowsKept
    <2> QED
      BY <2>3, <2>4
  <1>4. CASE Revoke(h)
    <2>0. /\ x.pc = "revoke" /\ fs' = [fs EXCEPT ![h] = fs[h]] /\ fs[h].cands = {}
          /\ x.old \in Cred /\ dropped' = dropped \cup {x.old} /\ Finish(h)
          /\ UNCHANGED <<rows, issued, cli, claimed, now, states, proven>>
      BY <1>0, <1>4, FlowSlot DEF Revoke, At, rvars, FlowHolds, HandlerHolds
    <2>1. Becomes(h, Idle, fs[h])
      BY <1>0, <1>b, <2>0, IdleHolds DEF Finish
    <2>2. dropped' \subseteq Cred
      BY <1>0, <2>0
    <2> QED
      BY <1>0, <1>a, <2>0, <2>1, <2>2, IdleHolds, FlowQuiet
  <1> QED
    BY <1>1, <1>2, <1>3, <1>4

\* Every step of the flows.
LEMMA FlowStepKept ==
  ASSUME FlowInv, NEW h \in Slot, FlowRequest(h) \/ FlowStep(h)
  PROVE  FlowsKept
  BY RequestKept, IssueKept, ConsumeKept, AnswerKept, StoringKept DEF FlowStep

\* What a step of the pasted-credential operations makes of its handler.
PasteMoves(h, v) ==
    \/ v = Idle
    \/ /\ hs[h].pc = "idle" /\ v.op \in PasteOps /\ <<v.op, v.user>> \in Serves[h]
       /\ v.pc \in {"count", "label", "github", "claim", "cleanup"}
    \/ /\ v.op = hs[h].op /\ v.user = hs[h].user /\ v.type = hs[h].type
       /\ v.pc \in {"label", "rename", "purge", "github", "insert", "update",
                    "unreadable", "reencrypt", "probe", "record", "delete"}
       /\ v.pc = "purge" => v.op \in {"oauthStart", "appStart"}
       /\ v.pc \in {"insert", "update"} => v.op \in {"create", "replace"}

LEMMA PasteShape ==
  ASSUME StoreInv, NEW h \in Slot, Request(h) \/ Step(h)
  PROVE  \E v : hs' = [hs EXCEPT ![h] = v] /\ PasteMoves(h, v)
  <1>0. TypeOK /\ hs \in [Slot -> Handler] /\ hs[h] \in Handler
    BY DEF StoreInv, TypeOK
  <1>a. ASSUME Finish(h) PROVE \E v : hs' = [hs EXCEPT ![h] = v] /\ PasteMoves(h, v)
    BY <1>a DEF Finish, PasteMoves
  <1>b. ASSUME NEW pc \in {"label", "rename", "purge", "github", "unreadable",
                           "reencrypt", "probe", "delete"},
               Goto(h, pc), pc = "purge" => hs[h].op \in {"oauthStart", "appStart"}
        PROVE  \E v : hs' = [hs EXCEPT ![h] = v] /\ PasteMoves(h, v)
    <2> DEFINE v == [hs[h] EXCEPT !.pc = pc]
    <2>0. pc \in PC
      BY <1>b DEF PC
    <2>1. hs' = [hs EXCEPT ![h] = v]
      BY <1>0, <1>b, <2>0, GotoIs
    <2>2. v.op = hs[h].op /\ v.user = hs[h].user /\ v.type = hs[h].type /\ v.pc = pc
      BY <1>0 DEF Handler
    <2> HIDE DEF v
    <2>3. PasteMoves(h, v)
      BY <1>b, <2>2 DEF PasteMoves
    <2> QED
      BY <2>1, <2>3
  <1>1. CASE Request(h)
    <2>1. PICK u \in User :
            \/ \E l \in Label : Create(h, u, l)
            \/ \E r \in Id : \/ \E l \in Label : Rename(h, u, r, l)
                             \/ Replace(h, u, r) \/ Test(h, u, r)
                             \/ Delete(h, u, r)
      BY <1>1 DEF Request
    <2>2. ASSUME NEW v, hs' = [hs EXCEPT ![h] = v], NEW op \in PasteOps,
                 Accepts(h, op, u), v.op = op, v.user = u,
                 v.pc \in {"count", "label", "github", "claim", "cleanup"}
          PROVE  \E w : hs' = [hs EXCEPT ![h] = w] /\ PasteMoves(h, w)
      BY <2>2 DEF PasteMoves, Accepts, At
    <2>3. ASSUME NEW l \in Label, Create(h, u, l)
          PROVE  \E w : hs' = [hs EXCEPT ![h] = w] /\ PasteMoves(h, w)
      <3> DEFINE v == [Begin(h, "create", u) EXCEPT !.pc = "count", !.label = l]
      <3>1. v.op = "create" /\ v.user = u /\ v.pc = "count"
        BY DEF Begin, Idle
      <3>2. hs' = [hs EXCEPT ![h] = v] /\ Accepts(h, "create", u)
        BY <2>3 DEF Create
      <3> HIDE DEF v
      <3> QED
        BY <2>2, <3>1, <3>2 DEF PasteOps
    <2>4. ASSUME NEW r \in Id, NEW l \in Label, Rename(h, u, r, l)
          PROVE  \E w : hs' = [hs EXCEPT ![h] = w] /\ PasteMoves(h, w)
      <3> DEFINE v == [Begin(h, "rename", u) EXCEPT !.pc = "label", !.row = r,
                                                    !.label = l]
      <3>1. v.op = "rename" /\ v.user = u /\ v.pc = "label"
        BY DEF Begin, Idle
      <3>2. hs' = [hs EXCEPT ![h] = v] /\ Accepts(h, "rename", u)
        BY <2>4 DEF Rename
      <3> HIDE DEF v
      <3> QED
        BY <2>2, <3>1, <3>2 DEF PasteOps
    <2>5. ASSUME NEW r \in Id, Replace(h, u, r)
          PROVE  \E w : hs' = [hs EXCEPT ![h] = w] /\ PasteMoves(h, w)
      <3> DEFINE v == [Begin(h, "replace", u) EXCEPT !.pc = "github", !.row = r]
      <3>1. v.op = "replace" /\ v.user = u /\ v.pc = "github"
        BY DEF Begin, Idle
      <3>2. hs' = [hs EXCEPT ![h] = v] /\ Accepts(h, "replace", u)
        BY <2>5 DEF Replace
      <3> HIDE DEF v
      <3> QED
        BY <2>2, <3>1, <3>2 DEF PasteOps
    <2>6. ASSUME NEW r \in Id, Test(h, u, r)
          PROVE  \E w : hs' = [hs EXCEPT ![h] = w] /\ PasteMoves(h, w)
      <3> DEFINE v == [Begin(h, "test", u) EXCEPT
                         !.pc = "claim", !.row = r, !.at = now,
                         !.cred = rows[r].cred, !.key = rows[r].key,
                         !.intact = rows[r].intact]
      <3>1. v.op = "test" /\ v.user = u /\ v.pc = "claim"
        BY DEF Begin, Idle
      <3>2. hs' = [hs EXCEPT ![h] = v] /\ Accepts(h, "test", u)
        BY <2>6 DEF Test
      <3> HIDE DEF v
      <3> QED
        BY <2>2, <3>1, <3>2 DEF PasteOps
    <2>7. ASSUME NEW r \in Id, Delete(h, u, r)
          PROVE  \E w : hs' = [hs EXCEPT ![h] = w] /\ PasteMoves(h, w)
      <3> DEFINE v == [Begin(h, "delete", u) EXCEPT
                         !.pc = "cleanup", !.row = r, !.type = rows[r].type,
                         !.cred = rows[r].cred, !.key = rows[r].key,
                         !.intact = rows[r].intact]
      <3>1. v.op = "delete" /\ v.user = u /\ v.pc = "cleanup"
        BY DEF Begin, Idle
      <3>2. hs' = [hs EXCEPT ![h] = v] /\ Accepts(h, "delete", u)
        BY <2>7 DEF Delete
      <3> HIDE DEF v
      <3> QED
        BY <2>2, <3>1, <3>2 DEF PasteOps
    <2> QED
      BY <2>1, <2>3, <2>4, <2>5, <2>6, <2>7
  <1>2. CASE AssertLabelFree(h)
    <2>1. /\ AfterLabel(hs[h].op) \in {"rename", "purge", "github"}
          /\ AfterLabel(hs[h].op) = "purge" => hs[h].op \in {"oauthStart", "appStart"}
      BY DEF AfterLabel
    <2> QED
      BY <1>2, <1>a, <1>b, <2>1 DEF AssertLabelFree
  <1>3. ASSUME NEW c \in Cred, ValidateAccepted(h, c)
        PROVE  \E v : hs' = [hs EXCEPT ![h] = v] /\ PasteMoves(h, v)
    <2> DEFINE pc == IF hs[h].row = 0 THEN "insert" ELSE "update"
               v == [hs[h] EXCEPT !.cred = c, !.pc = pc]
    <2>1. hs' = [hs EXCEPT ![h] = v]
      BY <1>0, <1>3 DEF ValidateAccepted
    <2>2. v.op = hs[h].op /\ v.user = hs[h].user /\ v.type = hs[h].type /\ v.pc = pc
      BY <1>0 DEF Handler
    <2>3. pc \in {"insert", "update"} /\ hs[h].op \in {"create", "replace"}
      BY <1>3 DEF ValidateAccepted
    <2> HIDE DEF v, pc
    <2>4. PasteMoves(h, v)
      BY <2>2, <2>3 DEF PasteMoves
    <2> QED
      BY <2>1, <2>4
  <1>4. CASE Claim(h)
    <2>1. AfterClaim(hs[h]) \in {"unreadable", "reencrypt", "probe"}
      BY DEF AfterClaim
    <2> QED
      BY <1>4, <1>a, <1>b, <2>1 DEF Claim
  <1>5. ASSUME NEW o \in Outcome, Probe(h, o)
        PROVE  \E v : hs' = [hs EXCEPT ![h] = v] /\ PasteMoves(h, v)
    <2> DEFINE v == [hs[h] EXCEPT !.pc = "record", !.outcome = o]
    <2>1. hs' = [hs EXCEPT ![h] = v]
      BY <1>0, <1>5 DEF Probe
    <2>2. v.op = hs[h].op /\ v.user = hs[h].user /\ v.type = hs[h].type /\ v.pc = "record"
      BY <1>0 DEF Handler
    <2> HIDE DEF v
    <2>3. PasteMoves(h, v)
      BY <2>2 DEF PasteMoves
    <2> QED
      BY <2>1, <2>3
  <1>6. CASE CountOwned(h)
    BY <1>6, <1>a, <1>b DEF CountOwned
  <1>7. CASE Reencrypt(h) \/ CleanUp(h)
    BY <1>7, <1>b DEF Reencrypt, CleanUp
  <1>8. CASE \/ WriteLabel(h) \/ ValidateRefused(h) \/ Insert(h) \/ WriteCredential(h)
             \/ MarkUndecryptable(h) \/ Record(h) \/ DeleteOwned(h)
    <2>1. Finish(h)
      BY <1>8 DEF WriteLabel, ValidateRefused, Insert, InsertWithinCap, Finish,
                  WriteCredential, MarkUndecryptable, Record, DeleteOwned
    <2> QED
      BY <1>a, <2>1
  <1> QED
    BY <1>1, <1>2, <1>3, <1>4, <1>5, <1>6, <1>7, <1>8 DEF Step

\* The other part of FlowNext: a step of Integrations, with the flows.
PasteNext ==
    /\ Next
    /\ fs' = [h \in Slot |-> IF hs'[h] = Idle THEN NoFlow ELSE fs[h]]
    /\ UNCHANGED <<states, tokens, consumed, proven>>

\* It keeps the invariant: its requests take slots that have no flow, and its
\* steps never bring a handler to where a flow holds something.
LEMMA PasteKept ==
  ASSUME FlowInv, PasteNext
  PROVE  FlowsKept
  <1>0. /\ StoreKept /\ RotateInv' /\ TypeOK' /\ hs' \in [Slot -> Handler]
    BY NextStore DEF PasteNext, FlowInv, StoreKept, StoreInv, TypeOK
  <1>1. /\ hs \in [Slot -> Handler] /\ fs \in [Slot -> Flow]
        /\ \A g \in Slot : FlowHolds(hs[g], fs[g], states, proven)
        /\ \A g \in Slot : hs[g].op # "none" => <<hs[g].op, hs[g].user>> \in Serves[g]
        /\ StoreInv
    BY DEF FlowInv, FlowTypeOK, TypeOK
  <1>2. ASSUME NEW g \in Slot
        PROVE  /\ FlowHolds(hs'[g], fs'[g], states, proven)
               /\ hs'[g].op # "none" => <<hs'[g].op, hs'[g].user>> \in Serves[g]
    <2>1. fs'[g] = IF hs'[g] = Idle THEN NoFlow ELSE fs[g]
      BY DEF PasteNext
    <2>a. Idle.op = "none"
      BY DEF Idle
    <2>2. CASE hs'[g] = Idle
      BY <2>1, <2>2, <2>a, NoFlowHolds
    <2>3. CASE hs'[g] # Idle /\ hs'[g] = hs[g]
      BY <1>1, <2>1, <2>3
    <2>4. CASE hs'[g] # Idle /\ hs'[g] # hs[g]
      <3>1. Request(g) \/ Step(g)
        <4>1. CASE Rotate \/ Tick
          BY <2>4, <4>1 DEF Rotate, RotateStart, RotateRead, RotateRow, Tick
        <4>2. ASSUME NEW h \in Slot, Request(h) \/ Step(h) PROVE h = g
          <5>1. PICK v : hs' = [hs EXCEPT ![h] = v]
            BY <1>1, <4>2, PasteShape
          <5> QED
            BY <1>1, <2>4, <5>1
        <4> QED
          BY <4>1, <4>2 DEF PasteNext, Next
      <3>2. PICK v : hs' = [hs EXCEPT ![g] = v] /\ PasteMoves(g, v)
        BY <1>1, <3>1, PasteShape
      <3>3. v = hs'[g] /\ fs'[g] = fs[g] /\ v # Idle
        BY <1>1, <2>1, <2>4, <3>2
      <3>4. HandlerHolds(v, rows')
        BY <1>0, <3>3 DEF StoreKept, StoreInv, HandlerHolds, Lives
      <3>5. CASE /\ hs[g].pc = "idle" /\ v.op \in PasteOps
                 /\ <<v.op, v.user>> \in Serves[g]
                 /\ v.pc \in {"count", "label", "github", "claim", "cleanup"}
        <4>1. fs[g].cands = {}
          BY <1>1, <3>5 DEF FlowHolds, Callbacks
        <4>2. v.op \notin RedirectOps
          BY <3>5 DEF PasteOps, RedirectOps
        <4>3. FlowHolds(v, fs[g], states, proven)
          BY <3>5, <4>1, <4>2 DEF FlowHolds, Proves
        <4> QED
          BY <3>3, <3>5, <4>3
      <3>6. CASE /\ v.op = hs[g].op /\ v.user = hs[g].user /\ v.type = hs[g].type
                 /\ v.pc \in {"label", "rename", "purge", "github", "insert", "update",
                              "unreadable", "reencrypt", "probe", "record", "delete"}
                 /\ v.pc = "purge" => v.op \in {"oauthStart", "appStart"}
                 /\ v.pc \in {"insert", "update"} => v.op \in {"create", "replace"}
        <4>1. FlowHolds(hs[g], fs[g], states, proven)
          BY <1>1
        <4>2. v.pc \in {"insert", "update"} => v.type = "pat" /\ v.op \notin Callbacks
          BY <3>4, <3>6 DEF HandlerHolds, Callbacks
        <4>3. FlowHolds(v, fs[g], states, proven)
          BY <3>6, <4>1, <4>2 DEF FlowHolds, Issuing
        <4> QED
          BY <1>1, <3>3, <3>6, <4>3
      <3> QED
        BY <3>2, <3>3, <3>5, <3>6 DEF PasteMoves
    <2> QED
      BY <2>2, <2>3, <2>4
  <1>3. fs' \in [Slot -> Flow]
    BY <1>1, NoFlowHolds DEF PasteNext
  <1>4. StatesKept /\ HistoriesKept
    BY <1>0, StatesSame, HistoriesSame DEF PasteNext, StoreKept
  <1>5. FlowTypeOK'
    BY <1>0, <1>3, <1>4 DEF FlowTypeOK, StatesKept, HistoriesKept
  <1>6. StatePrefix(states)' /\ \A s \in Sid : StateHolds(states[s], rows, proven)'
    BY <1>4 DEF StatesKept, StatePrefix, StateHolds, Proves
  <1>7. \A g \in Slot : FlowHolds(hs[g], fs[g], states, proven)'
    BY <1>2, ZenonT(60) DEF PasteNext, FlowHolds, Proves
  <1> QED
    BY <1>0, <1>2, <1>5, <1>6, <1>7 DEF FlowInv, FlowsKept, StoreKept

\* A step of nobody.
LEMMA StutterKept ==
  ASSUME FlowInv, UNCHANGED vars
  PROVE  FlowsKept
  <1>1. UNCHANGED ivars /\ UNCHANGED rvars
    BY DEF vars
  <1>2. StoreKept /\ RotateInv'
    BY <1>1, NextStore DEF FlowInv
  <1>3. FlowTypeOK'
    BY <1>1, <1>2 DEF FlowInv, FlowTypeOK, rvars, StoreKept, StoreInv
  <1> QED
    BY <1>1, <1>2, <1>3
       DEF FlowInv, FlowsKept, StoreKept, StatePrefix, StateHolds, FlowHolds, Proves,
           ivars, rvars

\* A step of the whole system.
LEMMA FlowNextKept ==
  ASSUME FlowInv, [FlowNext]_vars
  PROVE  FlowsKept
  BY FlowStepKept, PasteKept, StutterKept DEF FlowNext, PasteNext

\* Initially nothing is issued.
LEMMA FlowInitKept == FlowInit => FlowInv
  <1> SUFFICES ASSUME FlowInit PROVE FlowInv
    OBVIOUS
  <1>1. StoreInv /\ RotateInv /\ TypeOK
    BY InitStore, InitRotate DEF FlowInit, StoreInv
  <1>2. NoState \in RedirectState /\ NoState.st = "none"
    BY DEF NoState, RedirectState, Type, Stage
  <1>3. \A s \in Sid : states[s] = NoState
    BY DEF FlowInit
  <1>4. FlowTypeOK
    BY <1>1, <1>2, NoFlowHolds DEF FlowInit, FlowTypeOK
  <1>5. StatePrefix(states)
    <2>1. 0 \in 0..MaxSid /\ \A s \in Sid : states[s].st # "none" <=> s <= 0
      BY <1>2, <1>3, FlowAssumption DEF Sid
    <2> QED
      BY <2>1 DEF StatePrefix
  <1>6. \A s \in Sid : StateHolds(states[s], rows, proven)
    BY <1>2, <1>3 DEF StateHolds
  <1>7. \A h \in Slot : hs[h] = Idle /\ fs[h] = NoFlow
    BY DEF FlowInit, Init
  <1>8. \A h \in Slot : FlowHolds(hs[h], fs[h], states, proven)
    BY <1>7, NoFlowHolds
  <1>9. \A h \in Slot : hs[h].op = "none"
    BY <1>7 DEF Idle
  <1> QED
    BY <1>1, <1>4, <1>5, <1>6, <1>8, <1>9 DEF FlowInv

\* The invariant of the flows holds in every state.
LEMMA FlowInvariant == FlowSpec => []FlowInv
  <1>1. FlowInv /\ [FlowNext]_vars => FlowInv'
    BY FlowNextKept DEF FlowsKept
  <1> QED
    BY <1>1, FlowInitKept, PTL DEF FlowSpec

\* The two kinds of redirect flows next to the pasted-credential operations:
\* every variable keeps its type.
THEOREM FlowTypeCorrect == FlowSpec => []FlowTypeOK
  <1>1. FlowInv => FlowTypeOK
    BY DEF FlowInv
  <1> QED
    BY <1>1, FlowInvariant, PTL

\* The rotation command while callbacks insert and replace rows: a command
\* that has finished leaves no readable secret under a previous key.
THEOREM FlowRotationsComplete == FlowSpec => []RotationComplete
  <1>1. FlowInv => RotationComplete
    BY DEF FlowInv, RotateInv, RotationComplete, Readable
  <1> QED
    BY <1>1, FlowInvariant, PTL

-----------------------------------------------------------------------------
(* A state is used once.                                                   *)

\* A step that is not the consumption lets nobody through, and brings no
\* state back.
LEMMA UseKept ==
  ASSUME FlowInv, UseInv, consumed' = consumed,
         \A s \in Sid : states[s].st = "gone" => states'[s].st = "gone"
  PROVE  UseInv'
  BY DEF UseInv

\* What a step of the flows but the consumption writes to the states.
LEMMA StateWrites ==
  ASSUME FlowInv, NEW h \in Slot, FlowRequest(h) \/ FlowStep(h), ~Consume(h)
  PROVE  /\ consumed' = consumed
         /\ \/ states' = states
            \/ \E D : states' = [s \in Sid |-> IF s \in D
                                                 THEN [NoState EXCEPT !.st = "gone"]
                                                 ELSE states[s]]
            \/ SaveState(h)
  <1>1. CASE FlowRequest(h)
    BY <1>1, ZenonT(60) DEF FlowRequest, StartCreate, StartReplace, Callback
  <1>2. CASE Purge(h)
    <2> DEFINE D == {s \in Sid : /\ states[s].st = "pending" /\ states[s].exp <= now
                                 /\ states[s].type = hs[h].type}
    <2>1. states' = [s \in Sid |-> IF s \in D THEN [NoState EXCEPT !.st = "gone"]
                                              ELSE states[s]]
      BY <1>2 DEF Purge
    <2> HIDE DEF D
    <2> QED
      BY <1>2, <2>1 DEF Purge
  <1>3. CASE Prune(h)
    BY <1>3 DEF Prune
  <1>4. CASE SaveState(h)
    BY <1>4 DEF SaveState
  <1> QED
    BY <1>1, <1>2, <1>3, <1>4, ZenonT(60)
       DEF FlowStep, ListPending, FindTarget, FlowRefused, TokenRejected, TokenAccepted,
           InstallationPicked, SelectionOffered, Selected, FlowInsert, Refind,
           FlowUpdate, Revoke, rvars

LEMMA UseStep ==
  ASSUME FlowInv, UseInv, [FlowNext]_vars
  PROVE  UseInv'
  <1>0. states \in [Sid -> RedirectState] /\ consumed \in [Sid -> Nat]
    BY DEF FlowInv, FlowTypeOK
  <1>1. ASSUME NEW h \in Slot, Consume(h) PROVE UseInv'
    <2> DEFINE s == fs[h].sid
               gone == [NoState EXCEPT !.st = "gone"]
    <2>0. s \in Sid /\ gone.st = "gone"
      BY <1>1, FlowSlot DEF Consume, At, FlowHolds, NoState
    <2>1. states' = [states EXCEPT ![s] = gone]
      BY <1>1 DEF Consume
    <2> HIDE DEF gone
    <2>2. CASE Passes(h)
      <3>1. consumed' = [consumed EXCEPT ![s] = @ + 1] /\ states[s].st = "pending"
        BY <1>1, <2>2 DEF Consume, Passes
      <3>2. consumed[s] = 0
        BY <2>0, <3>1 DEF UseInv
      <3> QED
        BY <1>0, <2>0, <2>1, <3>1, <3>2 DEF UseInv
    <2>3. CASE ~Passes(h)
      <3>1. consumed' = consumed
        BY <1>1, <2>3 DEF Consume
      <3> QED
        BY <1>0, <2>0, <2>1, <3>1 DEF UseInv
    <2> QED
      BY <2>2, <2>3
  <1>2. ASSUME NEW h \in Slot, FlowRequest(h) \/ FlowStep(h), ~Consume(h)
        PROVE  UseInv'
    <2> DEFINE gone == [NoState EXCEPT !.st = "gone"]
    <2>0. gone.st = "gone"
      BY DEF NoState
    <2>1. /\ consumed' = consumed
          /\ \/ states' = states
             \/ \E D : states' = [s \in Sid |-> IF s \in D THEN gone ELSE states[s]]
             \/ SaveState(h)
      BY <1>2, StateWrites
    <2> HIDE DEF gone
    <2>2. CASE SaveState(h)
      <3>1. NextSid \in Sid /\ states[NextSid].st = "none"
        BY <2>2, NextSidFree DEF SaveState
      <3>2. \A s \in Sid : s # NextSid => states'[s] = states[s]
        BY <1>0, <2>2, <3>1 DEF SaveState
      <3> QED
        BY <2>1, <3>1, <3>2, UseKept
    <2>3. CASE states' = states
      BY <2>1, <2>3, UseKept
    <2>4. ASSUME NEW D, states' = [s \in Sid |-> IF s \in D THEN gone ELSE states[s]]
          PROVE  UseInv'
      BY <2>0, <2>1, <2>4, UseKept
    <2> QED
      BY <2>1, <2>2, <2>3, <2>4
  <1>3. CASE PasteNext
    BY <1>3, UseKept DEF PasteNext
  <1>4. CASE UNCHANGED vars
    BY <1>4, UseKept DEF vars, rvars
  <1> QED
    BY <1>1, <1>2, <1>3, <1>4 DEF FlowNext, PasteNext

\* consume's DELETE, with any number of callers that present one state, while
\* others purge and prune: a state lets at most one of them through.
THEOREM StatesSingleUse == FlowSpec => []StateSingleUse
  <1>1. FlowInit => UseInv
    BY DEF FlowInit, UseInv
  <1>2. FlowInv /\ UseInv /\ [FlowNext]_vars => UseInv'
    BY UseStep
  <1>3. UseInv => StateSingleUse
    BY DEF UseInv, StateSingleUse
  <1> QED
    BY <1>1, <1>2, <1>3, FlowInvariant, PTL DEF FlowSpec

-----------------------------------------------------------------------------
(* The cap, with the flows.                                                *)

\* What the steps of the flows but the insert write is not a new row.
LEMMA FlowWrites ==
  ASSUME FlowInv, NEW h \in Slot, FlowRequest(h) \/ FlowStep(h), ~FlowInsert(h)
  PROVE  \/ rows' = rows
         \/ FlowUpdate(h) /\ UpdateOwned(hs[h].row, Sealed(rows[hs[h].row], hs[h].cred))
  BY ZenonT(60)
     DEF FlowRequest, StartCreate, StartReplace, Callback, FlowStep, Purge,
         ListPending, Prune, SaveState, Consume, FindTarget, FlowRefused,
         TokenRejected, TokenAccepted, InstallationPicked, SelectionOffered,
         Selected, Refind, FlowUpdate, Revoke

\* insertWithinCap again, with the callbacks of both apps among the creates.
THEOREM FlowCapsHold == FlowSpec => []CapHolds
  <1>1. FlowInv /\ CapHolds /\ [FlowNext]_vars => CapHolds'
    <2> SUFFICES ASSUME FlowInv, CapHolds, [FlowNext]_vars PROVE CapHolds'
      OBVIOUS
    <2>0. StoreInv /\ RotateInv
      BY DEF FlowInv
    <2>1. ASSUME NEW h \in Slot, FlowInsert(h) PROVE CapHolds'
      BY <2>0, <2>1, CapInsert DEF FlowInsert
    <2>2. ASSUME NEW h \in Slot, FlowRequest(h) \/ FlowStep(h), ~FlowInsert(h)
          PROVE  CapHolds'
      <3>1. \/ rows' = rows \/ \E r, v : UpdateOwned(r, v)
        BY <2>2, FlowWrites
      <3>2. \A r \in Id : rows'[r].st = "live" => rows[r].st = "live"
        BY <2>0, <3>1, NothingNew
      <3>3. RowsMove(rows, rows')
        BY <2>2, FlowStepKept DEF FlowsKept, StoreKept, RowsKept
      <3> QED
        BY <3>2, <3>3, CapKept
    <2>3. CASE Next \/ UNCHANGED ivars
      BY <2>0, <2>3, CapStep
    <2> QED
      BY <2>1, <2>2, <2>3 DEF FlowNext, vars
  <1>2. FlowInit => CapHolds
    BY CapInit DEF FlowInit
  <1> QED
    BY <1>1, <1>2, FlowInvariant, PTL DEF FlowSpec

-----------------------------------------------------------------------------
(* Replacements win over re-encryption, with the flows.                    *)

\* A step of the flows changes the secret of a live row only by an update.
LEMMA FlowSecret ==
  ASSUME FlowInv, NEW h \in Slot, FlowRequest(h) \/ FlowStep(h), NEW r \in Live,
         rows'[r].st = "live", rows'[r].cred # rows[r].cred
  PROVE  At(h, "update") /\ hs[h].row = r /\ rows'[r].cred = hs[h].cred
  <1>0. r \in Id /\ rows \in [Id -> Integration] /\ StoreInv
    BY DEF Live, FlowInv, StoreInv, TypeOK
  <1>1. CASE FlowInsert(h)
    <2>1. NextId \in Id /\ rows[NextId].st = "none"
      BY <1>0, <1>1, NextIdFree DEF FlowInsert, InsertWithinCap
    <2>2. r # NextId
      BY <2>1 DEF Live
    <2> QED
      BY <1>0, <1>1, <2>2 DEF FlowInsert, InsertWithinCap
  <1>2. CASE ~FlowInsert(h)
    <2> DEFINE q == hs[h].row
               v == Sealed(rows[q], hs[h].cred)
    <2>1. At(h, "update") /\ UpdateOwned(q, v)
      BY <1>2, FlowWrites DEF FlowUpdate
    <2>2. q \in Live => v.cred = hs[h].cred
      BY <1>0 DEF Live, Integration, Sealed
    <2> HIDE DEF v
    <2>3. q \in Live /\ r = q
      BY <1>0, <2>1 DEF UpdateOwned, Live
    <2>4. rows'[r] = v
      BY <1>0, <2>1, <2>3 DEF UpdateOwned
    <2> QED
      BY <2>1, <2>2, <2>3, <2>4
  <1> QED
    BY <1>1, <1>2

\* replace of either app, rewriteSecret and the rotation command at once: the
\* secret of a row changes only when a replacement writes the one that GitHub
\* has just accepted.
THEOREM FlowReplacementsWin == FlowSpec => ReplacementWins
  <1>1. FlowInv /\ [FlowNext]_vars =>
          [\A r \in Live :
             rows'[r].st = "live" /\ rows'[r].cred # rows[r].cred =>
               \E h \in Slot : /\ At(h, "update")
                                /\ hs[h].row = r
                                /\ rows'[r].cred = hs[h].cred]_ivars
    <2> SUFFICES ASSUME FlowInv, FlowNext \/ UNCHANGED ivars, NEW r \in Live,
                        rows'[r].st = "live", rows'[r].cred # rows[r].cred
                 PROVE  \E h \in Slot : /\ At(h, "update")
                                         /\ hs[h].row = r
                                         /\ rows'[r].cred = hs[h].cred
      BY DEF vars
    <2>0. StoreInv /\ RotateInv
      BY DEF FlowInv
    <2>1. ASSUME NEW h \in Slot, FlowRequest(h) \/ FlowStep(h)
          PROVE  At(h, "update") /\ hs[h].row = r /\ rows'[r].cred = hs[h].cred
      BY <2>1, FlowSecret
    <2>2. ASSUME NEW h \in Slot, Step(h)
          PROVE  At(h, "update") /\ hs[h].row = r /\ rows'[r].cred = hs[h].cred
      BY <2>0, <2>2, SecretStep
    <2>3. ASSUME NEW h \in Slot, Request(h) PROVE rows' = rows
      BY <2>3, ZenonT(60) DEF Request, Create, Rename, Replace, Test, Delete
    <2>4. ~(Tick \/ UNCHANGED ivars)
      BY DEF Tick, ivars
    <2>5. ~Rotate
      BY <2>0, SecretRotate
    <2> QED
      BY <2>1, <2>2, <2>3, <2>4, <2>5 DEF FlowNext, Next
  <1> QED
    BY <1>1, FlowInvariant, PTL DEF FlowSpec, ReplacementWins

-----------------------------------------------------------------------------
(* Stored installations are proved.                                        *)

\* A row that keeps its secret, or takes one that is proved, is proved.
LEMMA ProvenKept ==
  ASSUME InstallationProven, RowsMove(rows, rows'), proven \subseteq proven',
         \A r \in Id : rows'[r].st = "live" =>
           \/ rows[r].st = "live" /\ rows'[r].cred = rows[r].cred
           \/ rows'[r].type = "github_app" =>
                <<rows'[r].user, rows'[r].cred>> \in proven'
  PROVE  InstallationProven'
  <1> SUFFICES ASSUME NEW r \in Id, rows'[r].st = "live", rows'[r].type = "github_app"
               PROVE  <<rows'[r].user, rows'[r].cred>> \in proven'
    BY DEF InstallationProven, Live
  <1>1. Moves(rows[r], rows'[r])
    BY DEF RowsMove
  <1>2. CASE rows[r].st = "live" /\ rows'[r].cred = rows[r].cred
    <2>1. rows'[r].user = rows[r].user /\ rows'[r].type = rows[r].type
      BY <1>1, <1>2 DEF Moves
    <2>2. <<rows[r].user, rows[r].cred>> \in proven
      BY <1>2, <2>1 DEF InstallationProven, Live
    <2> QED
      BY <1>2, <2>1, <2>2
  <1> QED
    BY <1>2

\* A handler that writes its secret to the row r has proved it.
LEMMA WriterProves ==
  ASSUME FlowInv, NEW h \in Slot, NEW r \in Live, At(h, "update"), hs[h].row = r,
         rows[r].type = "github_app"
  PROVE  <<rows[r].user, hs[h].cred>> \in proven
  <1>1. HandlerHolds(hs[h], rows) /\ FlowHolds(hs[h], fs[h], states, proven)
    BY FlowSlot
  <1>2. rows[r].type = hs[h].type /\ rows[r].user = hs[h].user
    BY <1>1 DEF HandlerHolds, At, Lives, Live
  <1> QED
    BY <1>1, <1>2 DEF FlowHolds, At

\* And so has one that inserts it.
LEMMA InserterProves ==
  ASSUME FlowInv, NEW h \in Slot, NEW refused, InsertWithinCap(h, refused),
         NEW r \in Id, rows'[r].st = "live", rows'[r].type = "github_app"
  PROVE  \/ rows[r].st = "live" /\ rows'[r].cred = rows[r].cred
         \/ <<rows'[r].user, rows'[r].cred>> \in proven
  <1>0. /\ rows \in [Id -> Integration] /\ NextId \in Id
        /\ FlowHolds(hs[h], fs[h], states, proven) /\ hs[h].pc = "insert"
    BY FlowSlot, NextIdFree DEF InsertWithinCap, StoreInv, TypeOK, At
  <1>1. CASE rows' = rows
    BY <1>1
  <1>2. CASE rows' = [rows EXCEPT ![NextId] = Inserted(hs[h])]
    <2>1. CASE r # NextId
      BY <1>0, <1>2, <2>1
    <2>2. CASE r = NextId
      <3>1. rows'[r] = Inserted(hs[h])
        BY <1>0, <1>2, <2>2
      <3>2. /\ Inserted(hs[h]).user = hs[h].user /\ Inserted(hs[h]).type = hs[h].type
            /\ Inserted(hs[h]).cred = hs[h].cred
        BY DEF Inserted, Sealed, NoIntegration
      <3> QED
        BY <1>0, <3>1, <3>2 DEF FlowHolds
    <2> QED
      BY <2>1, <2>2
  <1> QED
    BY <1>1, <1>2 DEF InsertWithinCap

LEMMA ProvenStep ==
  ASSUME FlowInv, InstallationProven, [FlowNext]_vars
  PROVE  InstallationProven'
  <1>0. /\ StoreInv /\ RotateInv /\ rows \in [Id -> Integration]
        /\ FlowsKept /\ RowsMove(rows, rows')
    BY FlowNextKept
       DEF FlowInv, StoreInv, TypeOK, FlowsKept, StoreKept, RowsKept
  <1>1. proven \subseteq proven'
    <2>1. ASSUME NEW h \in Slot, FlowRequest(h) PROVE proven' = proven
      BY <2>1, ZenonT(60) DEF FlowRequest, StartCreate, StartReplace, Callback
    <2>2. ASSUME NEW h \in Slot, FlowStep(h) PROVE proven \subseteq proven'
      BY <2>2
         DEF FlowStep, Purge, ListPending, Prune, SaveState, Consume, FindTarget,
                  FlowRefused, TokenRejected, TokenAccepted, InstallationPicked,
                  SelectionOffered, Selected, FlowInsert, Refind, FlowUpdate, Revoke,
                  rvars
    <2> QED
      BY <2>1, <2>2, ZenonT(60) DEF FlowNext, vars, rvars
  <1> SUFFICES ASSUME NEW r \in Id, rows'[r].st = "live", rows'[r].type = "github_app"
               PROVE  \/ rows[r].st = "live" /\ rows'[r].cred = rows[r].cred
                      \/ <<rows'[r].user, rows'[r].cred>> \in proven
    BY <1>0, <1>1, ProvenKept
  <1>2. r \in Live => rows[r].type = "github_app" /\ rows'[r].user = rows[r].user
    BY <1>0 DEF RowsMove, Moves, Live
  <1>3. ASSUME NEW h \in Slot, r \in Live, At(h, "update"), hs[h].row = r,
               rows'[r].cred = hs[h].cred
        PROVE  <<rows'[r].user, rows'[r].cred>> \in proven
    BY <1>2, <1>3, WriterProves
  <1>4. ASSUME NEW h \in Slot, FlowInsert(h) \/ Insert(h)
        PROVE  \/ rows[r].st = "live" /\ rows'[r].cred = rows[r].cred
               \/ <<rows'[r].user, rows'[r].cred>> \in proven
    BY <1>4, InserterProves DEF FlowInsert, Insert
  <1>5. ASSUME NEW h \in Slot, FlowUpdate(h)
        PROVE  \/ rows[r].st = "live" /\ rows'[r].cred = rows[r].cred
               \/ <<rows'[r].user, rows'[r].cred>> \in proven
    <2> DEFINE q == hs[h].row
               v == Sealed(rows[q], hs[h].cred)
    <2>0. At(h, "update") /\ UpdateOwned(q, v)
      BY <1>5 DEF FlowUpdate
    <2>1. q \in Live => v.cred = hs[h].cred
      BY <1>0 DEF Live, Integration, Sealed
    <2> HIDE DEF v
    <2>2. CASE q \in Live /\ r = q
      <3>1. rows'[r] = v
        BY <1>0, <2>0, <2>2 DEF UpdateOwned, Live
      <3> QED
        BY <1>3, <2>0, <2>1, <2>2, <3>1
    <2>3. CASE ~(q \in Live /\ r = q)
      BY <1>0, <2>0, <2>3 DEF UpdateOwned, Live
    <2> QED
      BY <2>2, <2>3
  <1>6. ASSUME NEW h \in Slot, FlowRequest(h) \/ FlowStep(h), ~FlowInsert(h),
               ~FlowUpdate(h)
        PROVE  rows' = rows
    BY <1>6, FlowWrites
  <1>7. ASSUME Next \/ UNCHANGED ivars, \A h \in Slot : ~Insert(h)
        PROVE  \/ rows[r].st = "live" /\ rows'[r].cred = rows[r].cred
               \/ <<rows'[r].user, rows'[r].cred>> \in proven
    <2>1. r \in Live
      BY <1>0, <1>7, StepWrites DEF Next, Live
    <2>2. CASE Tick \/ UNCHANGED ivars \/ \E h \in Slot : Request(h)
      <3>a. ASSUME NEW h \in Slot, Request(h) PROVE rows' = rows
        BY <3>a, ZenonT(60) DEF Request, Create, Rename, Replace, Test, Delete
      <3>1. rows' = rows
        BY <2>2, <3>a DEF Tick, ivars
      <3> QED
        BY <2>1, <3>1 DEF Live
    <2>3. CASE Rotate
      BY <1>0, <2>1, <2>3, SecretRotate DEF Live
    <2>4. ASSUME NEW h \in Slot, Step(h)
          PROVE  \/ rows[r].st = "live" /\ rows'[r].cred = rows[r].cred
                 \/ <<rows'[r].user, rows'[r].cred>> \in proven
      <3>1. CASE rows'[r].cred = rows[r].cred
        BY <2>1, <3>1 DEF Live
      <3>2. CASE rows'[r].cred # rows[r].cred
        BY <1>0, <1>3, <2>1, <2>4, <3>2, SecretStep
      <3> QED
        BY <3>1, <3>2
    <2> QED
      BY <1>7, <2>2, <2>3, <2>4 DEF Next
  <1> QED
    BY <1>4, <1>5, <1>6, <1>7 DEF FlowNext, vars

\* verify, the state's binding to its user and select, for any interleaving of
\* any number of flows: an installation is stored only for a user whose own
\* GitHub account has listed it.
THEOREM InstallationsProven == FlowSpec => []InstallationProven
  <1>1. FlowInit => InstallationProven
    <2> SUFFICES ASSUME FlowInit, NEW r \in Live PROVE rows[r].type # "github_app"
      BY DEF InstallationProven
    <2>0. /\ ExistingType \subseteq {"pat", "oauth_app"} /\ MaxId \in Nat
          /\ Existing \in Nat /\ r \in Id
      BY IntegrationAssumption DEF Live
    <2>1. ~(r > Existing) => rows[r].type \in ExistingType
      <3> SUFFICES ASSUME ~(r > Existing) PROVE rows[r].type \in ExistingType
        OBVIOUS
      <3>1. r \in 1..Existing
        BY <2>0 DEF Id
      <3> QED
        BY <2>0, <3>1 DEF FlowInit, Init
    <2>2. r > Existing => rows[r].type = "pat"
      BY <2>0 DEF FlowInit, Init, NoIntegration
    <2> QED
      BY <2>0, <2>1, <2>2
  <1>2. FlowInv /\ InstallationProven /\ [FlowNext]_vars => InstallationProven'
    BY ProvenStep
  <1> QED
    BY <1>1, <1>2, FlowInvariant, PTL DEF FlowSpec

-----------------------------------------------------------------------------
(* Where the steps of the flows take their handlers.                       *)

\* A handler is not brought to where the connection tests are, nor to where
\* issue deletes and inserts.
FlowGoes(h, v) ==
    /\ v.pc \notin {"save", "prune", "claim"} \cup Testing
    /\ \/ v.op \in RedirectOps \cup {"none"}
       \/ v.op = hs[h].op /\ v.at = hs[h].at

Shaped(h) ==
    \E v : /\ hs' = [hs EXCEPT ![h] = v] /\ FlowGoes(h, v)
           /\ fs' = fs \/ \E f : fs' = [fs EXCEPT ![h] = f]

\* So for every step but prunePending's two.
LEMMA FlowShape ==
  ASSUME FlowInv, NEW h \in Slot, FlowRequest(h) \/ FlowStep(h),
         ~ListPending(h), ~Prune(h)
  PROVE  Shaped(h)
  <1>0. /\ hs \in [Slot -> Handler] /\ fs \in [Slot -> Flow] /\ hs[h] \in Handler
        /\ states \in [Sid -> RedirectState]
    BY DEF FlowInv, FlowTypeOK, TypeOK
  <1>a. Idle.pc = "idle" /\ Idle.op = "none"
    BY DEF Idle
  <1>b. ASSUME NEW v, hs' = [hs EXCEPT ![h] = v],
               v.pc \in {"idle", "count", "purge", "pending", "consume", "target",
                         "github", "insert", "refind", "update", "revoke"},
               \/ v.op \in RedirectOps \cup {"none"}
               \/ v.op = hs[h].op /\ v.at = hs[h].at,
               fs' = fs \/ \E f : fs' = [fs EXCEPT ![h] = f]
        PROVE  Shaped(h)
    BY <1>b DEF Shaped, FlowGoes, Testing
  <1>c. ASSUME Ends(h) PROVE Shaped(h)
    BY <1>a, <1>b, <1>c DEF Ends, Finish
  <1>d. ASSUME NEW pc \in {"count", "purge", "target", "github", "revoke"}, Goto(h, pc),
               fs' = fs \/ \E f : fs' = [fs EXCEPT ![h] = f]
        PROVE  Shaped(h)
    <2> DEFINE v == [hs[h] EXCEPT !.pc = pc]
    <2>1. hs' = [hs EXCEPT ![h] = v]
      BY <1>0, <1>d DEF Goto
    <2>2. v.pc = pc /\ v.op = hs[h].op /\ v.at = hs[h].at
      BY <1>0 DEF Handler
    <2> HIDE DEF v
    <2> QED
      BY <1>b, <1>d, <2>1, <2>2
  <1>e. ASSUME NEW c, Accepted(h, c), fs' = fs PROVE Shaped(h)
    <2> DEFINE pc == IF hs[h].row = 0 THEN "insert" ELSE "refind"
               v == [hs[h] EXCEPT !.cred = c, !.pc = pc]
    <2>1. hs' = [hs EXCEPT ![h] = v]
      BY <1>0, <1>e DEF Accepted
    <2>2. v.pc = pc /\ pc \in {"insert", "refind"} /\ v.op = hs[h].op
          /\ v.at = hs[h].at
      BY <1>0 DEF Handler
    <2> HIDE DEF v, pc
    <2> QED
      BY <1>b, <1>e, <2>1, <2>2
  <1>f. /\ Unstored(h).pc \in {"idle", "revoke"}
        /\ Unstored(h).op = "none" \/ (/\ Unstored(h).op = hs[h].op
                                       /\ Unstored(h).at = hs[h].at)
    <2> DEFINE v == [hs[h] EXCEPT !.pc = "revoke", !.old = hs[h].cred]
    <2>1. v.pc = "revoke" /\ v.op = hs[h].op /\ v.at = hs[h].at
      BY <1>0 DEF Handler
    <2>2. Unstored(h) = v \/ Unstored(h) = Idle
      BY DEF Unstored
    <2> HIDE DEF v
    <2> QED
      BY <1>a, <2>1, <2>2
  <1>2. CASE FlowRequest(h)
    <2>1. ASSUME NEW u, NEW op \in RedirectOps, NEW l, StartCreate(h, op, u, l) PROVE Shaped(h)
      <3> DEFINE v == [Begin(h, op, u) EXCEPT !.pc = "count", !.type = TypeOf(op),
                                              !.label = l]
      <3>1. v.pc = "count" /\ v.op = op
        BY DEF Begin, Idle
      <3>2. hs' = [hs EXCEPT ![h] = v] /\ fs' = [fs EXCEPT ![h] = NoFlow]
        BY <2>1 DEF StartCreate
      <3> HIDE DEF v
      <3> QED
        BY <1>b, <3>1, <3>2
    <2>2. ASSUME NEW u, NEW op \in RedirectOps, NEW r, StartReplace(h, op, u, r) PROVE Shaped(h)
      <3> DEFINE v == [Begin(h, op, u) EXCEPT !.pc = "purge", !.type = TypeOf(op),
                                              !.row = r]
      <3>1. v.pc = "purge" /\ v.op = op
        BY DEF Begin, Idle
      <3>2. hs' = [hs EXCEPT ![h] = v] /\ fs' = [fs EXCEPT ![h] = NoFlow]
        BY <2>2 DEF StartReplace
      <3> HIDE DEF v
      <3> QED
        BY <1>b, <3>1, <3>2
    <2>3. ASSUME NEW u, NEW op \in RedirectOps, NEW s, NEW good, NEW i, Callback(h, op, u, s, good, i)
          PROVE  Shaped(h)
      <3> DEFINE v == [Begin(h, op, u) EXCEPT
                         !.pc = "consume", !.type = TypeOf(op), !.at = now,
                         !.label = states[s].label, !.row = states[s].row]
      <3>1. v.pc = "consume" /\ v.op = op
        BY DEF Begin, Idle
      <3>2. hs' = [hs EXCEPT ![h] = v] /\ \E f : fs' = [fs EXCEPT ![h] = f]
        BY <2>3 DEF Callback
      <3> HIDE DEF v
      <3> QED
        BY <1>b, <3>1, <3>2
    <2> QED
      BY <1>2, <2>1, <2>2, <2>3 DEF FlowRequest, RedirectOps
  <1>3. CASE Purge(h)
    <2> DEFINE v == [hs[h] EXCEPT !.pc = "pending", !.at = now]
    <2>1. hs' = [hs EXCEPT ![h] = v] /\ v.pc = "pending" /\ v.op = hs[h].op
      BY <1>0, <1>3 DEF Purge, Handler
    <2>2. hs[h].op \in RedirectOps
      BY <1>3, FlowSlot DEF Purge, At, FlowHolds, Issuing, RedirectOps
    <2> HIDE DEF v
    <2> QED
      BY <1>3, <1>b, <2>1, <2>2 DEF Purge
  <1>4. CASE Consume(h)
    <2>1. CASE Passes(h)
      <3> DEFINE pc == IF hs[h].row = 0 THEN "count" ELSE "target"
      <3>1. Goto(h, pc) /\ \E f : fs' = [fs EXCEPT ![h] = f]
        BY <1>4, <2>1 DEF Consume
      <3>2. pc \in {"count", "target"}
        OBVIOUS
      <3> HIDE DEF pc
      <3> QED
        BY <1>d, <3>1, <3>2
    <2>2. CASE ~Passes(h)
      BY <1>4, <1>c, <2>2 DEF Consume
    <2> QED
      BY <2>1, <2>2
  <1>5. CASE FindTarget(h)
    BY <1>5, <1>c, <1>d DEF FindTarget
  <1>6. CASE FlowRefused(h) \/ \E c \in Cred : TokenRejected(h, c)
    BY <1>6, <1>c DEF FlowRefused, TokenRejected
  <1>7. ASSUME NEW c \in Cred, TokenAccepted(h, c) PROVE Shaped(h)
    BY <1>7, <1>e DEF TokenAccepted
  <1>8. ASSUME NEW listed, NEW i, InstallationPicked(h, listed, i) PROVE Shaped(h)
    BY <1>8, <1>e DEF InstallationPicked
  <1>9. ASSUME NEW listed, SelectionOffered(h, listed) PROVE Shaped(h)
    <2>1. Goto(h, "purge") /\ fs' = [fs EXCEPT ![h].cands = listed]
      BY <1>9 DEF SelectionOffered
    <2>2. fs' = [fs EXCEPT ![h] = [fs[h] EXCEPT !.cands = listed]]
      BY <1>0, <2>1
    <2> QED
      BY <1>d, <2>1, <2>2
  <1>10. CASE Selected(h)
    BY <1>10, <1>e DEF Selected, rvars
  <1>11. CASE FlowInsert(h)
    <2>1. /\ fs' = [fs EXCEPT ![h] = NoFlow]
          /\ \/ hs' = [hs EXCEPT ![h] = Unstored(h)]
             \/ hs' = [hs EXCEPT ![h] = Idle]
      BY <1>11 DEF FlowInsert, InsertWithinCap, Finish
    <2> QED
      BY <1>a, <1>b, <1>f, <2>1
  <1>12. CASE Refind(h)
    <2> DEFINE old == IF /\ hs[h].type = "oauth_app"
                         /\ Decrypts(rows[hs[h].row].key, rows[hs[h].row].intact)
                        THEN rows[hs[h].row].cred ELSE NoCred
               v == [hs[h] EXCEPT !.pc = "update", !.old = old]
    <2>1. /\ fs' = [fs EXCEPT ![h] = NoFlow]
          /\ hs' = [hs EXCEPT ![h] = IF hs[h].row \notin Owned(hs[h].user)
                                       THEN Unstored(h) ELSE v]
      BY <1>12 DEF Refind
    <2>2. v.pc = "update" /\ v.op = hs[h].op /\ v.at = hs[h].at
      <3> HIDE DEF old
      <3> QED
        BY <1>0 DEF Handler
    <2> HIDE DEF v
    <2> QED
      BY <1>b, <1>f, <2>1, <2>2
  <1>13. CASE FlowUpdate(h)
    <2>1. fs' = fs /\ (Goto(h, "revoke") \/ hs' = [hs EXCEPT ![h] = Idle])
      BY <1>13 DEF FlowUpdate, Finish, rvars
    <2> QED
      BY <1>a, <1>b, <1>d, <2>1
  <1>14. CASE Revoke(h)
    BY <1>14, <1>a, <1>b DEF Revoke, Finish, rvars
  <1>15. CASE SaveState(h)
    BY <1>15, <1>c DEF SaveState
  <1> QED
    BY <1>2, <1>3, <1>4, <1>5, <1>6, <1>7, <1>8, <1>9, <1>10, <1>11, <1>12,
       <1>13,
       <1>14, <1>15 DEF FlowStep

-----------------------------------------------------------------------------
(* The bound on pending states.                                            *)

\* Sets of handlers and of states are finite.
LEMMA Sizes ==
  ASSUME NEW A, A \in SUBSET Slot \/ A \in SUBSET Sid
  PROVE  /\ IsFiniteSet(A) /\ Cardinality(A) \in Nat
         /\ \A B \in SUBSET A : Cardinality(B) <= Cardinality(A)
         /\ \A x \in A : Cardinality(A \ {x}) = Cardinality(A) - 1
  <1>0. 1 \in Int /\ MaxSid \in Int
    BY FlowAssumption
  <1>a. IsFiniteSet(1..MaxSid)
    BY <1>0, FS_Interval
  <1>1. IsFiniteSet(Slot) /\ IsFiniteSet(Sid)
    BY <1>a, FlowAssumption DEF Sid
  <1>2. IsFiniteSet(A)
    BY <1>1, FS_Subset
  <1>3. Cardinality(A) \in Nat
    BY <1>2, FS_CardinalityType
  <1>4. \A B \in SUBSET A : Cardinality(B) <= Cardinality(A)
    BY <1>2, FS_Subset
  <1>5. \A x \in A : Cardinality(A \ {x}) = Cardinality(A) - 1
    BY <1>2, FS_RemoveElement
  <1> QED
    BY <1>2, <1>3, <1>4, <1>5

\* Fewer pending states, and fewer handlers that save and prune.
LEMMA RoomFewer ==
  ASSUME NEW P \in SUBSET Sid, NEW S \in SUBSET Slot, NEW G \in SUBSET Slot,
         NEW I \in SUBSET Slot, NEW F, NEW E, Roomy(P, S, G, F, I),
         NEW Q \in SUBSET P, NEW R \in SUBSET S, NEW H \in SUBSET G,
         \A g \in H : E[g].stale = F[g].stale
  PROVE  Roomy(Q, R, H, E, I)
  <1>0. MaxPending \in Nat \ {0}
    BY FlowAssumption
  <1>1. Cardinality(Q) <= MaxPending - 1 + Cardinality(I \ R)
    <2>1. Cardinality(Q) <= Cardinality(P) /\ Cardinality(Q) \in Nat
          /\ Cardinality(P) \in Nat
      BY Sizes
    <2>2. I \ S \subseteq I \ R /\ I \ R \in SUBSET Slot
      OBVIOUS
    <2>3. Cardinality(I \ S) <= Cardinality(I \ R) /\ Cardinality(I \ R) \in Nat
          /\ Cardinality(I \ S) \in Nat
      BY <2>2, Sizes
    <2> QED
      BY <1>0, <2>1, <2>3 DEF Roomy
  <1>2. ASSUME NEW T \in SUBSET H, T # {}
        PROVE  \E h \in T : Cardinality(Q \ E[h].stale)
                              <= MaxPending - 1 + Cardinality(I \ (R \cup T))
    <2>1. PICK h \in T : Cardinality(P \ F[h].stale)
                           <= MaxPending - 1 + Cardinality(I \ (S \cup T))
      BY <1>2 DEF Roomy
    <2>2. Q \ E[h].stale \subseteq P \ F[h].stale /\ P \ F[h].stale \in SUBSET Sid
          /\ Q \ E[h].stale \in SUBSET Sid
      OBVIOUS
    <2>3. /\ Cardinality(Q \ E[h].stale) <= Cardinality(P \ F[h].stale)
          /\ Cardinality(Q \ E[h].stale) \in Nat /\ Cardinality(P \ F[h].stale) \in Nat
      BY <2>2, Sizes
    <2>4. I \ (S \cup T) \subseteq I \ (R \cup T) /\ I \ (R \cup T) \in SUBSET Slot
      OBVIOUS
    <2>5. /\ Cardinality(I \ (S \cup T)) <= Cardinality(I \ (R \cup T))
          /\ Cardinality(I \ (R \cup T)) \in Nat /\ Cardinality(I \ (S \cup T)) \in Nat
      BY <2>4, Sizes
    <2>6. Cardinality(Q \ E[h].stale) <= MaxPending - 1 + Cardinality(I \ (R \cup T))
      BY <1>0, <2>1, <2>3, <2>5
    <2> QED
      BY <2>6
  <1> QED
    BY <1>1, <1>2 DEF Roomy

\* The cap itself leaves room for everyone.
LEMMA RoomFree ==
  ASSUME NEW P \in SUBSET Sid, NEW S \in SUBSET Slot, NEW G \in SUBSET Slot,
         NEW I \in SUBSET Slot, NEW F, Cardinality(P) <= MaxPending - 1
  PROVE  Roomy(P, S, G, F, I)
  <1>0. MaxPending \in Nat \ {0} /\ Cardinality(P) \in Nat
    BY FlowAssumption, Sizes
  <1>1. \A A \in SUBSET Slot : Cardinality(A) \in Nat
    BY Sizes
  <1>2. Cardinality(P) <= MaxPending - 1 + Cardinality(I \ S)
    <2>1. Cardinality(I \ S) \in Nat
      BY <1>1
    <2> QED
      BY <1>0, <2>1
  <1>3. ASSUME NEW T \in SUBSET G, NEW h \in T
        PROVE  Cardinality(P \ F[h].stale)
                 <= MaxPending - 1 + Cardinality(I \ (S \cup T))
    <2>1. Cardinality(I \ (S \cup T)) \in Nat
      BY <1>1
    <2>2. P \ F[h].stale \in SUBSET P
      OBVIOUS
    <2>3. Cardinality(P \ F[h].stale) <= Cardinality(P)
          /\ Cardinality(P \ F[h].stale) \in Nat
      BY <2>2, Sizes
    <2> QED
      BY <1>0, <2>1, <2>3
  <1> QED
    BY <1>2, <1>3 DEF Roomy

\* prunePending's read: what it will delete leaves room for everyone.
LEMMA RoomRead ==
  ASSUME NEW P \in SUBSET Sid, NEW S \in SUBSET Slot, NEW G \in SUBSET Slot,
         NEW I \in SUBSET Slot, NEW F, NEW E, Roomy(P, S, G, F, I),
         NEW h \in Slot, Cardinality(P \ E[h].stale) <= MaxPending - 1,
         \A g \in G : g # h => E[g].stale = F[g].stale
  PROVE  Roomy(P, S, G \cup {h}, E, I)
  <1>1. Cardinality(P) <= MaxPending - 1 + Cardinality(I \ S)
    BY DEF Roomy
  <1>2. ASSUME NEW T \in SUBSET (G \cup {h}), T # {}
        PROVE  \E g \in T : Cardinality(P \ E[g].stale)
                              <= MaxPending - 1 + Cardinality(I \ (S \cup T))
    <2>1. CASE h \in T
      <3>1. Cardinality(I \ (S \cup T)) \in Nat /\ Cardinality(P \ E[h].stale) \in Nat
            /\ MaxPending \in Nat
        BY Sizes, FlowAssumption
      <3>2. Cardinality(P \ E[h].stale) <= MaxPending - 1 + Cardinality(I \ (S \cup T))
        BY <3>1
      <3> QED
        BY <2>1, <3>2
    <2>2. CASE h \notin T
      <3>1. T \in SUBSET G
        BY <2>2
      <3>2. PICK g \in T : Cardinality(P \ F[g].stale)
                             <= MaxPending - 1 + Cardinality(I \ (S \cup T))
        BY <1>2, <3>1 DEF Roomy
      <3>3. E[g].stale = F[g].stale
        BY <2>2, <3>1
      <3> QED
        BY <3>2, <3>3
    <2> QED
      BY <2>1, <2>2
  <1> QED
    BY <1>1, <1>2 DEF Roomy

\* prunePending's delete: the handler goes on to save.
LEMMA RoomPruned ==
  ASSUME NEW P \in SUBSET Sid, NEW S \in SUBSET Slot, NEW G \in SUBSET Slot,
         NEW I \in SUBSET Slot, NEW F, Roomy(P, S, G, F, I), NEW h \in G
  PROVE  Roomy(P \ F[h].stale, S \cup {h}, G \ {h}, F, I)
  <1> DEFINE Q == P \ F[h].stale
  <1>0. MaxPending \in Nat \ {0} /\ Q \in SUBSET Sid
    BY FlowAssumption
  <1>1. Cardinality(Q) <= MaxPending - 1 + Cardinality(I \ (S \cup {h}))
    <2>1. {h} \in SUBSET G /\ {h} # {}
      OBVIOUS
    <2>2. PICK g \in {h} : Cardinality(P \ F[g].stale)
                             <= MaxPending - 1 + Cardinality(I \ (S \cup {h}))
      BY <2>1 DEF Roomy
    <2> QED
      BY <2>2
  <1>2. ASSUME NEW T \in SUBSET (G \ {h}), T # {}
        PROVE  \E g \in T : Cardinality(Q \ F[g].stale)
                              <= MaxPending - 1 + Cardinality(I \ ((S \cup {h}) \cup T))
    <2> DEFINE U == T \cup {h}
    <2>1. U \in SUBSET G /\ U # {} /\ S \cup U = (S \cup {h}) \cup T
      OBVIOUS
    <2>2. PICK g \in U : Cardinality(P \ F[g].stale)
                           <= MaxPending - 1 + Cardinality(I \ (S \cup U))
      BY <2>1 DEF Roomy
    <2>3. PICK k \in T : g \in T => k = g
      BY <1>2
    <2>4. Q \ F[k].stale \subseteq P \ F[g].stale
      <3>1. CASE g = h
        BY <3>1
      <3>2. CASE g # h
        BY <2>3, <3>2
      <3> QED
        BY <3>1, <3>2
    <2>5. Cardinality(Q \ F[k].stale) <= Cardinality(P \ F[g].stale)
          /\ Cardinality(Q \ F[k].stale) \in Nat /\ Cardinality(P \ F[g].stale) \in Nat
      <3>1. P \ F[g].stale \in SUBSET Sid /\ Q \ F[k].stale \in SUBSET Sid
        BY <1>0
      <3> QED
        BY <2>4, <3>1, Sizes
    <2>6. Cardinality(I \ (S \cup U)) \in Nat
      BY Sizes
    <2>7. Cardinality(Q \ F[k].stale) <= MaxPending - 1 + Cardinality(I \ (S \cup U))
      BY <1>0, <2>2, <2>5, <2>6
    <2> QED
      BY <2>1, <2>7
  <1> QED
    BY <1>1, <1>2 DEF Roomy

\* issue's insert takes the room that was left for it.
LEMMA RoomSaved ==
  ASSUME NEW P \in SUBSET Sid, NEW S \in SUBSET Slot, NEW G \in SUBSET Slot,
         NEW I \in SUBSET Slot, NEW F, NEW E, Roomy(P, S, G, F, I),
         NEW h \in S, h \in I, h \notin G, NEW s \in Sid,
         \A g \in G : E[g].stale = F[g].stale
  PROVE  Roomy(P \cup {s}, S \ {h}, G, E, I)
  <1>0. MaxPending \in Nat \ {0}
    BY FlowAssumption
  <1>a. ASSUME NEW A \in SUBSET Sid
        PROVE  /\ Cardinality(A) \in Nat /\ Cardinality(A \cup {s}) \in Nat
               /\ Cardinality(A \cup {s}) <= Cardinality(A) + 1
    <2>1. IsFiniteSet(A) /\ Cardinality(A) \in Nat
      BY Sizes
    <2>2. CASE s \in A
      <3>1. A \cup {s} = A
        BY <2>2
      <3> QED
        BY <2>1, <3>1, SMTT(40)
    <2>3. CASE s \notin A
      <3>1. Cardinality(A \cup {s}) = Cardinality(A) + 1
        BY <2>1, <2>3, FS_AddElement
      <3> QED
        BY <2>1, <3>1
    <2> QED
      BY <2>2, <2>3
  <1>b. ASSUME NEW T \in SUBSET G
        PROVE  /\ Cardinality(I \ (S \cup T)) \in Nat
               /\ Cardinality(I \ ((S \ {h}) \cup T)) = Cardinality(I \ (S \cup T)) + 1
    <2> DEFINE A == I \ ((S \ {h}) \cup T)
    <2>1. A \in SUBSET Slot /\ h \in A /\ A \ {h} = I \ (S \cup T)
      OBVIOUS
    <2> HIDE DEF A
    <2>2. Cardinality(A \ {h}) = Cardinality(A) - 1 /\ Cardinality(A) \in Nat
          /\ Cardinality(A \ {h}) \in Nat
      BY <2>1, Sizes
    <2> QED
      BY <2>1, <2>2 DEF A
  <1>1. Cardinality(P \cup {s}) <= MaxPending - 1 + Cardinality(I \ (S \ {h}))
    <2>1. {} \in SUBSET G /\ S \cup {} = S /\ (S \ {h}) \cup {} = S \ {h}
      OBVIOUS
    <2>2. /\ Cardinality(I \ S) \in Nat
          /\ Cardinality(I \ (S \ {h})) = Cardinality(I \ S) + 1
      BY <1>b, <2>1
    <2>3. Cardinality(P) <= MaxPending - 1 + Cardinality(I \ S)
      BY DEF Roomy
    <2> QED
      BY <1>0, <1>a, <2>2, <2>3
  <1>2. ASSUME NEW T \in SUBSET G, T # {}
        PROVE  \E g \in T : Cardinality((P \cup {s}) \ E[g].stale)
                              <= MaxPending - 1 + Cardinality(I \ ((S \ {h}) \cup T))
    <2>1. PICK g \in T : Cardinality(P \ F[g].stale)
                           <= MaxPending - 1 + Cardinality(I \ (S \cup T))
      BY <1>2 DEF Roomy
    <2> DEFINE A == P \ F[g].stale
               B == (P \cup {s}) \ E[g].stale
    <2>2. A \in SUBSET Sid /\ A \cup {s} \in SUBSET Sid /\ B \subseteq A \cup {s}
      OBVIOUS
    <2> HIDE DEF A, B
    <2>3. /\ Cardinality(B) <= Cardinality(A \cup {s}) /\ Cardinality(B) \in Nat
      BY <2>2, Sizes
    <2>4. /\ Cardinality(A \cup {s}) <= Cardinality(A) + 1
          /\ Cardinality(A) \in Nat /\ Cardinality(A \cup {s}) \in Nat
      BY <1>a, <2>2
    <2>5. Cardinality(A) <= MaxPending - 1 + Cardinality(I \ (S \cup T))
      BY <2>1 DEF A
    <2>a. /\ Cardinality(I \ (S \cup T)) \in Nat
          /\ Cardinality(I \ ((S \ {h}) \cup T)) = Cardinality(I \ (S \cup T)) + 1
      BY <1>b
    <2>6. Cardinality(B) <= MaxPending - 1 + Cardinality(I \ ((S \ {h}) \cup T))
      BY <1>0, <2>3, <2>4, <2>5, <2>a
    <2> QED
      BY <2>6 DEF B
  <1> QED
    BY <1>1, <1>2 DEF Roomy

\* prunePending keeps fewer states than the cap.
LEMMA FewKept ==
  ASSUME NEW u, NEW t
  PROVE  Cardinality(PendingOf(u, t) \ Prunable(u, t)) <= MaxPending - 1
  <1> DEFINE P == PendingOf(u, t)
             K == P \ Prunable(u, t)
             Above(s) == {q \in P : q > s}
  <1>0. /\ MaxPending \in Nat \ {0} /\ P \in SUBSET Sid /\ K \in SUBSET P
        /\ \A s \in Sid : s \in Nat
    BY FlowAssumption DEF PendingOf, Sid
  <1>1. \A s \in K : ~(Cardinality(Above(s)) >= MaxPending - 1)
    BY DEF Prunable
  <1>2. CASE K = {}
    <2>1. Cardinality(K) = 0
      BY <1>2, FS_EmptySet
    <2> QED
      BY <1>0, <2>1
  <1>3. CASE K # {}
    <2>1. PICK m \in K : \A q \in K : m <= q
      <3>1. K \in SUBSET Nat
        BY <1>0
      <3> QED
        BY <1>3, <3>1, LeastId
    <2> DEFINE A == Above(m)
    <2>2. A \in SUBSET Sid /\ m \notin A /\ K \subseteq A \cup {m}
          /\ A \cup {m} \in SUBSET Sid
      BY <1>0, <2>1
    <2>3. ~(Cardinality(A) >= MaxPending - 1)
      BY <1>1
    <2> HIDE DEF A, K
    <2>4. IsFiniteSet(A) /\ Cardinality(A) \in Nat
      BY <2>2, Sizes
    <2>5. Cardinality(A \cup {m}) = Cardinality(A) + 1
      BY <2>2, <2>4, FS_AddElement
    <2>6. Cardinality(K) <= Cardinality(A \cup {m})
      BY <2>2, Sizes
    <2>7. Cardinality(K) \in Nat
      BY <1>0, Sizes
    <2>8. Cardinality(K) <= MaxPending - 1
      BY <1>0, <2>3, <2>4, <2>5, <2>6, <2>7
    <2> QED
      BY <2>8 DEF K
  <1> QED
    BY <1>2, <1>3

\* The sets that the bound is about.
LEMMA RoomTypes ==
  ASSUME NEW u, NEW t
  PROVE  /\ PendingOf(u, t) \in SUBSET Sid /\ PendingOf(u, t)' \in SUBSET Sid
         /\ Saving(u, t) \in SUBSET Slot /\ Saving(u, t)' \in SUBSET Slot
         /\ Pruning(u, t) \in SUBSET Slot /\ Pruning(u, t)' \in SUBSET Slot
         /\ Issuers(u, t) \in SUBSET Slot
  BY DEF PendingOf, Saving, Pruning, Issuers

\* A handler that issues a state of type t to u is one of the issuers.
LEMMA IssuerOf ==
  ASSUME FlowInv, NEW h \in Slot, hs[h].pc \in {"pending", "prune", "save"}
  PROVE  h \in Issuers(hs[h].user, hs[h].type)
  <1>1. /\ FlowHolds(hs[h], fs[h], states, proven)
        /\ hs[h].op # "none" => <<hs[h].op, hs[h].user>> \in Serves[h]
    BY FlowSlot
  <1>2. hs[h].op \in Issuing /\ hs[h].op \in RedirectOps /\ hs[h].op # "none"
    BY <1>1 DEF FlowHolds, Issuing, RedirectOps
  <1>3. TypeOf(hs[h].op) = hs[h].type /\ <<hs[h].op, hs[h].user>> \in Serves[h]
    BY <1>1, <1>2 DEF FlowHolds
  <1> QED
    BY <1>2, <1>3 DEF Issuers, Issuing

\* A step after which no other handler saves or prunes, and no other state is
\* pending.
LEMMA PendingQuiet ==
  ASSUME PendingInv,
         \A s \in Sid : states'[s].st = "pending" => states'[s] = states[s],
         \A g \in Slot : hs'[g].pc \in {"save", "prune"} =>
                           hs'[g] = hs[g] /\ fs'[g].stale = fs[g].stale
  PROVE  PendingInv'
  <1> SUFFICES ASSUME NEW u \in User, NEW t \in Type
               PROVE  Roomy(PendingOf(u, t)', Saving(u, t)', Pruning(u, t)', fs',
                            Issuers(u, t))
    BY DEF PendingInv, Roomy, Issuers
  <1>1. PendingOf(u, t)' \in SUBSET PendingOf(u, t)
    BY DEF PendingOf
  <1>2. /\ Saving(u, t)' \in SUBSET Saving(u, t)
        /\ Pruning(u, t)' \in SUBSET Pruning(u, t)
        /\ \A g \in Pruning(u, t)' : fs'[g].stale = fs[g].stale
    BY DEF Saving, Pruning, At
  <1>3. Roomy(PendingOf(u, t), Saving(u, t), Pruning(u, t), fs, Issuers(u, t))
    BY DEF PendingInv
  <1> QED
    BY <1>1, <1>2, <1>3, RoomTypes, RoomFewer

\* The steps that are not issue's last three.
LEMMA PendingOthers ==
  ASSUME FlowInv, PendingInv, NEW h \in Slot, FlowRequest(h) \/ FlowStep(h),
         ~ListPending(h), ~Prune(h), ~SaveState(h)
  PROVE  PendingInv'
  <1>0. /\ hs \in [Slot -> Handler] /\ fs \in [Slot -> Flow]
        /\ states \in [Sid -> RedirectState]
    BY DEF FlowInv, FlowTypeOK, TypeOK
  <1>1. \A s \in Sid : states'[s].st = "pending" => states'[s] = states[s]
    <2> DEFINE gone == [NoState EXCEPT !.st = "gone"]
    <2>0. gone.st = "gone"
      BY DEF NoState
    <2>1. CASE Consume(h)
      <3>1. states' = [states EXCEPT ![fs[h].sid] = gone]
        BY <2>1 DEF Consume
      <3> HIDE DEF gone
      <3> QED
        BY <1>0, <2>0, <3>1
    <2>2. CASE ~Consume(h)
      <3>1. \/ states' = states
            \/ \E D : states' = [s \in Sid |-> IF s \in D THEN gone ELSE states[s]]
        BY <2>2, StateWrites
      <3> HIDE DEF gone
      <3> QED
        BY <2>0, <3>1
    <2> QED
      BY <2>1, <2>2
  <1>2. PICK v : /\ hs' = [hs EXCEPT ![h] = v] /\ FlowGoes(h, v)
                 /\ fs' = fs \/ \E f : fs' = [fs EXCEPT ![h] = f]
    BY FlowShape DEF Shaped
  <1>3. \A g \in Slot : g # h => hs'[g] = hs[g] /\ fs'[g] = fs[g]
    BY <1>0, <1>2
  <1>4. hs'[h].pc \notin {"save", "prune"}
    BY <1>0, <1>2 DEF FlowGoes
  <1> QED
    BY <1>1, <1>3, <1>4, PendingQuiet

\* issue's last three.
LEMMA PendingIssue ==
  ASSUME FlowInv, PendingInv, NEW h \in Slot, ListPending(h) \/ Prune(h) \/ SaveState(h)
  PROVE  PendingInv'
  <1> DEFINE x == hs[h]
  <1>0. /\ hs \in [Slot -> Handler] /\ fs \in [Slot -> Flow] /\ x \in Handler
        /\ states \in [Sid -> RedirectState]
        /\ x.pc \in {"pending", "prune", "save"} /\ h \in Issuers(x.user, x.type)
    BY IssuerOf
       DEF FlowInv, FlowTypeOK, TypeOK, ListPending, Prune, SaveState, At
  <1> SUFFICES ASSUME NEW u \in User, NEW t \in Type
               PROVE  Roomy(PendingOf(u, t)', Saving(u, t)', Pruning(u, t)', fs',
                            Issuers(u, t))
    BY DEF PendingInv, Roomy, Issuers
  <1> DEFINE P == PendingOf(u, t)
             S == Saving(u, t)
             G == Pruning(u, t)
             I == Issuers(u, t)
             Q == PendingOf(u, t)'
             V == Saving(u, t)'
             H == Pruning(u, t)'
             ours == x.user = u /\ x.type = t
  <1>1. /\ P \in SUBSET Sid /\ S \in SUBSET Slot /\ G \in SUBSET Slot
        /\ I \in SUBSET Slot /\ Q \in SUBSET Sid /\ V \in SUBSET Slot
        /\ H \in SUBSET Slot /\ Roomy(P, S, G, fs, I)
    BY RoomTypes DEF PendingInv
  <1>2. ASSUME NEW v, hs' = [hs EXCEPT ![h] = v], v.user = x.user, v.type = x.type
        PROVE  /\ \A g \in Slot : g # h => hs'[g] = hs[g]
               /\ hs'[h] = v
               /\ V = (S \ {h}) \cup {g \in {h} : v.pc = "save" /\ ours}
               /\ H = (G \ {h}) \cup {g \in {h} : v.pc = "prune" /\ ours}
    <2>1. (\A g \in Slot : g # h => hs'[g] = hs[g]) /\ hs'[h] = v
      BY <1>0, <1>2
    <2> QED
      BY <1>2, <2>1 DEF Saving, Pruning, At
  <1>3. CASE ListPending(h)
    <2> DEFINE stale == Prunable(x.user, x.type)
               pc == IF stale = {} THEN "save" ELSE "prune"
               v == [x EXCEPT !.pc = pc]
    <2>0. x.pc = "pending" /\ h \notin S /\ h \notin G /\ Q = P
      BY <1>3 DEF ListPending, At, Saving, Pruning, PendingOf
    <2>1. /\ Goto(h, pc) /\ fs' = [fs EXCEPT ![h].stale = stale]
          /\ pc = IF stale = {} THEN "save" ELSE "prune"
      BY <1>3 DEF ListPending
    <2>2. fs'[h].stale = stale /\ \A g \in Slot : g # h => fs'[g] = fs[g]
      BY <1>0, <2>1 DEF Flow
    <2>a. ours => Cardinality(P \ stale) <= MaxPending - 1
      BY FewKept
    <2> HIDE DEF stale, pc
    <2>3. hs' = [hs EXCEPT ![h] = v] /\ v.user = x.user /\ v.type = x.type /\ v.pc = pc
      BY <1>0, <2>1 DEF Goto, Handler
    <2> HIDE DEF v
    <2>4. CASE ~ours
      <3>1. V = S /\ H = G
        BY <1>2, <2>0, <2>3, <2>4, ZenonT(60)
      <3>2. \A g \in H : fs'[g].stale = fs[g].stale
        BY <1>1, <2>0, <2>2, <3>1
      <3> HIDE DEF P, S, G, I, Q, V, H
      <3> QED
        BY <1>1, <2>0, <3>1, <3>2, RoomFewer DEF Q, V, H, I
    <2>5. CASE ours /\ stale = {}
      <3>1. Cardinality(Q) <= MaxPending - 1
        <4>1. P \ stale = P
          BY <2>5
        <4> QED
          BY <2>0, <2>5, <2>a, <4>1
      <3> QED
        BY <1>1, <3>1, RoomFree
    <2>6. CASE ours /\ stale # {}
      <3>1. V = S /\ H = G \cup {h}
        <4>1. v.pc = "prune"
          BY <2>1, <2>3, <2>6
        <4>2. /\ V = (S \ {h}) \cup {g \in {h} : v.pc = "save" /\ ours}
              /\ H = (G \ {h}) \cup {g \in {h} : v.pc = "prune" /\ ours}
          BY <1>2, <2>3
        <4> HIDE DEF S, G, V, H
        <4> QED
          BY <2>0, <2>6, <4>1, <4>2
      <3>2. Cardinality(P \ fs'[h].stale) <= MaxPending - 1
        BY <2>2, <2>6, <2>a
      <3>3. \A g \in G : g # h => fs'[g].stale = fs[g].stale
        BY <1>1, <2>2
      <3> HIDE DEF P, S, G, I
      <3>4. Roomy(P, S, G \cup {h}, fs', I)
        BY <1>1, <3>2, <3>3, RoomRead
      <3> HIDE DEF Q, V, H
      <3> QED
        BY <2>0, <3>1, <3>4 DEF Q, V, H, I
    <2> QED
      BY <2>4, <2>5, <2>6
  <1>4. CASE Prune(h)
    <2> DEFINE v == [x EXCEPT !.pc = "save"]
    <2>0. x.pc = "prune" /\ h \notin S /\ fs' = fs
      BY <1>4 DEF Prune, At, Saving
    <2>1. hs' = [hs EXCEPT ![h] = v] /\ v.user = x.user /\ v.type = x.type
          /\ v.pc = "save"
      BY <1>0, <1>4 DEF Prune, Goto, Handler
    <2> HIDE DEF v
    <2>2. Q = P \ fs[h].stale
      <3> DEFINE gone == [NoState EXCEPT !.st = "gone"]
      <3>1. gone.st = "gone"
        BY DEF NoState
      <3>2. \A s \in Sid : states'[s] = IF s \in fs[h].stale THEN gone ELSE states[s]
        BY <1>4 DEF Prune
      <3> HIDE DEF gone
      <3> QED
        BY <3>1, <3>2 DEF PendingOf
    <2>3. CASE ~ours
      <3>1. V \in SUBSET S /\ H \in SUBSET G /\ Q \in SUBSET P
        BY <1>2, <2>1, <2>2, <2>3
      <3> HIDE DEF P, S, G, I, Q, V, H
      <3>2. Roomy(Q, V, H, fs, I)
        BY <1>1, <3>1, RoomFewer
      <3> QED
        BY <2>0, <3>2 DEF Q, V, H, I
    <2>4. CASE ours
      <3>1. h \in G /\ V = S \cup {h} /\ H = G \ {h}
        <4>1. h \in G
          BY <2>0, <2>4 DEF Pruning, At
        <4> QED
          BY <1>2, <2>0, <2>1, <2>4, <4>1
      <3> HIDE DEF P, S, G, I, Q, V, H
      <3>2. Roomy(P \ fs[h].stale, S \cup {h}, G \ {h}, fs, I)
        BY <1>1, <3>1, RoomPruned
      <3> QED
        BY <2>0, <2>2, <3>1, <3>2 DEF Q, V, H, I
    <2> QED
      BY <2>3, <2>4
  <1>5. CASE SaveState(h)
    <2>0. x.pc = "save" /\ h \notin G /\ NextSid <= MaxSid
      BY <1>5 DEF SaveState, At, Pruning
    <2>1. /\ hs' = [hs EXCEPT ![h] = Idle] /\ fs' = [fs EXCEPT ![h] = NoFlow]
          /\ Idle.pc = "idle"
      BY <1>5 DEF SaveState, Ends, Finish, Idle
    <2>2. /\ \A g \in Slot : g # h => hs'[g] = hs[g] /\ fs'[g] = fs[g]
          /\ hs'[h].pc = "idle"
      BY <1>0, <2>1
    <2>3. V = S \ {h} /\ H = G
      BY <2>0, <2>2 DEF Saving, Pruning, At
    <2>4. \A g \in G : fs'[g].stale = fs[g].stale
      BY <1>1, <2>0, <2>2
    <2>5. /\ NextSid \in Sid /\ states[NextSid].st = "none"
      BY <2>0, NextSidFree
    <2>6. Q = P \cup {s \in {NextSid} : ours}
      <3>1. /\ states'[NextSid].st = "pending" /\ states'[NextSid].user = x.user
            /\ states'[NextSid].type = x.type
            /\ \A s \in Sid : s # NextSid => states'[s] = states[s]
        BY <1>0, <1>5, <2>5 DEF SaveState
      <3> QED
        BY <2>5, <3>1 DEF PendingOf
    <2>7. CASE ~ours
      <3>1. Q = P /\ V \in SUBSET S /\ H = G
        BY <2>3, <2>6, <2>7
      <3> HIDE DEF P, S, G, I, Q, V, H
      <3>2. Roomy(Q, V, H, fs', I)
        BY <1>1, <2>4, <3>1, RoomFewer
      <3> QED
        BY <3>2 DEF Q, V, H, I
    <2>8. CASE ours
      <3>1. h \in S /\ h \in I /\ Q = P \cup {NextSid}
        BY <1>0, <2>0, <2>6, <2>8 DEF Saving, At
      <3> HIDE DEF P, S, G, I, Q, V, H
      <3>2. Roomy(P \cup {NextSid}, S \ {h}, G, fs', I)
        BY <1>1, <2>0, <2>4, <2>5, <3>1, RoomSaved
      <3> QED
        BY <2>3, <3>1, <3>2 DEF Q, V, H, I
    <2> QED
      BY <2>7, <2>8
  <1> QED
    BY <1>3, <1>4, <1>5

\* The pasted-credential operations neither save nor prune.
LEMMA PendingPaste ==
  ASSUME FlowInv, PendingInv, PasteNext
  PROVE  PendingInv'
  <1>0. hs \in [Slot -> Handler] /\ StoreInv /\ Idle.pc = "idle"
    BY DEF FlowInv, FlowTypeOK, TypeOK, Idle
  <1>1. \A s \in Sid : states'[s].st = "pending" => states'[s] = states[s]
    BY DEF PasteNext
  <1>2. ASSUME NEW g \in Slot, hs'[g].pc \in {"save", "prune"}
        PROVE  hs'[g] = hs[g]
    <2>1. ASSUME NEW h \in Slot, Request(h) \/ Step(h) PROVE hs'[g] = hs[g]
      <3>1. PICK v : hs' = [hs EXCEPT ![h] = v] /\ PasteMoves(h, v)
        BY <1>0, <2>1, PasteShape
      <3>2. v.pc \notin {"save", "prune"}
        BY <1>0, <3>1 DEF PasteMoves
      <3> QED
        BY <1>0, <1>2, <3>1, <3>2
    <2>2. CASE Rotate \/ Tick
      BY <2>2 DEF Rotate, RotateStart, RotateRead, RotateRow, Tick
    <2> QED
      BY <2>1, <2>2 DEF PasteNext, Next
  <1>3. \A g \in Slot : hs'[g].pc \in {"save", "prune"} => fs'[g] = fs[g]
    BY <1>0 DEF PasteNext
  <1> QED
    BY <1>1, <1>2, <1>3, PendingQuiet

\* prunePending and issue, with any number of starts at once: the pending
\* states of a user never pass the cap by more than the other handlers that
\* can issue them.
THEOREM PendingsBounded == FlowSpec => []PendingBounded
  <1>1. FlowInit => PendingInv
    <2> SUFFICES ASSUME FlowInit, NEW u \in User, NEW t \in Type
                 PROVE  Roomy(PendingOf(u, t), Saving(u, t), Pruning(u, t), fs,
                              Issuers(u, t))
      BY DEF PendingInv
    <2>1. PendingOf(u, t) = {}
      BY DEF FlowInit, PendingOf, NoState
    <2>2. Cardinality(PendingOf(u, t)) <= MaxPending - 1
      BY <2>1, FS_EmptySet, FlowAssumption
    <2> QED
      BY <2>2, RoomTypes, RoomFree
  <1>2. FlowInv /\ PendingInv /\ [FlowNext]_vars => PendingInv'
    <2> SUFFICES ASSUME FlowInv, PendingInv, [FlowNext]_vars PROVE PendingInv'
      OBVIOUS
    <2>1. CASE UNCHANGED vars
      <3>1. UNCHANGED <<states, hs, fs>>
        BY <2>1 DEF vars, ivars, rvars
      <3> QED
        BY <3>1, PendingQuiet
    <2> QED
      BY <2>1, PendingOthers, PendingIssue, PendingPaste DEF FlowNext, PasteNext
  <1>3. PendingInv => PendingBounded
    <2> SUFFICES ASSUME PendingInv, NEW u \in User, NEW t \in Type
                 PROVE  Cardinality(PendingOf(u, t))
                          < MaxPending + Cardinality(Issuers(u, t))
      BY DEF PendingBounded
    <2>1. Cardinality(PendingOf(u, t))
            <= MaxPending - 1 + Cardinality(Issuers(u, t) \ Saving(u, t))
      BY DEF PendingInv, Roomy
    <2>2. /\ Cardinality(Issuers(u, t) \ Saving(u, t)) <= Cardinality(Issuers(u, t))
          /\ Cardinality(Issuers(u, t)) \in Nat
      BY RoomTypes, Sizes
    <2>3. Cardinality(Issuers(u, t) \ Saving(u, t)) \in Nat
      BY RoomTypes, Sizes
    <2>4. Cardinality(PendingOf(u, t)) \in Nat
      BY RoomTypes, Sizes
    <2> QED
      BY <2>1, <2>2, <2>3, <2>4, FlowAssumption
  <1> QED
    BY <1>1, <1>2, <1>3, FlowInvariant, PTL DEF FlowSpec

-----------------------------------------------------------------------------
(* Tests keep their distance, with the flows.                              *)

\* A step of the flows claims no row, and writes only the time of now.
LEMMA TestFlow ==
  ASSUME FlowInv, TestInv, NEW h \in Slot, FlowRequest(h) \/ FlowStep(h)
  PROVE  TestInv' /\ UNCHANGED claimed
  <1>0. /\ StoreInv /\ hs[h] \in Handler /\ rows \in [Id -> Integration]
        /\ TestHolds(hs[h], rows, claimed, now) /\ hs \in [Slot -> Handler] /\ TypeOK
        /\ HandlerHolds(hs[h], rows)
    BY DEF FlowInv, StoreInv, TypeOK, TestInv
  <1>1. UNCHANGED <<claimed, now>>
    <2>1. CASE FlowRequest(h)
      BY <2>1, ZenonT(60) DEF FlowRequest, StartCreate, StartReplace, Callback
    <2>2. CASE FlowStep(h)
      BY <2>2, Zenon
         DEF FlowStep, Purge, ListPending, Prune, SaveState, Consume, FindTarget,
                  FlowRefused, TokenRejected, TokenAccepted, InstallationPicked,
                  SelectionOffered, Selected, FlowInsert, Refind, FlowUpdate, Revoke
    <2> QED
      BY <2>1, <2>2, ZenonT(60)
  <1>2. TestedMoves
    <2>1. CASE FlowInsert(h)
      <3>1. NextId \in Id /\ rows[NextId].st = "none"
        BY <1>0, <2>1, NextIdFree DEF FlowInsert, InsertWithinCap
      <3>2. Inserted(hs[h]).tested = now
        BY DEF Inserted, Sealed, NoIntegration
      <3>3. CASE rows' = [rows EXCEPT ![NextId] = Inserted(hs[h])]
        <4>1. \A q \in Id : rows'[q] = IF q = NextId THEN Inserted(hs[h]) ELSE rows[q]
          BY <1>0, <3>1, <3>3
        <4>2. \A q \in Id : q # NextId /\ rows'[q].st = "live" =>
                              rows[q].st = "live" /\ rows'[q].tested = rows[q].tested
          BY <4>1
        <4> QED
          BY <3>1, <3>2, <4>1, <4>2 DEF TestedMoves
      <3>4. CASE rows' = rows
        BY <1>0, <3>4, TestedWrites
      <3> QED
        BY <2>1, <3>3, <3>4 DEF FlowInsert, InsertWithinCap
    <2>2. CASE ~FlowInsert(h)
      <3> DEFINE q == hs[h].row
                 v == Sealed(rows[q], hs[h].cred)
      <3>1. rows' = rows \/ UpdateOwned(q, v)
        BY <2>2, FlowWrites
      <3>2. q \in Live => v.tested = now
        BY <1>0 DEF Live, Integration, Sealed
      <3> HIDE DEF q, v
      <3> QED
        BY <1>0, <3>1, <3>2, TestedWrites
    <2> QED
      BY <2>1, <2>2
  <1>a. ASSUME NEW v, hs' = [hs EXCEPT ![h] = v],
               v.pc \notin {"claim"} \cup Testing,
               \/ v.op \in RedirectOps \cup {"none"}
               \/ v.op = hs[h].op /\ v.at = hs[h].at
        PROVE  TestInv'
    <2>1. "test" \notin RedirectOps \cup {"none"}
      BY DEF RedirectOps
    <2>2. TestHolds(v, rows', claimed, now)
      BY <1>0, <1>a, <2>1 DEF TestHolds
    <2> QED
      BY <1>0, <1>1, <1>2, <1>a, <2>2, TestMoves
  <1>3. CASE ListPending(h) \/ Prune(h)
    <2>1. PICK pc \in {"save", "prune"} : Goto(h, pc)
      BY <1>3 DEF ListPending, Prune
    <2> DEFINE v == [hs[h] EXCEPT !.pc = pc]
    <2>2. hs' = [hs EXCEPT ![h] = v]
      BY <1>0, <2>1 DEF Goto
    <2>3. v.pc = pc /\ v.op = hs[h].op /\ v.at = hs[h].at
      BY <1>0 DEF Handler
    <2> HIDE DEF v
    <2>4. pc \notin {"claim"} \cup Testing
      BY <2>1 DEF Testing
    <2> QED
      BY <1>1, <1>a, <2>2, <2>3, <2>4
  <1>4. CASE ~ListPending(h) /\ ~Prune(h)
    BY <1>1, <1>4, <1>a, FlowShape DEF Shaped, FlowGoes
  <1> QED
    BY <1>3, <1>4

\* claim and record, while callbacks replace the credentials under test: two
\* tests of one integration are more than a cooldown apart.
THEOREM FlowTestsAreSpaced == FlowSpec => TestsSpaced
  <1>0. FlowInv => StoreInv
    BY DEF FlowInv
  <1>1. FlowInit => TestInv
    BY InitTests DEF FlowInit
  <1>2. FlowInv /\ TestInv /\ [FlowNext]_vars =>
          /\ TestInv'
          /\ [\A r \in Id : claimed'[r] # claimed[r] =>
                              claimed'[r] > claimed[r] + Cooldown]_ivars
    BY <1>0, TestFlow, TestNext DEF FlowNext, vars
  <1> QED
    BY <1>1, <1>2, FlowInvariant, PTL DEF FlowSpec, TestsSpaced

-----------------------------------------------------------------------------
(* Tokens are accounted for.                                               *)

\* The hypothesis: while an OAuth callback is between reading again the row
\* that it replaces and writing it, nobody else replaces or deletes that row.
ReplacesApart ==
    \A h, g \in Slot :
        /\ At(h, "update") /\ hs[h].type = "oauth_app"
        /\ hs[g].pc \in {"update", "cleanup", "delete"}
        /\ hs[g].row = hs[h].row
        => g = h

\* Of a row y: its secret is one that GitHub has accepted, and a token T of a
\* callback is stored in an OAuth row that decrypts.
RowTokens(y, T, I) ==
    y.st = "live" =>
      /\ y.cred \in I \cup Installation
      /\ y.cred \in T => y.type = "oauth_app" /\ y.key = Current /\ y.intact

\* Of a handler x: a token on its way to a row is that of an OAuth callback; a
\* replace has read the token it overwrites, and a delete has read the one it
\* deletes and then asked for its revocation.
HandlerTokens(x, R, T, D, I) ==
    /\ x.pc \in {"insert", "refind", "update"} =>
         /\ x.cred \in I \cup Installation
         /\ x.cred \in T => x.type = "oauth_app"
    /\ x.pc = "update" /\ x.type = "oauth_app" =>
         /\ Lives(R, x.row)
         /\ R[x.row].cred \in T => x.old = R[x.row].cred
    /\ x.pc = "cleanup" /\ Lives(R, x.row) /\ R[x.row].cred \in T =>
         /\ x.cred = R[x.row].cred /\ x.type = "oauth_app"
         /\ Decrypts(x.key, x.intact)
    /\ x.pc = "delete" /\ Lives(R, x.row) /\ R[x.row].cred \in T =>
         R[x.row].cred \in D

\* A handler with a token that it will store or revoke.
Carries(x, c) ==
    \/ x.pc \in {"insert", "refind", "update"} /\ x.cred = c
    \/ x.pc = "revoke" /\ x.old = c

Stored(R, c) == \E r \in Id : Lives(R, r) /\ R[r].cred = c

TokenInv ==
    /\ tokens \subseteq issued
    /\ \A r \in Id : RowTokens(rows[r], tokens, issued)
    /\ \A h \in Slot : HandlerTokens(hs[h], rows, tokens, dropped, issued)
    /\ \A c \in tokens : \/ c \in dropped
                         \/ Stored(rows, c)
                         \/ \E h \in Slot : Carries(hs[h], c)

\* What a handler has of its row and token survives a step after which the row
\* is as it was, or has a secret that is no token.
LEMMA HandlerTokensKept ==
  ASSUME NEW x, NEW R, NEW S, NEW T, NEW U, NEW D, NEW E, NEW I, NEW J,
         HandlerTokens(x, R, T, D, I), I \subseteq J, D \subseteq E,
         \A c \in U : c \in T \/ c \notin I \cup Installation,
         Lives(R, x.row) => R[x.row].cred \in I \cup Installation,
         Lives(S, x.row) =>
           \/ Lives(R, x.row) /\ S[x.row].cred = R[x.row].cred
           \/ S[x.row].cred \notin U,
         x.pc = "update" /\ x.type = "oauth_app" =>
           Lives(S, x.row) /\ S[x.row].cred = R[x.row].cred
  PROVE  HandlerTokens(x, S, U, E, J)
  BY DEF HandlerTokens

\* A step of one handler, put together.
LEMMA TokenMoves ==
  ASSUME FlowInv, TokenInv, NEW h \in Slot, NEW v, hs' = [hs EXCEPT ![h] = v],
         issued \subseteq issued', dropped \subseteq dropped',
         tokens' \subseteq issued',
         \A c \in tokens' : \/ c \in tokens
                            \/ /\ c \notin issued \cup Installation
                               /\ Carries(v, c) \/ c \in dropped',
         \A r \in Id : RowTokens(rows'[r], tokens', issued'),
         HandlerTokens(v, rows', tokens', dropped', issued'),
         \A g \in Slot \ {h} :
           /\ Lives(rows', hs[g].row) =>
                \/ /\ Lives(rows, hs[g].row)
                   /\ rows'[hs[g].row].cred = rows[hs[g].row].cred
                \/ rows'[hs[g].row].cred \notin tokens'
                \/ hs[g].pc \notin {"update", "cleanup", "delete"}
           /\ At(g, "update") /\ hs[g].type = "oauth_app" =>
                /\ Lives(rows', hs[g].row)
                /\ rows'[hs[g].row].cred = rows[hs[g].row].cred,
         \A c \in tokens :
           Stored(rows, c) \/ Carries(hs[h], c) =>
             c \in dropped' \/ Stored(rows', c) \/ Carries(v, c)
  PROVE  TokenInv'
  <1>0. /\ hs \in [Slot -> Handler]
        /\ \A g \in Slot : hs'[g] = IF g = h THEN v ELSE hs[g]
    BY DEF FlowInv, FlowTypeOK, TypeOK
  <1>1. \A g \in Slot : HandlerTokens(hs'[g], rows', tokens', dropped', issued')
    <2> SUFFICES ASSUME NEW g \in Slot \ {h}
                 PROVE  HandlerTokens(hs[g], rows', tokens', dropped', issued')
      BY <1>0
    <2>1. HandlerTokens(hs[g], rows, tokens, dropped, issued)
      BY DEF TokenInv
    <2>2. Lives(rows, hs[g].row) => rows[hs[g].row].cred \in issued \cup Installation
      BY DEF TokenInv, RowTokens, Lives
    <2>3. CASE hs[g].pc \in {"update", "cleanup", "delete"}
      BY <2>1, <2>2, <2>3, HandlerTokensKept DEF At
    <2>4. CASE hs[g].pc \notin {"update", "cleanup", "delete"}
      BY <2>1, <2>4 DEF HandlerTokens
    <2> QED
      BY <2>3, <2>4
  <1>2. ASSUME NEW c \in tokens'
        PROVE  \/ c \in dropped' \/ Stored(rows', c)
               \/ \E g \in Slot : Carries(hs'[g], c)
    <2>1. CASE c \notin tokens
      BY <1>0, <2>1
    <2>2. CASE c \in tokens
      <3>1. ASSUME NEW g \in Slot \ {h}, Carries(hs[g], c)
            PROVE  Carries(hs'[g], c)
        BY <1>0, <3>1
      <3> QED
        BY <1>0, <2>2, <3>1 DEF TokenInv
    <2> QED
      BY <2>1, <2>2
  <1>3. \A r \in Id : RowTokens(rows[r], tokens, issued)'
    BY DEF RowTokens
  <1>4. \A g \in Slot : HandlerTokens(hs[g], rows, tokens, dropped, issued)'
    BY <1>1 DEF HandlerTokens, Lives, Decrypts
  <1>5. \A c \in tokens' : \/ c \in dropped' \/ Stored(rows, c)'
                           \/ \E g \in Slot : Carries(hs[g], c)'
    BY <1>2 DEF Stored, Lives, Carries
  <1> QED
    BY <1>3, <1>4, <1>5 DEF TokenInv

\* A step after which every row has the secret it had, if still encrypted as
\* it was or under the current key.
Steady ==
    \A r \in Id :
      /\ Lives(rows', r) <=> Lives(rows, r)
      /\ Lives(rows, r) =>
           /\ rows'[r].cred = rows[r].cred /\ rows'[r].type = rows[r].type
           /\ \/ rows'[r].key = rows[r].key /\ rows'[r].intact = rows[r].intact
              \/ rows'[r].key = Current /\ rows'[r].intact

\* The writes of labels, statuses and test times, and the re-encryptions.
LEMMA SteadyRows ==
  ASSUME StoreInv,
         \/ rows' = rows
         \/ \E q, v : /\ UpdateOwned(q, v)
                      /\ q \in Live =>
                           /\ v.st = "live" /\ v.cred = rows[q].cred
                           /\ v.type = rows[q].type /\ v.key = rows[q].key
                           /\ v.intact = rows[q].intact
         \/ \E q, c, k : /\ RewriteSecret(q, c, k)
                         /\ q \in Live /\ rows[q].key = k => c = rows[q].cred
  PROVE  Steady
  <1>0. rows \in [Id -> Integration]
    BY DEF StoreInv, TypeOK
  <1>1. CASE rows' = rows
    BY <1>1 DEF Steady, Lives
  <1>2. ASSUME NEW q, NEW v, UpdateOwned(q, v),
               q \in Live => /\ v.st = "live" /\ v.cred = rows[q].cred
                             /\ v.type = rows[q].type /\ v.key = rows[q].key
                             /\ v.intact = rows[q].intact
        PROVE  Steady
    BY <1>0, <1>1, <1>2 DEF UpdateOwned, Steady, Lives, Live
  <1>3. ASSUME NEW q, NEW c, NEW k, RewriteSecret(q, c, k),
               q \in Live /\ rows[q].key = k => c = rows[q].cred
        PROVE  Steady
    <2>1. CASE ~(q \in Live /\ rows[q].key = k)
      BY <1>1, <1>3, <2>1 DEF RewriteSecret
    <2>2. CASE q \in Live /\ rows[q].key = k
      <3> DEFINE w == [rows[q] EXCEPT !.cred = c, !.key = Current, !.intact = TRUE]
      <3>1. q \in Id /\ rows[q] \in Integration /\ c = rows[q].cred
            /\ rows[q].st = "live"
        BY <1>0, <1>3, <2>2 DEF Live
      <3>2. rows' = [rows EXCEPT ![q] = w]
        BY <1>0, <1>3, <2>2, <3>1 DEF RewriteSecret
      <3>3. /\ w.st = "live" /\ w.cred = rows[q].cred /\ w.type = rows[q].type
            /\ w.key = Current /\ w.intact
        BY <3>1 DEF Integration
      <3> HIDE DEF w
      <3>4. \A r \in Id : rows'[r] = IF r = q THEN w ELSE rows[r]
        BY <1>0, <3>2
      <3> QED
        BY <3>1, <3>3, <3>4 DEF Steady, Lives
    <2> QED
      BY <2>1, <2>2
  <1> QED
    BY <1>1, <1>2, <1>3

\* A steady step of one handler that exchanges no code.
LEMMA SteadyMoves ==
  ASSUME FlowInv, TokenInv, Steady, NEW h \in Slot, NEW v,
         hs' = [hs EXCEPT ![h] = v], tokens' = tokens,
         issued \subseteq issued', dropped \subseteq dropped',
         HandlerTokens(v, rows', tokens, dropped', issued'),
         \A c \in tokens : Carries(hs[h], c) => Carries(v, c) \/ c \in dropped'
  PROVE  TokenInv'
  <1>1. \A r \in Id : RowTokens(rows'[r], tokens', issued')
    BY DEF TokenInv, RowTokens, Steady, Lives
  <1>2. ASSUME NEW g \in Slot
        PROVE  /\ Lives(rows', hs[g].row) =>
                    /\ Lives(rows, hs[g].row)
                    /\ rows'[hs[g].row].cred = rows[hs[g].row].cred
               /\ At(g, "update") /\ hs[g].type = "oauth_app" =>
                    /\ Lives(rows', hs[g].row)
                    /\ rows'[hs[g].row].cred = rows[hs[g].row].cred
    <2>1. hs[g].row \in Id =>
            /\ Lives(rows', hs[g].row) <=> Lives(rows, hs[g].row)
            /\ Lives(rows, hs[g].row) =>
                 rows'[hs[g].row].cred = rows[hs[g].row].cred
      BY DEF Steady
    <2>2. At(g, "update") /\ hs[g].type = "oauth_app" => Lives(rows, hs[g].row)
      BY DEF TokenInv, HandlerTokens, At
    <2> QED
      BY <2>1, <2>2 DEF Lives
  <1>3. \A c \in tokens : Stored(rows, c) => Stored(rows', c)
    BY DEF Stored, Steady
  <1> QED
    BY <1>1, <1>2, <1>3, TokenMoves DEF TokenInv

\* The places of a handler that has a token to store or a row to delete.
Keeping == {"insert", "refind", "update", "cleanup", "delete"}

\* A steady step outside of them.
LEMMA PlainMoves ==
  ASSUME FlowInv, TokenInv, Steady, NEW h \in Slot, NEW v,
         hs' = [hs EXCEPT ![h] = v], UNCHANGED <<tokens, issued, dropped>>,
         v.pc \notin Keeping, hs[h].pc \notin Keeping \cup {"revoke"}
  PROVE  TokenInv'
  <1>1. HandlerTokens(v, rows', tokens, dropped', issued')
    BY DEF HandlerTokens, Keeping
  <1>2. \A c : ~Carries(hs[h], c)
    BY DEF Carries, Keeping
  <1> QED
    BY <1>1, <1>2, SteadyMoves

\* One that moves its handler on, and one that ends it.
LEMMA PlainGoto ==
  ASSUME FlowInv, TokenInv, Steady, NEW h \in Slot, NEW pc, pc \notin Keeping,
         Goto(h, pc) \/ Finish(h), UNCHANGED <<tokens, issued, dropped>>,
         hs[h].pc \notin Keeping \cup {"revoke"}
  PROVE  TokenInv'
  <1>0. hs \in [Slot -> Handler]
    BY DEF FlowInv, FlowTypeOK, TypeOK
  <1>1. CASE Goto(h, pc)
    <2>1. /\ hs' = [hs EXCEPT ![h] = [hs[h] EXCEPT !.pc = pc]]
          /\ [hs[h] EXCEPT !.pc = pc].pc = pc
      BY <1>0, <1>1 DEF Goto, Handler
    <2> QED
      BY <2>1, PlainMoves
  <1>2. CASE Finish(h)
    <2>1. Idle.pc \notin Keeping
      BY DEF Idle, Keeping
    <2> QED
      BY <1>2, <2>1, PlainMoves DEF Finish
  <1> QED
    BY <1>1, <1>2

\* The steps of the pasted credentials that store and delete nothing.
LEMMA PlainPaste ==
  ASSUME FlowInv, TokenInv, NEW h \in Slot, tokens' = tokens,
         \/ \E u \in User : \/ \E l \in Label : Create(h, u, l)
                            \/ \E r \in Id : \/ \E l \in Label : Rename(h, u, r, l)
                                             \/ Replace(h, u, r)
                                             \/ Test(h, u, r)
         \/ CountOwned(h) \/ AssertLabelFree(h) \/ WriteLabel(h)
         \/ ValidateRefused(h) \/ Claim(h) \/ MarkUndecryptable(h)
         \/ Reencrypt(h) \/ \E o \in Outcome : Probe(h, o)
         \/ Record(h)
  PROVE  TokenInv'
  <1>0. /\ StoreInv /\ hs \in [Slot -> Handler] /\ hs[h] \in Handler
        /\ rows \in [Id -> Integration] /\ HandlerHolds(hs[h], rows)
    BY DEF FlowInv, StoreInv, TypeOK
  <1>1. ASSUME NEW u \in User, NEW l \in Label, Create(h, u, l)
        PROVE  TokenInv'
    <2> DEFINE v == [Begin(h, "create", u) EXCEPT !.pc = "count", !.label = l]
    <2>1. v.pc = "count"
      BY DEF Begin, Idle
    <2>2. hs' = [hs EXCEPT ![h] = v] /\ rows' = rows
      BY <1>1 DEF Create
    <2> HIDE DEF v
    <2> QED
      BY <1>0, <1>1, <2>1, <2>2, PlainMoves, SteadyRows
         DEF Create, Accepts, At, Keeping
  <1>2. ASSUME NEW u \in User, NEW r \in Id, NEW l \in Label, Rename(h, u, r, l)
        PROVE  TokenInv'
    <2> DEFINE v == [Begin(h, "rename", u) EXCEPT !.pc = "label", !.row = r,
                                                  !.label = l]
    <2>1. v.pc = "label"
      BY DEF Begin, Idle
    <2>2. hs' = [hs EXCEPT ![h] = v] /\ rows' = rows
      BY <1>2 DEF Rename
    <2> HIDE DEF v
    <2> QED
      BY <1>0, <1>2, <2>1, <2>2, PlainMoves, SteadyRows
         DEF Rename, Accepts, At, Keeping
  <1>3. ASSUME NEW u \in User, NEW r \in Id, Replace(h, u, r)
        PROVE  TokenInv'
    <2> DEFINE v == [Begin(h, "replace", u) EXCEPT !.pc = "github", !.row = r]
    <2>1. v.pc = "github"
      BY DEF Begin, Idle
    <2>2. hs' = [hs EXCEPT ![h] = v] /\ rows' = rows
      BY <1>3 DEF Replace
    <2> HIDE DEF v
    <2> QED
      BY <1>0, <1>3, <2>1, <2>2, PlainMoves, SteadyRows
         DEF Replace, Accepts, At, Keeping
  <1>4. ASSUME NEW u \in User, NEW r \in Id, Test(h, u, r)
        PROVE  TokenInv'
    <2> DEFINE v == [Begin(h, "test", u) EXCEPT
                       !.pc = "claim", !.row = r, !.at = now, !.cred = rows[r].cred,
                       !.key = rows[r].key, !.intact = rows[r].intact]
    <2>1. v.pc = "claim"
      BY DEF Begin, Idle
    <2>2. hs' = [hs EXCEPT ![h] = v] /\ rows' = rows
      BY <1>4 DEF Test
    <2> HIDE DEF v
    <2> QED
      BY <1>0, <1>4, <2>1, <2>2, PlainMoves, SteadyRows
         DEF Test, Accepts, At, Keeping
  <1>5. CASE CountOwned(h)
    BY <1>0, <1>5, SteadyRows, PlainGoto DEF CountOwned, At, Keeping
  <1>6. CASE AssertLabelFree(h)
    <2>1. AfterLabel(hs[h].op) \in {"rename", "purge", "github"}
      BY DEF AfterLabel
    <2> QED
      BY <1>0, <1>6, <2>1, SteadyRows, PlainGoto DEF AssertLabelFree, At, Keeping
  <1>7. CASE WriteLabel(h)
    <2> DEFINE q == hs[h].row
               v == [rows[q] EXCEPT !.label = hs[h].label]
    <2>1. q \in Live => /\ v.st = "live" /\ v.cred = rows[q].cred
                        /\ v.type = rows[q].type /\ v.key = rows[q].key
                        /\ v.intact = rows[q].intact
      BY <1>0 DEF Live, Integration
    <2>2. rows' = rows \/ UpdateOwned(q, v)
      BY <1>7 DEF WriteLabel
    <2> HIDE DEF q, v
    <2>3. Steady
      BY <1>0, <2>1, <2>2, SteadyRows
    <2> QED
      BY <1>7, <2>3, PlainGoto DEF WriteLabel, At, Keeping
  <1>8. CASE ValidateRefused(h)
    BY <1>0, <1>8, SteadyRows, PlainGoto DEF ValidateRefused, At, Keeping
  <1>9. CASE Claim(h)
    <2> DEFINE q == hs[h].row
               v == [rows[q] EXCEPT !.tested = hs[h].at]
    <2>1. q \in Live => /\ v.st = "live" /\ v.cred = rows[q].cred
                        /\ v.type = rows[q].type /\ v.key = rows[q].key
                        /\ v.intact = rows[q].intact
      BY <1>0 DEF Live, Integration
    <2>2. rows' = rows \/ UpdateOwned(q, v)
      BY <1>0, <1>9 DEF Claim, UpdateOwned
    <2> HIDE DEF q, v
    <2>3. Steady
      BY <1>0, <2>1, <2>2, SteadyRows
    <2>4. AfterClaim(hs[h]) \in {"unreadable", "reencrypt", "probe"}
      BY DEF AfterClaim
    <2> QED
      BY <1>9, <2>3, <2>4, PlainGoto DEF Claim, At, Keeping
  <1>10. CASE MarkUndecryptable(h)
    <2> DEFINE q == hs[h].row
               v == [rows[q] EXCEPT !.status = "undecryptable", !.tested = hs[h].at]
    <2>1. q \in Live => /\ v.st = "live" /\ v.cred = rows[q].cred
                        /\ v.type = rows[q].type /\ v.key = rows[q].key
                        /\ v.intact = rows[q].intact
      BY <1>0 DEF Live, Integration
    <2>2. UpdateOwned(q, v)
      BY <1>10 DEF MarkUndecryptable
    <2> HIDE DEF q, v
    <2>3. Steady
      BY <1>0, <2>1, <2>2, SteadyRows
    <2> QED
      BY <1>10, <2>3, PlainGoto DEF MarkUndecryptable, At, Keeping
  <1>11. CASE Reencrypt(h)
    <2>1. hs[h].row \in Live /\ rows[hs[h].row].key = hs[h].key =>
            hs[h].cred = rows[hs[h].row].cred
      BY <1>0, <1>11 DEF Reencrypt, At, HandlerHolds, Live, Lives
    <2>2. Steady
      BY <1>0, <1>11, <2>1, SteadyRows DEF Reencrypt
    <2> QED
      BY <1>11, <2>2, PlainGoto DEF Reencrypt, At, Keeping
  <1>12. ASSUME NEW o \in Outcome, Probe(h, o) PROVE TokenInv'
    <2> DEFINE v == [hs[h] EXCEPT !.pc = "record", !.outcome = o]
    <2>1. hs' = [hs EXCEPT ![h] = v] /\ v.pc = "record"
      BY <1>0, <1>12 DEF Probe, Handler
    <2> HIDE DEF v
    <2> QED
      BY <1>0, <1>12, <2>1, SteadyRows, PlainMoves DEF Probe, At, Keeping
  <1>13. CASE Record(h)
    <2> DEFINE q == hs[h].row
               v == [rows[q] EXCEPT !.tested = hs[h].at, !.status =
                       IF hs[h].outcome = "transient" THEN rows[q].status
                                                      ELSE hs[h].outcome]
    <2>1. q \in Live => /\ v.st = "live" /\ v.cred = rows[q].cred
                        /\ v.type = rows[q].type /\ v.key = rows[q].key
                        /\ v.intact = rows[q].intact
      BY <1>0 DEF Live, Integration
    <2>2. UpdateOwned(q, v)
      BY <1>13 DEF Record
    <2> HIDE DEF q, v
    <2>3. Steady
      BY <1>0, <2>1, <2>2, SteadyRows
    <2> QED
      BY <1>13, <2>3, PlainGoto DEF Record, At, Keeping
  <1> QED
    BY <1>1, <1>2, <1>3, <1>4, <1>5, <1>6, <1>7, <1>8, <1>9, <1>10, <1>11,
       <1>12, <1>13

\* The steps of the flows that neither exchange a code nor store anything.
LEMMA PlainFlow ==
  ASSUME FlowInv, TokenInv, NEW h \in Slot,
         \/ FlowRequest(h)
         \/ Purge(h) \/ ListPending(h) \/ Prune(h) \/ SaveState(h)
         \/ Consume(h) \/ FindTarget(h) \/ FlowRefused(h)
         \/ \E listed \in SUBSET Installation : SelectionOffered(h, listed)
  PROVE  TokenInv'
  <1>0. /\ StoreInv /\ hs \in [Slot -> Handler] /\ hs[h] \in Handler
    BY DEF FlowInv, StoreInv, TypeOK
  <1>1. Steady \/ rows' # rows
    BY <1>0, SteadyRows
  <1>2. CASE FlowRequest(h)
    <2>1. ASSUME NEW u, NEW op, NEW l, StartCreate(h, op, u, l) PROVE TokenInv'
      <3> DEFINE v == [Begin(h, op, u) EXCEPT !.pc = "count", !.type = TypeOf(op),
                                              !.label = l]
      <3>1. v.pc = "count"
        BY DEF Begin, Idle
      <3>2. hs' = [hs EXCEPT ![h] = v]
        BY <2>1 DEF StartCreate
      <3> HIDE DEF v
      <3> QED
        BY <1>1, <2>1, <3>1, <3>2, PlainMoves DEF StartCreate, Accepts, At, Keeping
    <2>2. ASSUME NEW u, NEW op, NEW r, StartReplace(h, op, u, r) PROVE TokenInv'
      <3> DEFINE v == [Begin(h, op, u) EXCEPT !.pc = "purge", !.type = TypeOf(op),
                                              !.row = r]
      <3>1. v.pc = "purge"
        BY DEF Begin, Idle
      <3>2. hs' = [hs EXCEPT ![h] = v]
        BY <2>2 DEF StartReplace
      <3> HIDE DEF v
      <3> QED
        BY <1>1, <2>2, <3>1, <3>2, PlainMoves DEF StartReplace, Accepts, At, Keeping
    <2>3. ASSUME NEW u, NEW op, NEW s, NEW good, NEW i, Callback(h, op, u, s, good, i)
          PROVE  TokenInv'
      <3> DEFINE v == [Begin(h, op, u) EXCEPT
                         !.pc = "consume", !.type = TypeOf(op), !.at = now,
                         !.label = states[s].label, !.row = states[s].row]
      <3>1. v.pc = "consume"
        BY DEF Begin, Idle
      <3>2. hs' = [hs EXCEPT ![h] = v]
        BY <2>3 DEF Callback
      <3> HIDE DEF v
      <3> QED
        BY <1>1, <2>3, <3>1, <3>2, PlainMoves DEF Callback, Accepts, At, Keeping
    <2> QED
      BY <1>2, <2>1, <2>2, <2>3 DEF FlowRequest
  <1>3. CASE Purge(h)
    <2> DEFINE v == [hs[h] EXCEPT !.pc = "pending", !.at = now]
    <2>1. hs' = [hs EXCEPT ![h] = v] /\ v.pc = "pending"
      BY <1>0, <1>3 DEF Purge, Handler
    <2> HIDE DEF v
    <2> QED
      BY <1>1, <1>3, <2>1, PlainMoves DEF Purge, At, Keeping
  <1>4. CASE ListPending(h)
    <2>1. Goto(h, "save") \/ Goto(h, "prune")
      BY <1>4 DEF ListPending
    <2> QED
      BY <1>1, <1>4, <2>1, PlainGoto DEF ListPending, At, Keeping
  <1>5. CASE Prune(h)
    BY <1>1, <1>5, PlainGoto DEF Prune, At, Keeping
  <1>6. CASE SaveState(h)
    BY <1>1, <1>6, PlainGoto DEF SaveState, Ends, At, Keeping
  <1>7. CASE Consume(h)
    <2>1. Goto(h, "count") \/ Goto(h, "target") \/ Finish(h)
      BY <1>7 DEF Consume, Ends
    <2> QED
      BY <1>1, <1>7, <2>1, PlainGoto DEF Consume, At, Keeping
  <1>8. CASE FindTarget(h)
    <2>1. Goto(h, "github") \/ Finish(h)
      BY <1>8 DEF FindTarget, Ends
    <2> QED
      BY <1>1, <1>8, <2>1, PlainGoto DEF FindTarget, At, Keeping
  <1>9. CASE FlowRefused(h)
    BY <1>1, <1>9, PlainGoto DEF FlowRefused, Ends, At, Keeping
  <1>10. ASSUME NEW listed, SelectionOffered(h, listed) PROVE TokenInv'
    BY <1>1, <1>10, PlainGoto DEF SelectionOffered, At, Keeping
  <1> QED
    BY <1>2, <1>3, <1>4, <1>5, <1>6, <1>7, <1>8, <1>9, <1>10

\* What the invariant says of one handler.
LEMMA TokenSlot ==
  ASSUME FlowInv, TokenInv, NEW h \in Slot
  PROVE  /\ StoreInv /\ hs \in [Slot -> Handler] /\ hs[h] \in Handler
         /\ rows \in [Id -> Integration] /\ HandlerHolds(hs[h], rows)
         /\ HandlerTokens(hs[h], rows, tokens, dropped, issued)
         /\ tokens \subseteq issued /\ issued \subseteq Cred
         /\ \A c \in tokens : c \notin Installation
         /\ At(h, "update") /\ hs[h].type = "oauth_app" => Lives(rows, hs[h].row)
  BY IntegrationAssumption
     DEF FlowInv, StoreInv, TypeOK, TokenInv, HandlerTokens, At

\* Rows that are as they were.
LEMMA SameSteady ==
  ASSUME FlowInv, rows' = rows
  PROVE  Steady
  BY SteadyRows DEF FlowInv

\* A handler whose token is not stored goes on to revoke it.
LEMMA UnstoredCarries ==
  ASSUME FlowInv, TokenInv, NEW h \in Slot, hs[h].pc \in {"insert", "refind"},
         NEW v, v = Unstored(h) \/ (v = Idle /\ hs[h].type = "pat")
  PROVE  /\ v.pc \notin Keeping
         /\ \A c \in tokens : Carries(hs[h], c) => Carries(v, c)
  <1> DEFINE w == [hs[h] EXCEPT !.pc = "revoke", !.old = hs[h].cred]
  <1>1. /\ w.pc = "revoke" /\ w.old = hs[h].cred
        /\ Idle.pc = "idle"
        /\ hs[h].cred \in tokens => hs[h].type = "oauth_app"
    BY TokenSlot DEF Handler, HandlerTokens, Idle
  <1>2. v = IF hs[h].type = "oauth_app" THEN w ELSE Idle
    BY DEF Unstored
  <1> HIDE DEF w
  <1>3. v.pc \notin Keeping
    BY <1>1, <1>2 DEF Keeping
  <1>4. ASSUME NEW c \in tokens, Carries(hs[h], c) PROVE Carries(v, c)
    <2>1. hs[h].cred = c
      BY <1>4 DEF Carries
    <2> QED
      BY <1>1, <1>2, <2>1 DEF Carries
  <1> QED
    BY <1>3, <1>4

\* create within the cap, for the pasted credentials and the callbacks.
LEMMA InsertTokens ==
  ASSUME FlowInv, TokenInv, NEW h \in Slot, NEW refused,
         InsertWithinCap(h, refused),
         refused = Unstored(h) \/ (refused = Idle /\ hs[h].type = "pat"),
         UNCHANGED <<issued, dropped, tokens>>
  PROVE  TokenInv'
  <1>0. At(h, "insert") /\ hs[h].pc = "insert"
    BY DEF InsertWithinCap, At
  <1>1. CASE hs' = [hs EXCEPT ![h] = refused] /\ rows' = rows
    <2>1. /\ refused.pc \notin Keeping
          /\ \A c \in tokens : Carries(hs[h], c) => Carries(refused, c)
      BY <1>0, UnstoredCarries
    <2>2. HandlerTokens(refused, rows', tokens, dropped', issued')
      BY <2>1 DEF HandlerTokens, Keeping
    <2> QED
      BY <1>1, <2>1, <2>2, SameSteady, SteadyMoves
  <1>2. CASE rows' = [rows EXCEPT ![NextId] = Inserted(hs[h])] /\ Finish(h)
    <2> DEFINE w == Inserted(hs[h])
    <2>0. /\ NextId \in Id /\ rows[NextId].st = "none"
          /\ rows \in [Id -> Integration]
      BY TokenSlot, NextIdFree DEF InsertWithinCap
    <2>1. /\ w.st = "live" /\ w.cred = hs[h].cred /\ w.type = hs[h].type
          /\ w.key = Current /\ w.intact
      BY DEF Inserted, Sealed, NoIntegration
    <2> HIDE DEF w
    <2>2. \A r \in Id : rows'[r] = IF r = NextId THEN w ELSE rows[r]
      BY <1>2, <2>0 DEF w
    <2>3. /\ hs[h].cred \in issued \cup Installation
          /\ hs[h].cred \in tokens => hs[h].type = "oauth_app"
      BY <1>0, TokenSlot DEF HandlerTokens
    <2>4. \A r \in Id : RowTokens(rows'[r], tokens', issued')
      BY <2>1, <2>2, <2>3 DEF TokenInv, RowTokens
    <2>5. ASSUME NEW g \in Slot \ {h}
          PROVE  /\ Lives(rows', hs[g].row) =>
                      /\ Lives(rows, hs[g].row)
                      /\ rows'[hs[g].row].cred = rows[hs[g].row].cred
                 /\ At(g, "update") /\ hs[g].type = "oauth_app" =>
                      /\ Lives(rows', hs[g].row)
                      /\ rows'[hs[g].row].cred = rows[hs[g].row].cred
      <3>1. /\ HandlerHolds(hs[g], rows) /\ hs[g] \in Handler
            /\ At(g, "update") /\ hs[g].type = "oauth_app" => Lives(rows, hs[g].row)
        BY TokenSlot
      <3>2. hs[g].row \in Id => hs[g].row # NextId
        BY <2>0, <3>1, IntegrationAssumption DEF HandlerHolds, Id
      <3> QED
        BY <2>2, <3>1, <3>2 DEF Lives
    <2>6. Stored(rows', hs[h].cred)
      BY <2>0, <2>1, <2>2 DEF Stored, Lives
    <2>7. \A c : Stored(rows, c) => Stored(rows', c)
      BY <2>0, <2>2 DEF Stored, Lives
    <2>8. \A c : Carries(hs[h], c) => c = hs[h].cred
      BY <1>0 DEF Carries
    <2>9. HandlerTokens(Idle, rows', tokens', dropped', issued')
      BY DEF HandlerTokens, Idle
    <2> QED
      BY <1>2, <2>4, <2>5, <2>6, <2>7, <2>8, <2>9, TokenMoves, ZenonT(60)
         DEF Finish, TokenInv
  <1> QED
    BY <1>1, <1>2 DEF InsertWithinCap

\* replaceCredential and the replace of a callback: the token overwritten is
\* the one that the handler goes on to revoke.
LEMMA UpdateTokens ==
  ASSUME FlowInv, TokenInv, ReplacesApart, NEW h \in Slot, At(h, "update"),
         UpdateOwned(hs[h].row, Sealed(rows[hs[h].row], hs[h].cred)),
         NEW v, hs' = [hs EXCEPT ![h] = v], v.pc \notin Keeping,
         hs[h].type = "oauth_app" /\ hs[h].old # NoCred =>
           v.pc = "revoke" /\ v.old = hs[h].old,
         UNCHANGED <<issued, dropped, tokens>>
  PROVE  TokenInv'
  <1> DEFINE q == hs[h].row
             w == Sealed(rows[q], hs[h].cred)
  <1>0. /\ rows \in [Id -> Integration] /\ hs[h].pc = "update"
        /\ HandlerHolds(hs[h], rows)
        /\ hs[h].cred \in issued \cup Installation
        /\ hs[h].cred \in tokens => hs[h].type = "oauth_app"
        /\ hs[h].type = "oauth_app" => Lives(rows, q)
        /\ hs[h].type = "oauth_app" /\ rows[q].cred \in tokens =>
             hs[h].old = rows[q].cred
    BY TokenSlot DEF HandlerTokens, At
  <1>1. HandlerTokens(v, rows', tokens', dropped', issued')
    BY DEF HandlerTokens, Keeping
  <1>2. CASE q \notin Live
    <2>1. rows' = rows /\ hs[h].cred \notin tokens
      BY <1>0, <1>2 DEF UpdateOwned, Live, Lives
    <2>2. \A c \in tokens : ~Carries(hs[h], c)
      BY <1>0, <2>1 DEF Carries
    <2> QED
      BY <1>1, <2>1, <2>2, SameSteady, SteadyMoves
  <1>3. CASE q \in Live
    <2>0. q \in Id /\ Lives(rows, q) /\ rows[q].type = hs[h].type
      BY <1>0, <1>3 DEF Live, Lives, HandlerHolds
    <2>1. /\ w.st = "live" /\ w.cred = hs[h].cred /\ w.type = hs[h].type
          /\ w.key = Current /\ w.intact
      BY <1>0, <2>0 DEF Sealed, Integration, Lives
    <2> HIDE DEF w
    <2>2. \A r \in Id : rows'[r] = IF r = q THEN w ELSE rows[r]
      BY <1>0, <1>3 DEF UpdateOwned, w
    <2>3. \A r \in Id : RowTokens(rows'[r], tokens', issued')
      BY <1>0, <2>1, <2>2 DEF TokenInv, RowTokens
    <2>4. ASSUME NEW g \in Slot \ {h}
          PROVE  /\ Lives(rows', hs[g].row) =>
                      \/ /\ Lives(rows, hs[g].row)
                         /\ rows'[hs[g].row].cred = rows[hs[g].row].cred
                      \/ rows'[hs[g].row].cred \notin tokens'
                      \/ hs[g].pc \notin {"update", "cleanup", "delete"}
                 /\ At(g, "update") /\ hs[g].type = "oauth_app" =>
                      /\ Lives(rows', hs[g].row)
                      /\ rows'[hs[g].row].cred = rows[hs[g].row].cred
      <3>1. /\ HandlerHolds(hs[g], rows)
            /\ At(g, "update") /\ hs[g].type = "oauth_app" => Lives(rows, hs[g].row)
        BY TokenSlot
      <3>2. CASE hs[g].row # q
        BY <2>2, <3>1, <3>2 DEF Lives
      <3>3. CASE hs[g].row = q
        <4>1. hs[h].type = "oauth_app" =>
                hs[g].pc \notin {"update", "cleanup", "delete"}
          BY <3>3 DEF ReplacesApart
        <4>2. At(g, "update") /\ hs[g].type = "oauth_app" => hs[h].type = "oauth_app"
          BY <2>0, <3>1, <3>3 DEF HandlerHolds, At
        <4>3. hs[h].type # "oauth_app" => rows'[q].cred \notin tokens'
          BY <1>0, <2>0, <2>1, <2>2
        <4> QED
          BY <3>3, <4>1, <4>2, <4>3 DEF At
      <3> QED
        BY <3>2, <3>3
    <2>5. Stored(rows', hs[h].cred)
      BY <2>0, <2>1, <2>2 DEF Stored, Lives
    <2>6. ASSUME NEW c \in tokens, Stored(rows, c)
          PROVE  Stored(rows', c) \/ Carries(v, c)
      <3>1. PICK r \in Id : Lives(rows, r) /\ rows[r].cred = c
        BY <2>6 DEF Stored
      <3>2. CASE r # q
        BY <2>2, <3>1, <3>2 DEF Stored, Lives
      <3>3. CASE r = q
        <4>1. hs[h].type = "oauth_app"
          BY <2>0, <3>1, <3>3 DEF TokenInv, RowTokens, Lives
        <4>2. hs[h].old = c /\ c # NoCred
          BY <1>0, <3>1, <3>3, <4>1, TokenSlot, IntegrationAssumption
        <4> QED
          BY <4>1, <4>2 DEF Carries
      <3> QED
        BY <3>2, <3>3
    <2>7. \A c : Carries(hs[h], c) => c = hs[h].cred
      BY <1>0 DEF Carries
    <2> QED
      BY <1>1, <2>3, <2>4, <2>5, <2>6, <2>7, TokenMoves, ZenonT(60) DEF TokenInv
  <1> QED
    BY <1>2, <1>3

\* delete: the token that is deleted with its row has been asked to be revoked.
LEMMA DeleteTokens ==
  ASSUME FlowInv, TokenInv, ReplacesApart, NEW h \in Slot, tokens' = tokens,
         \/ \E u \in User, r \in Id : Delete(h, u, r)
         \/ CleanUp(h) \/ DeleteOwned(h)
  PROVE  TokenInv'
  <1>0. /\ rows \in [Id -> Integration] /\ hs \in [Slot -> Handler]
        /\ hs[h] \in Handler
        /\ HandlerTokens(hs[h], rows, tokens, dropped, issued)
    BY TokenSlot
  <1>1. ASSUME NEW u \in User, NEW r \in Id, Delete(h, u, r) PROVE TokenInv'
    <2> DEFINE v == [Begin(h, "delete", u) EXCEPT
                       !.pc = "cleanup", !.row = r, !.type = rows[r].type,
                       !.cred = rows[r].cred, !.key = rows[r].key,
                       !.intact = rows[r].intact]
    <2>1. /\ v.pc = "cleanup" /\ v.row = r /\ v.type = rows[r].type
          /\ v.cred = rows[r].cred /\ v.key = rows[r].key
          /\ v.intact = rows[r].intact
      BY DEF Begin, Idle
    <2>2. /\ hs' = [hs EXCEPT ![h] = v] /\ rows' = rows /\ At(h, "idle")
          /\ UNCHANGED <<issued, dropped>> /\ rows[r].st = "live"
      BY <1>1 DEF Delete, Accepts, Owned, Live
    <2> HIDE DEF v
    <2>3. rows[r].cred \in tokens =>
            rows[r].type = "oauth_app" /\ Decrypts(rows[r].key, rows[r].intact)
      BY <2>2 DEF TokenInv, RowTokens, Decrypts
    <2>4. HandlerTokens(v, rows', tokens, dropped', issued')
      BY <2>1, <2>2, <2>3 DEF HandlerTokens
    <2>5. \A c : ~Carries(hs[h], c)
      BY <2>2 DEF Carries, At
    <2> QED
      BY <2>2, <2>4, <2>5, SameSteady, SteadyMoves
  <1>2. CASE CleanUp(h)
    <2> DEFINE v == [hs[h] EXCEPT !.pc = "delete"]
    <2>1. v.pc = "delete" /\ v.row = hs[h].row /\ hs' = [hs EXCEPT ![h] = v]
      BY <1>0, <1>2 DEF CleanUp, Goto, Handler
    <2> HIDE DEF v
    <2>2. /\ At(h, "cleanup") /\ rows' = rows /\ issued' = issued
          /\ dropped \subseteq dropped'
          /\ hs[h].type = "oauth_app" /\ Decrypts(hs[h].key, hs[h].intact) =>
               hs[h].cred \in dropped'
      BY <1>2 DEF CleanUp
    <2>3. HandlerTokens(v, rows', tokens, dropped', issued')
      BY <1>0, <2>1, <2>2 DEF HandlerTokens, At
    <2>4. \A c : ~Carries(hs[h], c)
      BY <2>2 DEF Carries, At
    <2> QED
      BY <2>1, <2>2, <2>3, <2>4, SameSteady, SteadyMoves
  <1>3. CASE DeleteOwned(h)
    <2> DEFINE q == hs[h].row
               w == [NoIntegration EXCEPT !.st = "gone"]
    <2>0. /\ At(h, "delete") /\ UpdateOwned(q, w) /\ w.st = "gone"
          /\ hs' = [hs EXCEPT ![h] = Idle] /\ UNCHANGED <<issued, dropped>>
      BY <1>3 DEF DeleteOwned, Finish, NoIntegration
    <2> HIDE DEF w
    <2>1. HandlerTokens(Idle, rows', tokens', dropped', issued')
      BY DEF HandlerTokens, Idle
    <2>2. \A c : ~Carries(hs[h], c)
      BY <2>0 DEF Carries, At
    <2>3. CASE q \notin Live
      <3>1. rows' = rows
        BY <2>0, <2>3 DEF UpdateOwned
      <3> QED
        BY <2>0, <2>1, <2>2, <3>1, SameSteady, SteadyMoves
    <2>4. CASE q \in Live
      <3>0. q \in Id /\ Lives(rows, q)
        BY <2>4 DEF Live, Lives
      <3>1. \A r \in Id : rows'[r] = IF r = q THEN w ELSE rows[r]
        BY <1>0, <2>0, <2>4 DEF UpdateOwned
      <3>2. \A r \in Id : RowTokens(rows'[r], tokens', issued')
        BY <2>0, <3>1 DEF TokenInv, RowTokens
      <3>3. ASSUME NEW g \in Slot \ {h}
            PROVE  /\ Lives(rows', hs[g].row) =>
                        /\ Lives(rows, hs[g].row)
                        /\ rows'[hs[g].row].cred = rows[hs[g].row].cred
                   /\ At(g, "update") /\ hs[g].type = "oauth_app" =>
                        /\ Lives(rows', hs[g].row)
                        /\ rows'[hs[g].row].cred = rows[hs[g].row].cred
        <4>1. At(g, "update") /\ hs[g].type = "oauth_app" =>
                Lives(rows, hs[g].row) /\ hs[g].row # q
          BY <2>0, TokenSlot DEF ReplacesApart, At
        <4>2. Lives(rows', hs[g].row) => hs[g].row # q
          BY <2>0, <3>1 DEF Lives
        <4> QED
          BY <3>1, <4>1, <4>2 DEF Lives
      <3>4. rows[q].cred \in tokens => rows[q].cred \in dropped
        BY <1>0, <2>0, <3>0 DEF HandlerTokens, At
      <3>5. ASSUME NEW c \in tokens, Stored(rows, c)
            PROVE  c \in dropped' \/ Stored(rows', c)
        <4>1. PICK r \in Id : Lives(rows, r) /\ rows[r].cred = c
          BY <3>5 DEF Stored
        <4>2. CASE r # q
          BY <3>1, <4>1, <4>2 DEF Stored, Lives
        <4> QED
          BY <2>0, <3>4, <4>1, <4>2
      <3> QED
        BY <2>0, <2>1, <2>2, <3>2, <3>3, <3>5, TokenMoves DEF TokenInv
    <2> QED
      BY <2>3, <2>4
  <1> QED
    BY <1>1, <1>2, <1>3

\* validate: a secret that GitHub has just issued or accepted was no token.
LEMMA AnswerTokens ==
  ASSUME FlowInv, TokenInv, NEW h \in Slot,
         \/ tokens' = tokens /\ \E c \in Cred : ValidateAccepted(h, c)
         \/ \E c \in Cred : TokenRejected(h, c) \/ TokenAccepted(h, c)
         \/ \E listed \in SUBSET Installation :
              \E i \in listed : InstallationPicked(h, listed, i)
         \/ Selected(h)
  PROVE  TokenInv'
  <1> DEFINE V(c, pc) == [hs[h] EXCEPT !.cred = c, !.pc = pc]
  <1>0. /\ hs \in [Slot -> Handler] /\ hs[h] \in Handler
        /\ HandlerHolds(hs[h], rows) /\ FlowHolds(hs[h], fs[h], states, proven)
        /\ fs[h] \in Flow
        /\ tokens \subseteq issued /\ issued \subseteq Cred
        /\ \A c \in Cred : c \notin Installation
    BY TokenSlot, FlowSlot, IntegrationAssumption
  <1>1. \A c, pc : /\ V(c, pc).cred = c /\ V(c, pc).pc = pc
                   /\ V(c, pc).type = hs[h].type
    BY <1>0 DEF Handler
  <1>2. ASSUME NEW c, Accepted(h, c)
        PROVE  \E pc \in {"insert", "refind"} : hs' = [hs EXCEPT ![h] = V(c, pc)]
    BY <1>0, <1>2 DEF Accepted
  <1>a. \A c : At(h, "github") => ~Carries(hs[h], c)
    BY DEF At, Carries
  <1> HIDE DEF V
  <1>3. ASSUME NEW c \in Cred, ValidateAccepted(h, c), tokens' = tokens
        PROVE  TokenInv'
    <2>1. PICK pc \in {"insert", "update"} : hs' = [hs EXCEPT ![h] = V(c, pc)]
      BY <1>0, <1>3 DEF ValidateAccepted, V
    <2>2. /\ At(h, "github") /\ rows' = rows /\ issued' = issued \cup {c}
          /\ dropped' = dropped /\ c \notin tokens /\ hs[h].type = "pat"
      BY <1>0, <1>3 DEF ValidateAccepted, HandlerHolds
    <2>3. HandlerTokens(V(c, pc), rows', tokens, dropped', issued')
      BY <1>1, <2>2 DEF HandlerTokens
    <2> QED
      BY <1>3, <1>a, <2>1, <2>2, <2>3, SameSteady, SteadyMoves
  <1>4. ASSUME NEW i \in Installation, Accepted(h, i), At(h, "github"),
               UNCHANGED <<rows, issued, dropped, tokens>>
        PROVE  TokenInv'
    <2>1. PICK pc \in {"insert", "refind"} : hs' = [hs EXCEPT ![h] = V(i, pc)]
      BY <1>2, <1>4
    <2>2. i \notin tokens
      BY <1>0
    <2>3. HandlerTokens(V(i, pc), rows', tokens, dropped', issued')
      BY <1>1, <2>1, <2>2 DEF HandlerTokens
    <2> QED
      BY <1>4, <1>a, <2>1, <2>3, SameSteady, SteadyMoves
  <1>5. ASSUME NEW listed \in SUBSET Installation, NEW i \in listed,
               InstallationPicked(h, listed, i)
        PROVE  TokenInv'
    BY <1>4, <1>5 DEF InstallationPicked
  <1>6. CASE Selected(h)
    <2>1. fs[h].chosen \in Installation
      BY <1>0, <1>6 DEF Selected, Flow
    <2> QED
      BY <1>4, <1>6, <2>1 DEF Selected, rvars
  <1>7. ASSUME NEW c \in Cred, c \notin issued, NEW v,
               hs' = [hs EXCEPT ![h] = v], At(h, "github"), rows' = rows,
               issued' = issued \cup {c}, tokens' = tokens \cup {c},
               dropped \subseteq dropped', Carries(v, c) \/ c \in dropped',
               HandlerTokens(v, rows', tokens', dropped', issued')
        PROVE  TokenInv'
    <2>1. c \notin issued \cup Installation
      BY <1>0, <1>7
    <2>2. \A r \in Id : RowTokens(rows'[r], tokens', issued')
      BY <1>7, <2>1 DEF TokenInv, RowTokens
    <2>3. ASSUME NEW g \in Slot
          PROVE  /\ Lives(rows', hs[g].row) =>
                      /\ Lives(rows, hs[g].row)
                      /\ rows'[hs[g].row].cred = rows[hs[g].row].cred
                 /\ At(g, "update") /\ hs[g].type = "oauth_app" =>
                      /\ Lives(rows', hs[g].row)
                      /\ rows'[hs[g].row].cred = rows[hs[g].row].cred
      BY <1>7, TokenSlot
    <2>4. \A d : Stored(rows, d) => Stored(rows', d)
      BY <1>7
    <2>5. tokens' \subseteq issued' /\ issued \subseteq issued'
      BY <1>0, <1>7
    <2> QED
      BY <1>7, <1>a, <2>1, <2>2, <2>3, <2>4, <2>5, TokenMoves
  <1>8. ASSUME NEW c \in Cred, TokenRejected(h, c) PROVE TokenInv'
    <2>1. HandlerTokens(Idle, rows', tokens', dropped', issued')
      BY DEF HandlerTokens, Idle
    <2> QED
      BY <1>7, <1>8, <2>1 DEF TokenRejected, Ends, Finish
  <1>9. ASSUME NEW c \in Cred, TokenAccepted(h, c) PROVE TokenInv'
    <2>1. PICK pc \in {"insert", "refind"} : hs' = [hs EXCEPT ![h] = V(c, pc)]
      BY <1>2, <1>9 DEF TokenAccepted
    <2>2. hs[h].type = "oauth_app"
      BY <1>0, <1>9 DEF TokenAccepted, FlowHolds, RedirectOps, TypeOf
    <2>3. HandlerTokens(V(c, pc), rows', tokens', dropped', issued')
      BY <1>1, <1>9, <2>1, <2>2 DEF HandlerTokens, TokenAccepted
    <2>4. Carries(V(c, pc), c)
      BY <1>1, <2>1 DEF Carries
    <2> QED
      BY <1>7, <1>9, <2>1, <2>3, <2>4 DEF TokenAccepted
  <1> QED
    BY <1>3, <1>5, <1>6, <1>8, <1>9

\* replace of a callback reads its row again; revoke.
LEMMA RefindTokens ==
  ASSUME FlowInv, TokenInv, NEW h \in Slot, Refind(h) \/ Revoke(h)
  PROVE  TokenInv'
  <1>0. /\ hs \in [Slot -> Handler] /\ hs[h] \in Handler
        /\ HandlerHolds(hs[h], rows)
        /\ HandlerTokens(hs[h], rows, tokens, dropped, issued)
    BY TokenSlot
  <1>1. CASE Revoke(h)
    <2>1. HandlerTokens(Idle, rows', tokens, dropped', issued')
      BY DEF HandlerTokens, Idle
    <2>2. \A c \in tokens : Carries(hs[h], c) => c \in dropped'
      BY <1>1 DEF Revoke, Carries, At
    <2> QED
      BY <1>1, <2>1, <2>2, SameSteady, SteadyMoves DEF Revoke, Finish, rvars
  <1>2. CASE Refind(h) /\ hs[h].row \notin Owned(hs[h].user)
    <2>0. /\ hs' = [hs EXCEPT ![h] = Unstored(h)]
          /\ hs[h].pc \in {"insert", "refind"}
          /\ UNCHANGED <<rows, issued, dropped, tokens>>
      BY <1>2 DEF Refind, At
    <2>1. PICK v : /\ hs' = [hs EXCEPT ![h] = v]
                   /\ v = Unstored(h) \/ (v = Idle /\ hs[h].type = "pat")
      BY <2>0
    <2>2. /\ v.pc \notin Keeping
          /\ \A c \in tokens : Carries(hs[h], c) => Carries(v, c)
      BY <2>0, <2>1, UnstoredCarries
    <2>3. HandlerTokens(v, rows', tokens, dropped', issued')
      BY <2>2 DEF HandlerTokens, Keeping
    <2> QED
      BY <2>0, <2>1, <2>2, <2>3, SameSteady, SteadyMoves
  <1>3. CASE Refind(h) /\ hs[h].row \in Owned(hs[h].user)
    <2> DEFINE r == hs[h].row
               old == IF /\ hs[h].type = "oauth_app"
                         /\ Decrypts(rows[r].key, rows[r].intact)
                        THEN rows[r].cred ELSE NoCred
               v == [hs[h] EXCEPT !.pc = "update", !.old = old]
    <2>1. /\ hs' = [hs EXCEPT ![h] = v] /\ hs[h].pc = "refind"
          /\ UNCHANGED <<rows, issued, dropped, tokens>>
      BY <1>3 DEF Refind, At
    <2>2. Lives(rows, r) /\ rows[r].type = hs[h].type
      BY <1>0, <1>3, <2>1 DEF Owned, Live, Lives, HandlerHolds
    <2>3. hs[h].type = "oauth_app" /\ rows[r].cred \in tokens => old = rows[r].cred
      BY <2>2 DEF TokenInv, RowTokens, Lives, Decrypts
    <2> HIDE DEF old
    <2>4. /\ v.pc = "update" /\ v.old = old /\ v.cred = hs[h].cred
          /\ v.type = hs[h].type /\ v.row = r
      BY <1>0 DEF Handler
    <2> HIDE DEF v
    <2>5. HandlerTokens(v, rows', tokens, dropped', issued')
      BY <1>0, <2>1, <2>2, <2>3, <2>4 DEF HandlerTokens
    <2>6. \A c : Carries(hs[h], c) => Carries(v, c)
      BY <2>1, <2>4 DEF Carries
    <2> QED
      BY <2>1, <2>5, <2>6, SameSteady, SteadyMoves
  <1> QED
    BY <1>1, <1>2, <1>3

\* The rotation command and the clock.
LEMMA RotateTokens ==
  ASSUME FlowInv, TokenInv, tokens' = tokens, Rotate \/ Tick \/ UNCHANGED ivars
  PROVE  TokenInv'
  <1>1. Steady /\ UNCHANGED <<issued, dropped, hs>>
    <2>1. CASE RotateRow
      <3> DEFINE s == FirstOf(cli.batch)
      <3>0. StoreInv /\ TypeOK /\ cli.batch # {}
        BY <2>1 DEF FlowInv, StoreInv, RotateRow, RotateInv
      <3>1. SnapshotHolds(s, rows)
        BY <3>0, FirstRow DEF StoreInv
      <3>2. rows' = rows \/ RewriteSecret(s.id, s.cred, s.key)
        BY <2>1 DEF RotateRow, FirstOf
      <3> HIDE DEF s
      <3>3. s.id \in Live /\ rows[s.id].key = s.key => s.cred = rows[s.id].cred
        BY <3>1 DEF SnapshotHolds, Live, Lives
      <3> QED
        BY <2>1, <3>0, <3>2, <3>3, SteadyRows DEF RotateRow
    <2>2. CASE rows' = rows
      BY <2>2, SameSteady DEF Rotate, RotateStart, RotateRead, RotateRow, Tick, ivars
    <2> QED
      BY <2>1, <2>2 DEF Rotate, RotateStart, RotateRead, Tick, ivars
  <1>2. \A r \in Id : RowTokens(rows'[r], tokens', issued')
    BY <1>1 DEF TokenInv, RowTokens, Steady, Lives
  <1>3. ASSUME NEW h \in Slot
        PROVE  HandlerTokens(hs'[h], rows', tokens', dropped', issued')
    <2>1. HandlerTokens(hs[h], rows, tokens, dropped, issued)
      BY DEF TokenInv
    <2>2. /\ Lives(rows, hs[h].row) => rows[hs[h].row].cred \in issued \cup Installation
          /\ Lives(rows', hs[h].row) <=> Lives(rows, hs[h].row)
          /\ Lives(rows, hs[h].row) => rows'[hs[h].row].cred = rows[hs[h].row].cred
      BY <1>1 DEF TokenInv, RowTokens, Lives, Steady
    <2>3. hs[h].pc = "update" /\ hs[h].type = "oauth_app" => Lives(rows, hs[h].row)
      BY <2>1 DEF HandlerTokens
    <2>4. HandlerTokens(hs[h], rows', tokens, dropped, issued)
      BY <2>1, <2>2, <2>3, HandlerTokensKept
    <2> QED
      BY <1>1, <2>4
  <1>4. \A c : Stored(rows, c) => Stored(rows', c)
    BY <1>1 DEF Stored, Steady
  <1>5. \A r \in Id : RowTokens(rows[r], tokens, issued)'
    BY <1>2 DEF RowTokens
  <1>6. \A g \in Slot : HandlerTokens(hs[g], rows, tokens, dropped, issued)'
    BY <1>3 DEF HandlerTokens, Lives, Decrypts
  <1>7. \A c \in tokens' : \/ c \in dropped' \/ Stored(rows, c)'
                           \/ \E g \in Slot : Carries(hs[g], c)'
    BY <1>1, <1>4 DEF TokenInv, Stored, Lives, Carries
  <1> QED
    BY <1>1, <1>5, <1>6, <1>7 DEF TokenInv

\* Every step.
LEMMA TokenStep ==
  ASSUME FlowInv, TokenInv, ReplacesApart, [FlowNext]_vars
  PROVE  TokenInv'
  <1>1. ASSUME NEW h \in Slot, FlowInsert(h) \/ (Insert(h) /\ tokens' = tokens)
        PROVE  TokenInv'
    <2>1. hs[h].op = "create" => hs[h].type = "pat"
      BY TokenSlot DEF HandlerHolds
    <2> QED
      BY <1>1, <2>1, InsertTokens DEF FlowInsert, Insert
  <1>2. ASSUME NEW h \in Slot,
               FlowUpdate(h) \/ (WriteCredential(h) /\ tokens' = tokens)
        PROVE  TokenInv'
    <2> DEFINE w == [hs[h] EXCEPT !.pc = "revoke"]
    <2>1. /\ w.pc = "revoke" /\ w.old = hs[h].old /\ Idle.pc = "idle"
          /\ hs \in [Slot -> Handler]
          /\ hs[h].op = "replace" => hs[h].type = "pat"
      BY TokenSlot DEF Handler, Idle, HandlerHolds
    <2>2. /\ At(h, "update") /\ UNCHANGED <<issued, dropped, tokens>>
          /\ UpdateOwned(hs[h].row, Sealed(rows[hs[h].row], hs[h].cred))
      BY <1>2 DEF FlowUpdate, WriteCredential, rvars
    <2>3. \/ /\ hs' = [hs EXCEPT ![h] = Idle]
             /\ hs[h].old = NoCred \/ hs[h].type = "pat"
          \/ hs' = [hs EXCEPT ![h] = w]
      BY <1>2, <2>1 DEF FlowUpdate, WriteCredential, Finish, Goto
    <2> HIDE DEF w
    <2>4. Idle.pc \notin Keeping /\ w.pc \notin Keeping
      BY <2>1 DEF Keeping
    <2>5. PICK v : /\ hs' = [hs EXCEPT ![h] = v] /\ v.pc \notin Keeping
                   /\ hs[h].type = "oauth_app" /\ hs[h].old # NoCred =>
                        v.pc = "revoke" /\ v.old = hs[h].old
      BY <2>1, <2>3, <2>4
    <2> QED
      BY <2>2, <2>5, UpdateTokens
  <1>3. ASSUME NEW h \in Slot, FlowRequest(h) \/ FlowStep(h) PROVE TokenInv'
    <2>1. CASE \/ FlowRequest(h)
               \/ Purge(h) \/ ListPending(h) \/ Prune(h) \/ SaveState(h)
               \/ Consume(h) \/ FindTarget(h) \/ FlowRefused(h)
               \/ \E listed \in SUBSET Installation : SelectionOffered(h, listed)
      BY <2>1, PlainFlow
    <2>2. CASE \/ \E c \in Cred : TokenRejected(h, c) \/ TokenAccepted(h, c)
               \/ \E listed \in SUBSET Installation :
                    \E i \in listed : InstallationPicked(h, listed, i)
               \/ Selected(h)
      BY <2>2, AnswerTokens
    <2>3. CASE FlowInsert(h) \/ FlowUpdate(h)
      BY <1>1, <1>2, <2>3
    <2>4. CASE Refind(h) \/ Revoke(h)
      BY <2>4, RefindTokens
    <2> QED
      BY <1>3, <2>1, <2>2, <2>3, <2>4, Zenon DEF FlowStep
  <1>4. ASSUME NEW h \in Slot, Request(h) \/ Step(h), tokens' = tokens
        PROVE  TokenInv'
    BY <1>1, <1>2, <1>4, PlainPaste, AnswerTokens, DeleteTokens DEF Request, Step
  <1>5. CASE UNCHANGED vars
    BY <1>5, RotateTokens DEF vars, rvars
  <1> QED
    BY <1>3, <1>4, <1>5, RotateTokens DEF FlowNext, Next

\* storeOrRevoke, replace and cleanUp: a token that GitHub has issued to a
\* callback is stored, in a handler's hands, or its revocation has been asked,
\* as long as an OAuth replace does not overlap with another replace or a
\* delete of its row.
THEOREM TokensAreAccounted == FlowSpec /\ []ReplacesApart => []TokensAccounted
  <1>1. FlowInit => TokenInv
    <2> SUFFICES ASSUME FlowInit PROVE TokenInv
      OBVIOUS
    <2>1. tokens = {} /\ \A h \in Slot : hs[h] = Idle
      BY DEF FlowInit, Init
    <2>2. \A r \in Id : rows[r].st = "live" => rows[r].cred \in issued
      <3> SUFFICES ASSUME NEW r \in Id, rows[r].st = "live"
                   PROVE  rows[r].cred \in issued
        OBVIOUS
      <3>0. Existing \in Nat /\ MaxId \in Nat
        BY IntegrationAssumption
      <3>1. ~(r > Existing)
        BY DEF FlowInit, Init, NoIntegration
      <3>2. r \in 1..Existing
        BY <3>0, <3>1 DEF Id
      <3> QED
        BY <3>1, <3>2 DEF FlowInit, Init
    <2>3. \A h \in Slot : HandlerTokens(hs[h], rows, tokens, dropped, issued)
      BY <2>1 DEF HandlerTokens, Idle
    <2> QED
      BY <2>1, <2>2, <2>3 DEF TokenInv, RowTokens
  <1>2. FlowInv /\ TokenInv /\ ReplacesApart /\ [FlowNext]_vars => TokenInv'
    BY TokenStep
  <1>3. TokenInv => TokensAccounted
    BY DEF TokenInv, TokensAccounted, Carries, Stored, Lives, Live, Holds
  <1> QED
    BY <1>1, <1>2, <1>3, FlowInvariant, PTL DEF FlowSpec
=============================================================================
