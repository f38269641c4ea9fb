-------------------- MODULE AuthorizationRequestsProofs ---------------------
(***************************************************************************)
(* Proofs about AuthorizationRequests: type correctness, and that every    *)
(* session minted for a request is paid for by an approving update, for    *)
(* any number of requests, handlers and failures.  The further properties  *)
(* fail when handlers race in one named way; each is proved of the         *)
(* behaviours without that race: the status machine of RequestStatus and   *)
(* one session per request (WritersApart), the account lockout             *)
(* (AuthorizesApart), the cap and the rate limit of creates (CreatesApart).*)
(***************************************************************************)
EXTENDS AuthorizationRequests, FiniteSetTheorems, TLAPS

-----------------------------------------------------------------------------
(* Type correctness.                                                       *)

\* A slot between two calls is a handler.
LEMMA IdleType == Idle \in Handler
  BY DEF Idle, Handler, PC

\* A step that gives a slot a handler keeps the slots' type.
LEMMA SlotType ==
  ASSUME TypeOK, NEW h \in Slot, NEW v \in Handler, hs' = [hs EXCEPT ![h] = v]
  PROVE  hs' \in [Slot -> Handler]
  BY DEF TypeOK

\* Moving on and ending keep the slots' type.
LEMMA GotoType ==
  ASSUME TypeOK, NEW h \in Slot, NEW pc \in PC, Goto(h, pc)
  PROVE  hs' \in [Slot -> Handler]
  BY DEF TypeOK, Goto, Handler

LEMMA FinishType ==
  ASSUME TypeOK, NEW h \in Slot, Finish(h)
  PROVE  hs' \in [Slot -> Handler]
  BY IdleType DEF TypeOK, Finish

\* Updates of the status column keep the table's type.
LEMMA StatusType ==
  ASSUME TypeOK, NEW a, NEW st \in Status
  PROVE  [rows EXCEPT ![a].st = st] \in [Row -> AuthorizationRequest]
  BY ZenonT(60) DEF TypeOK, AuthorizationRequest

\* So do updates of the lockout columns.
LEMMA LockoutType ==
  ASSUME TypeOK, NEW a, NEW fails \in Nat, NEW lock \in Nat
  PROVE  [rows EXCEPT ![a].fails = fails, ![a].lock = lock]
           \in [Row -> AuthorizationRequest]
  BY ZenonT(60) DEF TypeOK, AuthorizationRequest

\* And the approving update of both.
LEMMA ApprovedType ==
  ASSUME TypeOK, NEW a
  PROVE  [rows EXCEPT ![a].st = "approved", ![a].fails = 0, ![a].lock = 0]
           \in [Row -> AuthorizationRequest]
  <1> DEFINE v == [rows[a] EXCEPT !.st = "approved", !.fails = 0, !.lock = 0]
  <1>1. a \in Row => v \in AuthorizationRequest
    BY ZenonT(60) DEF TypeOK, AuthorizationRequest, Status
  <1>2. [rows EXCEPT ![a].st = "approved", ![a].fails = 0, ![a].lock = 0]
          = [rows EXCEPT ![a] = v]
    BY DEF TypeOK
  <1>3. [rows EXCEPT ![a] = v] \in [Row -> AuthorizationRequest]
    <2> HIDE DEF v
    <2> QED
      BY <1>1 DEF TypeOK
  <1> QED
    BY <1>2, <1>3

\* Counting one more keeps a counter's type.
LEMMA CountType ==
  ASSUME NEW f \in [Row -> Nat], NEW a
  PROVE  [f EXCEPT ![a] = @ + 1] \in [Row -> Nat]
  <1>1. CASE a \in Row
    <2>1. f[a] + 1 \in Nat
      BY <1>1
    <2> QED
      BY <2>1
  <1>2. CASE a \notin Row
    <2> DEFINE n == f[a] + 1
    <2>1. [f EXCEPT ![a] = n] \in [Row -> Nat]
      <3> HIDE DEF n
      <3> QED
        BY <1>2
    <2> QED
      BY <2>1
  <1> QED
    BY <1>1, <1>2

\* Calls keep the type invariant.
LEMMA CallType ==
  ASSUME TypeOK, NEW h \in Slot, Call(h)
  PROVE  TypeOK'
  <1> USE DEF Handler, Idle, PC
  <1>0. ASSUME NEW v \in Handler, hs' = [hs EXCEPT ![h] = v],
               UNCHANGED <<rows, users, minted, approvals, now>>
        PROVE  TypeOK'
    BY <1>0, SlotType DEF TypeOK
  <1>1. ASSUME NEW n \in Name, NEW ip \in Ip, Create(h, n, ip)
        PROVE  TypeOK'
    <2>1. now + Ttl \in Nat
      BY RequestAssumption DEF TypeOK
    <2> DEFINE v == [Idle EXCEPT !.pc = IF n \in Known THEN "capCount" ELSE "save",
                                 !.name = n, !.ip = ip, !.exp = now + Ttl]
    <2>2. v \in Handler
      BY <2>1
    <2>3. /\ hs' = [hs EXCEPT ![h] = v]
          /\ UNCHANGED <<rows, users, minted, approvals, now>>
      BY <1>1 DEF Create
    <2> HIDE DEF v
    <2> QED
      BY <1>0, <2>2, <2>3
  <1>2. ASSUME NEW a \in Row, Poll(h, a)
        PROVE  TypeOK'
    <2> DEFINE v == [Idle EXCEPT !.pc = IF rows[a].st = "open" THEN "expire"
                                                              ELSE "claim",
                                 !.row = a]
    <2>1. v \in Handler
      OBVIOUS
    <2>2. /\ hs' = [hs EXCEPT ![h] = v]
          /\ UNCHANGED <<rows, users, minted, approvals, now>>
      BY <1>2 DEF Poll
    <2> HIDE DEF v
    <2> QED
      BY <1>0, <2>1, <2>2
  <1>3. ASSUME NEW a \in Row, NEW u \in Known, NEW valid \in BOOLEAN,
               Authorize(h, a, u, valid)
        PROVE  TypeOK'
    <2>1. rows[a].fails \in Nat
      BY DEF TypeOK, AuthorizationRequest
    <2> DEFINE v == [Idle EXCEPT !.pc = IF valid THEN "approve" ELSE "fail",
                                 !.row = a, !.fails = rows[a].fails]
    <2>2. v \in Handler
      BY <2>1
    <2>3. /\ hs' = [hs EXCEPT ![h] = v]
          /\ UNCHANGED <<rows, users, minted, approvals, now>>
      BY <1>3 DEF Authorize
    <2> HIDE DEF v
    <2> QED
      BY <1>0, <2>2, <2>3
  <1>4. ASSUME NEW a \in Row, NEW u \in Known, Deny(h, a, u)
        PROVE  TypeOK'
    BY <1>0, <1>4 DEF Deny
  <1> QED
    BY <1>1, <1>2, <1>3, <1>4 DEF Call

\* Statements keep the type invariant.
LEMMA StepType ==
  ASSUME TypeOK, NEW h \in Slot, Step(h)
  PROVE  TypeOK'
  <1>0. hs[h] \in Handler
    BY DEF TypeOK
  <1>1. Finish(h) => hs' \in [Slot -> Handler]
    BY FinishType
  <1>2. CASE CapCount(h)
    BY <1>2, GotoType DEF CapCount, PC, TypeOK
  <1>3. CASE CapFind(h)
    <2>1. CASE Goto(h, "save")
      BY <1>3, <2>1, GotoType DEF CapFind, PC, TypeOK
    <2>2. ASSUME NEW a \in Row,
                 hs' = [hs EXCEPT ![h].pc = "evict", ![h].row = a]
          PROVE  TypeOK'
      <3> DEFINE v == [hs[h] EXCEPT !.pc = "evict", !.row = a]
      <3>1. v \in Handler
        BY <1>0 DEF Handler, PC
      <3>2. hs' = [hs EXCEPT ![h] = v]
        BY <2>2 DEF TypeOK
      <3> HIDE DEF v
      <3> QED
        BY <1>3, <3>1, <3>2, SlotType DEF CapFind, TypeOK
    <2> QED
      BY <1>3, <2>1, <2>2 DEF CapFind, OpenOf
  <1>4. CASE Evict(h)
    <2>1. hs' \in [Slot -> Handler]
      <3> DEFINE v == [hs[h] EXCEPT !.pc = "save", !.row = NoRow]
      <3>1. v \in Handler
        BY <1>0 DEF Handler, PC
      <3>2. hs' = [hs EXCEPT ![h] = v]
        BY <1>4 DEF Evict, TypeOK
      <3> HIDE DEF v
      <3> QED
        BY <3>1, <3>2, SlotType
    <2> QED
      BY <1>4, <2>1, StatusType DEF Evict, SetStatus, TypeOK, Status
  <1>5. CASE Save(h)
    <2>1. [NoRequest EXCEPT !.st = "open", !.name = hs[h].name, !.ip = hs[h].ip,
                            !.made = now, !.exp = hs[h].exp]
          \in AuthorizationRequest
      BY <1>0 DEF NoRequest, AuthorizationRequest, Status, Handler, TypeOK
    <2> QED
      BY <1>1, <1>5, <2>1 DEF Save, TypeOK
  <1>6. CASE Expire(h) \/ DenyUpdate(h)
    <2>1. rows' \in [Row -> AuthorizationRequest]
      <3>1. "expired" \in Status /\ "denied" \in Status
        BY DEF Status
      <3> QED
        BY <1>6, <3>1, StatusType, SMTT(40) DEF Expire, DenyUpdate, SetStatus
    <2> QED
      BY <1>1, <1>6, <2>1 DEF Expire, DenyUpdate, TypeOK
  <1>7. CASE Claim(h)
    BY <1>1, <1>7, StatusType, GotoType
       DEF Claim, GuardedTransition, TypeOK, Status, PC
  <1>8. CASE LoadUser(h)
    <2>1. hs' \in [Slot -> Handler]
      BY <1>0, <1>8, IdleType DEF LoadUser, TypeOK, Handler, PC
    <2> QED
      BY <1>8, <2>1 DEF LoadUser, TypeOK
  <1>9. CASE Mint(h)
    BY <1>1, <1>9, CountType DEF Mint, TypeOK
  <1>10. CASE DenyLogged(h)
    BY <1>1, <1>10, StatusType DEF DenyLogged, GuardedTransition, TypeOK, Status
  <1>11. CASE ApproveUpdate(h)
    <2>1. rows' \in [Row -> AuthorizationRequest]
      BY <1>11, ApprovedType DEF ApproveUpdate
    <2>2. approvals' \in [Row -> Nat]
      BY <1>11, CountType DEF ApproveUpdate, TypeOK
    <2> QED
      BY <1>1, <1>11, <2>1, <2>2 DEF ApproveUpdate, TypeOK
  <1>12. CASE RegisterAuthorizeFailure(h)
    <2>1. LockUntil(hs[h].fails + 1) \in Nat
      BY RequestAssumption DEF LockUntil, TypeOK
    <2>2. hs[h].fails + 1 \in Nat
      BY <1>0 DEF Handler
    <2>3. rows' = [rows EXCEPT ![hs[h].row].fails = hs[h].fails + 1,
                              ![hs[h].row].lock = LockUntil(hs[h].fails + 1)]
      BY <1>12 DEF RegisterAuthorizeFailure
    <2>4. rows' \in [Row -> AuthorizationRequest]
      BY <2>1, <2>2, <2>3, LockoutType
    <2> QED
      BY <1>1, <1>12, <2>4 DEF RegisterAuthorizeFailure, TypeOK
  <1> QED
    BY <1>2, <1>3, <1>4, <1>5, <1>6, <1>7, <1>8, <1>9, <1>10, <1>11, <1>12
       DEF Step

\* Type correctness of the device-authorization flow.
THEOREM TypeCorrect == Spec => []TypeOK
  <1>1. Init => TypeOK
    BY IdleType DEF Init, TypeOK, NoRequest, AuthorizationRequest, Status
  <1>2. TypeOK /\ [Next]_vars => TypeOK'
    <2> SUFFICES ASSUME TypeOK, [Next]_vars PROVE TypeOK'
      OBVIOUS
    <2>1. ASSUME NEW h \in Slot, Abort(h) PROVE TypeOK'
      BY <2>1, FinishType DEF Abort, TypeOK
    <2>2. ASSUME NEW u \in Known, DenyUser(u) PROVE TypeOK'
      BY <2>2 DEF DenyUser, TypeOK
    <2>3. CASE Tick
      BY <2>3 DEF Tick, TypeOK
    <2>4. CASE UNCHANGED vars
      BY <2>4 DEF vars, TypeOK
    <2> QED
      BY <2>1, <2>2, <2>3, <2>4, CallType, StepType DEF Next
  <1> QED
    BY <1>1, <1>2, PTL DEF Spec

-----------------------------------------------------------------------------
(* Sessions are paid for by approvals.                                     *)

Claiming(v) == v.pc \in {"loadUser", "mint"}

\* Slots are finite, so claimants can be counted.
LEMMA ClaimantsFinite ==
  ASSUME NEW a
  PROVE  IsFiniteSet(Claimants(a)) /\ Cardinality(Claimants(a)) \in Nat
  <1>1. Claimants(a) \in SUBSET Slot
    BY DEF Claimants
  <1> QED
    BY <1>1, RequestAssumption, FS_Subset, FS_CardinalityType

\* The same after a step.
LEMMA ClaimantsFinite2 ==
  ASSUME NEW a
  PROVE  IsFiniteSet(Claimants(a)') /\ Cardinality(Claimants(a)') \in Nat
  <1>1. Claimants(a)' \in SUBSET Slot
    BY DEF Claimants
  <1> QED
    BY <1>1, RequestAssumption, FS_Subset, FS_CardinalityType

\* A step that approves nothing, mints nothing and adds no claimant.
LEMMA LedgerShrinks ==
  ASSUME TypeOK, ApprovalLedger, UNCHANGED <<minted, approvals>>,
         \A a \in Row : rows'[a].st = "approved" => rows[a].st = "approved",
         \A h \in Slot : \/ hs'[h].row = hs[h].row /\ hs'[h].pc = hs[h].pc
                         \/ ~Claiming(hs'[h])
                         \/ hs'[h].row = hs[h].row /\ Claiming(hs[h])
  PROVE  ApprovalLedger'
  <1> SUFFICES ASSUME NEW a \in Row
               PROVE  minted'[a] + Cardinality(Claimants(a)')
                        + (IF rows'[a].st = "approved" THEN 1 ELSE 0)
                        <= approvals'[a]
    BY DEF ApprovalLedger
  <1>1. Claimants(a)' \subseteq Claimants(a)
    BY DEF Claimants, Claiming
  <1>2. Cardinality(Claimants(a)') <= Cardinality(Claimants(a))
    BY <1>1, ClaimantsFinite, FS_Subset
  <1>3. minted[a] \in Nat /\ approvals[a] \in Nat
    BY DEF TypeOK
  <1> QED
    BY <1>2, <1>3, ClaimantsFinite, ClaimantsFinite2 DEF ApprovalLedger

\* The claim moves the approved status's credit to the winning poll.
LEMMA ClaimLedger ==
  ASSUME TypeOK, ApprovalLedger, NEW h \in Slot, Claim(h)
  PROVE  ApprovalLedger'
  <1> DEFINE b == hs[h].row
  <1>1. CASE rows[b].st # "approved"
    <2>1. rows' = rows /\ Finish(h) /\ UNCHANGED <<minted, approvals>>
      BY <1>1 DEF Claim, GuardedTransition
    <2>2. \A x \in Slot : hs'[x] = hs[x] \/ ~Claiming(hs'[x])
      BY <2>1 DEF Finish, TypeOK, Idle, Claiming
    <2> QED
      BY <2>1, <2>2, LedgerShrinks
  <1>2. CASE rows[b].st = "approved"
    <2>1. /\ \A x \in Slot : x # h => hs'[x] = hs[x]
          /\ hs'[h].pc = "loadUser" /\ hs'[h].row = b /\ hs[h].pc = "claim"
          /\ UNCHANGED <<minted, approvals>>
      BY <1>2 DEF Claim, Goto, At, TypeOK, Handler
    <2>2. \A a \in Row : rows'[a].st = IF a = b THEN "logged" ELSE rows[a].st
      BY <1>2 DEF Claim, GuardedTransition, TypeOK, AuthorizationRequest
    <2> SUFFICES ASSUME NEW a \in Row
                 PROVE  minted'[a] + Cardinality(Claimants(a)')
                          + (IF rows'[a].st = "approved" THEN 1 ELSE 0)
                          <= approvals'[a]
      BY DEF ApprovalLedger
    <2>3. minted[a] \in Nat /\ approvals[a] \in Nat
      BY DEF TypeOK
    <2>4. CASE a # b
      <3>1. Claimants(a)' = Claimants(a)
        BY <2>1, <2>4 DEF Claimants
      <3> QED
        BY <2>1, <2>2, <2>3, <2>4, <3>1 DEF ApprovalLedger
    <2>5. CASE a = b
      <3>1. Claimants(a)' = Claimants(a) \cup {h} /\ h \notin Claimants(a)
        BY <2>1, <2>5 DEF Claimants
      <3>2. Cardinality(Claimants(a)') = Cardinality(Claimants(a)) + 1
        BY <3>1, ClaimantsFinite, FS_AddElement
      <3>3. minted[a] + Cardinality(Claimants(a)) + 1 <= approvals[a]
        BY <1>2, <2>5 DEF ApprovalLedger
      <3> QED
        BY <2>1, <2>2, <2>3, <2>5, <3>2, <3>3, ClaimantsFinite
    <2> QED
      BY <2>4, <2>5
  <1> QED
    BY <1>1, <1>2

\* The mint moves the winning poll's credit to the session.
LEMMA MintLedger ==
  ASSUME TypeOK, ApprovalLedger, NEW h \in Slot, Mint(h)
  PROVE  ApprovalLedger'
  <1> DEFINE b == hs[h].row
  <1>1. /\ \A x \in Slot : x # h => hs'[x] = hs[x]
        /\ hs'[h].pc = "idle" /\ hs[h].pc = "mint"
        /\ UNCHANGED <<rows, approvals>>
    BY DEF Mint, Finish, At, TypeOK, Idle
  <1>2. \A a \in Row : minted'[a] = IF a = b THEN minted[a] + 1 ELSE minted[a]
    BY DEF Mint, TypeOK
  <1> SUFFICES ASSUME NEW a \in Row
               PROVE  minted'[a] + Cardinality(Claimants(a)')
                        + (IF rows'[a].st = "approved" THEN 1 ELSE 0)
                        <= approvals'[a]
    BY DEF ApprovalLedger
  <1>3. minted[a] \in Nat /\ approvals[a] \in Nat
    BY DEF TypeOK
  <1>4. CASE a # b
    <2>1. Claimants(a)' = Claimants(a)
      BY <1>1, <1>4 DEF Claimants
    <2> QED
      BY <1>1, <1>2, <1>3, <1>4, <2>1 DEF ApprovalLedger
  <1>5. CASE a = b
    <2>1. Claimants(a)' = Claimants(a) \ {h} /\ h \in Claimants(a)
      BY <1>1, <1>5 DEF Claimants
    <2>2. Cardinality(Claimants(a)') = Cardinality(Claimants(a)) - 1
      BY <2>1, ClaimantsFinite, FS_RemoveElement, ZenonT(60)
    <2> QED
      BY <1>1, <1>2, <1>3, <1>5, <2>2, ClaimantsFinite DEF ApprovalLedger
  <1> QED
    BY <1>4, <1>5

\* The approving update pays in one credit.
LEMMA ApproveLedger ==
  ASSUME TypeOK, ApprovalLedger, NEW h \in Slot, ApproveUpdate(h)
  PROVE  ApprovalLedger'
  <1> DEFINE b == hs[h].row
  <1>1. /\ \A x \in Slot : x # h => hs'[x] = hs[x]
        /\ hs'[h].pc = "idle" /\ hs[h].pc = "approve"
        /\ UNCHANGED minted
    BY DEF ApproveUpdate, Finish, At, TypeOK, Idle
  <1>2. \A a \in Row : /\ a # b => rows'[a] = rows[a]
                       /\ approvals'[a] = IF a = b THEN approvals[a] + 1
                                                   ELSE approvals[a]
    BY DEF ApproveUpdate, TypeOK
  <1> SUFFICES ASSUME NEW a \in Row
               PROVE  minted'[a] + Cardinality(Claimants(a)')
                        + (IF rows'[a].st = "approved" THEN 1 ELSE 0)
                        <= approvals'[a]
    BY DEF ApprovalLedger
  <1>3. minted[a] \in Nat /\ approvals[a] \in Nat
    BY DEF TypeOK
  <1>4. Claimants(a)' = Claimants(a)
    BY <1>1 DEF Claimants
  <1> QED
    BY <1>1, <1>2, <1>3, <1>4, ClaimantsFinite DEF ApprovalLedger

\* Every step keeps the ledger.
LEMMA NextLedger == TypeOK /\ ApprovalLedger /\ [Next]_vars => ApprovalLedger'
  <1> SUFFICES ASSUME TypeOK, ApprovalLedger, [Next]_vars PROVE ApprovalLedger'
    OBVIOUS
  <1>1. ASSUME NEW h \in Slot, Call(h) \/ Abort(h) PROVE ApprovalLedger'
    <2>1. UNCHANGED <<rows, minted, approvals>>
      BY <1>1 DEF Call, Create, Poll, Authorize, Deny, Abort
    <2>2. \A x \in Slot : hs'[x] = hs[x] \/ ~Claiming(hs'[x])
      <3> USE DEF TypeOK, Idle, Claiming
      <3>1. ASSUME NEW n \in Name, NEW ip \in Ip, Create(h, n, ip)
            PROVE  ~Claiming(hs'[h]) /\ \A x \in Slot : x # h => hs'[x] = hs[x]
        BY <3>1 DEF Create
      <3>2. ASSUME NEW a \in Row, Poll(h, a)
            PROVE  ~Claiming(hs'[h]) /\ \A x \in Slot : x # h => hs'[x] = hs[x]
        BY <3>2 DEF Poll
      <3>3. ASSUME NEW a \in Row, NEW u \in Known, NEW valid \in BOOLEAN,
                   Authorize(h, a, u, valid)
            PROVE  ~Claiming(hs'[h]) /\ \A x \in Slot : x # h => hs'[x] = hs[x]
        BY <3>3 DEF Authorize
      <3>4. ASSUME NEW a \in Row, NEW u \in Known, Deny(h, a, u)
            PROVE  ~Claiming(hs'[h]) /\ \A x \in Slot : x # h => hs'[x] = hs[x]
        BY <3>4 DEF Deny
      <3>5. CASE Abort(h)
        BY <3>5 DEF Abort, Finish
      <3> HIDE DEF TypeOK, Idle, Claiming
      <3> QED
        BY <1>1, <3>1, <3>2, <3>3, <3>4, <3>5 DEF Call
    <2> QED
      BY <2>1, <2>2, LedgerShrinks, SMTT(40)
  <1>2. ASSUME NEW h \in Slot,
               CapCount(h) \/ CapFind(h) \/ Evict(h) \/ Save(h) \/ Expire(h)
               \/ LoadUser(h) \/ DenyLogged(h) \/ RegisterAuthorizeFailure(h)
               \/ DenyUpdate(h)
        PROVE  ApprovalLedger'
    <2>1. UNCHANGED <<minted, approvals>>
      BY <1>2 DEF CapCount, CapFind, Evict, Save, Expire, LoadUser, DenyLogged,
         RegisterAuthorizeFailure, DenyUpdate
    <2>2. \A x \in Slot : x # h => hs'[x] = hs[x]
      BY <1>2 DEF CapCount, CapFind, Evict, Save, Expire, LoadUser, DenyLogged,
         RegisterAuthorizeFailure, DenyUpdate, Goto, Finish, TypeOK
    <2>3. ~Claiming(hs'[h]) \/ (hs'[h].row = hs[h].row /\ Claiming(hs[h]))
      <3>1. CASE CapCount(h) \/ CapFind(h) \/ Evict(h)
        BY <3>1 DEF CapCount, CapFind, Evict, Goto, TypeOK, Handler, Claiming
      <3>2. CASE LoadUser(h)
        BY <3>2 DEF LoadUser, At, TypeOK, Handler, Idle, Claiming
      <3>3. CASE Finish(h)
        BY <3>3 DEF Finish, TypeOK, Idle, Claiming
      <3> QED
        BY <1>2, <3>1, <3>2, <3>3 DEF Save, Expire, DenyLogged,
           RegisterAuthorizeFailure, DenyUpdate
    <2>4. \A a \in Row : rows'[a].st = "approved" => rows[a].st = "approved"
      <3>1. CASE Evict(h) \/ Expire(h) \/ DenyUpdate(h)
        BY <3>1 DEF Evict, Expire, DenyUpdate, SetStatus, TypeOK,
           AuthorizationRequest
      <3>2. CASE Save(h)
        BY <3>2 DEF Save, TypeOK, NoRequest
      <3>3. CASE DenyLogged(h)
        BY <3>3 DEF DenyLogged, GuardedTransition, TypeOK, AuthorizationRequest
      <3>4. CASE RegisterAuthorizeFailure(h)
        BY <3>4 DEF RegisterAuthorizeFailure, TypeOK, AuthorizationRequest
      <3> QED
        BY <1>2, <3>1, <3>2, <3>3, <3>4 DEF CapCount, CapFind, LoadUser
    <2> QED
      BY <2>1, <2>2, <2>3, <2>4, LedgerShrinks
  <1>3. ASSUME NEW h \in Slot, Step(h) PROVE ApprovalLedger'
    BY <1>2, <1>3, ClaimLedger, MintLedger, ApproveLedger DEF Step
  <1>4. CASE Tick \/ UNCHANGED vars \/ \E u \in Known : DenyUser(u)
    BY <1>4, LedgerShrinks DEF Tick, vars, DenyUser
  <1> QED
    BY <1>1, <1>3, <1>4 DEF Next

\* The ledger holds in every reachable state.
THEOREM LedgerHolds == Spec => []ApprovalLedger
  <1>1. Init => ApprovalLedger
    <2> SUFFICES ASSUME Init, NEW a \in Row
                 PROVE  minted[a] + Cardinality(Claimants(a))
                          + (IF rows[a].st = "approved" THEN 1 ELSE 0)
                          <= approvals[a]
      BY DEF ApprovalLedger
    <2>1. Claimants(a) = {}
      BY DEF Init, Claimants, Idle
    <2> QED
      BY <2>1, FS_EmptySet DEF Init, NoRequest
  <1> QED
    BY <1>1, NextLedger, TypeCorrect, PTL DEF Spec

\* However many polls run together, a request mints no more sessions than it
\* received approving updates.
THEOREM SessionsAreApproved == Spec => []SessionsBackedByApprovals
  <1>1. TypeOK /\ ApprovalLedger => SessionsBackedByApprovals
    BY ClaimantsFinite DEF TypeOK, ApprovalLedger, SessionsBackedByApprovals
  <1> QED
    BY <1>1, LedgerHolds, TypeCorrect, PTL

-----------------------------------------------------------------------------
(* Only the named user approves.                                           *)

Owned == OnlyOwnersApprove /\ ApproverHoldsOwnRow

\* A step that keeps approvals and the rows' owners, approves nothing, logs
\* nothing that was not approved, and adds no approving handler.
LEMMA OwnedKept ==
  ASSUME TypeOK, Owned, UNCHANGED approvals,
         \A a \in Row : /\ rows[a].st # "none" => /\ rows'[a].st # "none"
                                                  /\ rows'[a].name = rows[a].name
                        /\ rows'[a].st \in {"approved", "logged"}
                             => rows[a].st \in {"approved", "logged"},
         \A h \in Slot : hs'[h] = hs[h] \/ hs'[h].pc # "approve"
  PROVE  Owned'
  BY DEF Owned, OnlyOwnersApprove, ApproverHoldsOwnRow, At

\* Every step keeps it.
LEMMA NextOwned == TypeOK /\ Owned /\ [Next]_vars => Owned'
  <1> SUFFICES ASSUME TypeOK, Owned, [Next]_vars PROVE Owned'
    OBVIOUS
  <1> USE DEF TypeOK
  <1>1. ASSUME NEW h \in Slot,
               \/ \E n \in Name, ip \in Ip : Create(h, n, ip)
               \/ \E a \in Row : Poll(h, a)
               \/ \E a \in Row, u \in Known : Deny(h, a, u)
               \/ Abort(h) \/ CapCount(h) \/ CapFind(h) \/ LoadUser(h)
               \/ Mint(h)
        PROVE  Owned'
    <2>1. UNCHANGED <<rows, approvals>>
      BY <1>1, ZenonT(60)
         DEF Create, Poll, Deny, Abort, CapCount, CapFind, LoadUser, Mint
    <2>2. \A x \in Slot : x # h => hs'[x] = hs[x]
      BY <1>1 DEF Create, Poll, Deny, Abort, CapCount, CapFind, LoadUser, Mint,
         Goto, Finish
    <2>3. hs'[h].pc # "approve"
      <3> USE DEF Idle, Handler
      <3>1. ASSUME NEW n \in Name, NEW ip \in Ip, Create(h, n, ip)
            PROVE  hs'[h].pc # "approve"
        BY <3>1 DEF Create
      <3>2. ASSUME NEW a \in Row, NEW u \in Known, Deny(h, a, u)
            PROVE  hs'[h].pc # "approve"
        BY <3>2 DEF Deny
      <3>3. ASSUME NEW a \in Row, Poll(h, a)
            PROVE  hs'[h].pc # "approve"
        BY <3>3 DEF Poll
      <3>4. CASE CapCount(h) \/ CapFind(h)
        BY <3>4 DEF CapCount, CapFind, Goto
      <3>5. CASE LoadUser(h)
        BY <3>5 DEF LoadUser
      <3>6. CASE Abort(h) \/ Mint(h)
        BY <3>6 DEF Abort, Mint, Finish
      <3> QED
        BY <1>1, <3>1, <3>2, <3>3, <3>4, <3>5, <3>6
    <2> QED
      BY <2>1, <2>2, <2>3, OwnedKept, SMTT(40)
  <1>2. ASSUME NEW h \in Slot,
               \/ Evict(h) \/ Save(h) \/ Expire(h) \/ Claim(h) \/ DenyLogged(h)
               \/ RegisterAuthorizeFailure(h) \/ DenyUpdate(h)
        PROVE  Owned'
    <2>1. \A a \in Row : /\ rows[a].st # "none" => /\ rows'[a].st # "none"
                                                   /\ rows'[a].name = rows[a].name
                         /\ rows'[a].st \in {"approved", "logged"}
                              => rows[a].st \in {"approved", "logged"}
      <3> USE DEF AuthorizationRequest
      <3>1. CASE Evict(h) \/ Expire(h) \/ DenyUpdate(h)
        BY <3>1, SMTT(40) DEF Evict, Expire, DenyUpdate, SetStatus
      <3>2. CASE Save(h)
        BY <3>2 DEF Save, NoRequest
      <3>3. CASE Claim(h) \/ DenyLogged(h)
        BY <3>3 DEF Claim, DenyLogged, GuardedTransition
      <3>4. CASE RegisterAuthorizeFailure(h)
        BY <3>4 DEF RegisterAuthorizeFailure
      <3> QED
        BY <1>2, <3>1, <3>2, <3>3, <3>4
    <2>2. \A x \in Slot : hs'[x] = hs[x] \/ hs'[x].pc # "approve"
      <3>1. CASE Finish(h)
        BY <3>1 DEF Finish, Idle
      <3>2. CASE Evict(h)
        BY <3>2 DEF Evict, Handler
      <3>3. CASE Goto(h, "loadUser")
        BY <3>3 DEF Goto, Handler
      <3> QED
        BY <1>2, <3>1, <3>2, <3>3 DEF Save, Expire, Claim, DenyLogged,
           RegisterAuthorizeFailure, DenyUpdate
    <2>3. UNCHANGED approvals
      BY <1>2 DEF Evict, Save, Expire, Claim, DenyLogged,
         RegisterAuthorizeFailure, DenyUpdate
    <2> QED
      BY <2>1, <2>2, <2>3, OwnedKept
  <1>3. ASSUME NEW h \in Slot, ApproveUpdate(h) PROVE Owned'
    <2>1. /\ hs[h].row \in Row
          /\ rows[hs[h].row].st # "none" /\ rows[hs[h].row].name \in Known
      BY <1>3 DEF ApproveUpdate, Owned, ApproverHoldsOwnRow
    <2>2. \A a \in Row :
            /\ rows'[a].name = rows[a].name
            /\ rows'[a].st = IF a = hs[h].row THEN "approved" ELSE rows[a].st
            /\ approvals'[a] = IF a = hs[h].row THEN approvals[a] + 1
                                                ELSE approvals[a]
      BY <1>3 DEF ApproveUpdate, AuthorizationRequest
    <2>3. \A x \in Slot : hs'[x] = hs[x] \/ hs'[x].pc # "approve"
      BY <1>3 DEF ApproveUpdate, Finish, Idle
    <2> QED
      BY <2>1, <2>2, <2>3
         DEF Owned, OnlyOwnersApprove, ApproverHoldsOwnRow, At
  <1>4. ASSUME NEW h \in Slot, NEW a \in Row, NEW u \in Known,
               NEW valid \in BOOLEAN, Authorize(h, a, u, valid)
        PROVE  Owned'
    <2>1. /\ \A x \in Slot : x # h => hs'[x] = hs[x]
          /\ hs'[h].row = a
          /\ UNCHANGED <<rows, approvals>>
      BY <1>4 DEF Authorize, Idle
    <2>2. rows[a].st = "open" /\ rows[a].name \in Known
      BY <1>4 DEF Authorize, OwnedOpen, OpenOf
    <2> QED
      BY <2>1, <2>2 DEF Owned, OnlyOwnersApprove, ApproverHoldsOwnRow, At
  <1>5. CASE Tick \/ UNCHANGED vars \/ \E u \in Known : DenyUser(u)
    BY <1>5, OwnedKept DEF Tick, vars, DenyUser
  <1> QED
    BY <1>1, <1>2, <1>3, <1>4, <1>5 DEF Next, Call, Step

\* A request whose username is unknown, or whose owner never approved it, is
\* never approved or logged.
THEOREM OwnersApprove == Spec => []OnlyOwnersApprove
  <1>1. Init => Owned
    BY DEF Init, Owned, OnlyOwnersApprove, ApproverHoldsOwnRow, At, NoRequest,
       Idle
  <1>2. Owned => OnlyOwnersApprove
    BY DEF Owned
  <1> QED
    BY <1>1, <1>2, NextOwned, TypeCorrect, PTL DEF Spec

-----------------------------------------------------------------------------
(* The status machine, for one writer of an open row at a time.            *)

\* Handlers about to write, by id, a row they found open.
WritesOpenRow(h) == hs[h].pc \in {"evict", "expire", "approve", "deny"}

\* The hypothesis: no two handlers are between their read of one open row and
\* their write of it.  Two of them answer to the row's owner and to the clock,
\* and the code keeps them apart by nothing but time.
WritersApart ==
    \A h, g \in Slot :
        (WritesOpenRow(h) /\ WritesOpenRow(g) /\ hs[h].row = hs[g].row) => h = g

\* The poll that has won the claim of its row.
WonClaim(h) == hs[h].pc \in {"loadUser", "mint", "denyLogged"}

\* A writer's row is still open; the one winner of a claim has a row that is
\* logged and not yet minted for; no session precedes the claim.
MachineInv ==
    /\ \A h \in Slot : WritesOpenRow(h) => /\ hs[h].row \in Row
                                           /\ rows[hs[h].row].st = "open"
    /\ \A h \in Slot : WonClaim(h) => /\ hs[h].row \in Row
                                      /\ rows[hs[h].row].st = "logged"
                                      /\ minted[hs[h].row] = 0
    /\ \A h \in Slot : At(h, "claim") => hs[h].row \in Row
    /\ \A h, g \in Slot :
         (WonClaim(h) /\ WonClaim(g) /\ hs[h].row = hs[g].row) => h = g
    /\ \A a \in Row : rows[a].st \in {"none", "open", "approved"}
                        => minted[a] = 0
    /\ \A a \in Row : minted[a] \in {0, 1}

\* What a step may do to the statuses and to the handlers that matter here.
StatusesKept == \A a \in Row : rows'[a].st = rows[a].st

StatusMoves(b, to) ==
    \A a \in Row : rows'[a].st = IF a = b THEN to ELSE rows[a].st

OnlySlot(h) == \A x \in Slot : x # h => hs'[x] = hs[x]

NoNewWinner ==
    \A x \in Slot :
        /\ WritesOpenRow(x)' => \/ WritesOpenRow(x) /\ hs'[x].row = hs[x].row
                                \/ hs'[x].row \in Row
                                     /\ rows[hs'[x].row].st = "open"
        /\ WonClaim(x)' => WonClaim(x) /\ hs'[x].row = hs[x].row
        /\ At(x, "claim")' => \/ At(x, "claim") /\ hs'[x].row = hs[x].row
                             \/ hs'[x].row \in Row

\* The five ways a step moves the machine, and the one that leaves it alone.
Quiet == StatusesKept /\ UNCHANGED minted /\ NoNewWinner

Opens ==
    \E b \in Row : /\ rows[b].st = "none" /\ StatusMoves(b, "open")
                   /\ UNCHANGED minted /\ NoNewWinner

Closes(h) ==
    /\ WritesOpenRow(h)
    /\ \E to \in {"approved", "denied", "expired"} : StatusMoves(hs[h].row, to)
    /\ UNCHANGED minted /\ OnlySlot(h)
    /\ hs'[h].pc \in {"idle", "save"}

Claims(h) ==
    /\ hs[h].row \in Row /\ rows[hs[h].row].st = "approved"
    /\ StatusMoves(hs[h].row, "logged")
    /\ UNCHANGED minted /\ OnlySlot(h)
    /\ hs'[h].pc = "loadUser" /\ hs'[h].row = hs[h].row

Mints(h) ==
    /\ WonClaim(h) /\ StatusesKept
    /\ minted' = [minted EXCEPT ![hs[h].row] = @ + 1]
    /\ OnlySlot(h) /\ hs'[h].pc = "idle"

TakesBack(h) ==
    /\ WonClaim(h) /\ StatusMoves(hs[h].row, "denied")
    /\ UNCHANGED minted /\ OnlySlot(h) /\ hs'[h].pc = "idle"

MachineStep ==
    \/ Quiet \/ Opens
    \/ \E h \in Slot : Closes(h) \/ Claims(h) \/ Mints(h) \/ TakesBack(h)

\* A step of one slot, that leaves it in a harmless place.
LEMMA SlotQuiet ==
  ASSUME TypeOK, NEW h \in Slot, OnlySlot(h),
         hs'[h].pc \notin {"loadUser", "mint", "denyLogged"},
         hs'[h].pc \in {"evict", "expire", "approve", "deny"}
           => hs'[h].row \in Row /\ rows[hs'[h].row].st = "open",
         hs'[h].pc = "claim" => hs'[h].row \in Row
  PROVE  NoNewWinner
  BY DEF NoNewWinner, OnlySlot, WritesOpenRow, WonClaim, At

\* The calls only read, and a failing statement writes nothing.
LEMMA CallMachine ==
  ASSUME TypeOK, NEW h \in Slot, Call(h) \/ Abort(h)
  PROVE  Quiet
  <1> USE DEF TypeOK, Idle, OnlySlot
  <1>1. UNCHANGED <<rows, minted>>
    BY DEF Call, Create, Poll, Authorize, Deny, Abort
  <1> SUFFICES NoNewWinner
    BY <1>1 DEF Quiet, StatusesKept
  <1>2. ASSUME NEW n \in Name, NEW ip \in Ip, Create(h, n, ip)
        PROVE  NoNewWinner
    <2>1. hs'[h].pc \in {"capCount", "save"} /\ OnlySlot(h)
      BY <1>2 DEF Create
    <2> QED
      BY <2>1, SlotQuiet
  <1>3. ASSUME NEW a \in Row, Poll(h, a)
        PROVE  NoNewWinner
    <2>1. /\ hs'[h].pc = IF rows[a].st = "open" THEN "expire" ELSE "claim"
          /\ hs'[h].row = a /\ OnlySlot(h)
      BY <1>3 DEF Poll
    <2> QED
      BY <2>1, SlotQuiet
  <1>4. ASSUME NEW a \in Row, NEW u \in Known, NEW valid \in BOOLEAN,
               Authorize(h, a, u, valid)
        PROVE  NoNewWinner
    <2>1. /\ hs'[h].pc \in {"approve", "fail"}
          /\ hs'[h].row = a /\ OnlySlot(h)
      BY <1>4 DEF Authorize
    <2>2. rows[a].st = "open"
      BY <1>4 DEF Authorize, OwnedOpen, OpenOf
    <2> QED
      BY <2>1, <2>2, SlotQuiet
  <1>5. ASSUME NEW a \in Row, NEW u \in Known, Deny(h, a, u)
        PROVE  NoNewWinner
    <2>1. hs'[h].pc = "deny" /\ hs'[h].row = a /\ OnlySlot(h)
      BY <1>5 DEF Deny
    <2>2. rows[a].st = "open"
      BY <1>5 DEF Deny, OwnedOpen, OpenOf
    <2> QED
      BY <2>1, <2>2, SlotQuiet
  <1>6. CASE Abort(h)
    <2>1. hs'[h].pc = "idle" /\ OnlySlot(h)
      BY <1>6 DEF Abort, Finish
    <2> QED
      BY <2>1, SlotQuiet
  <1> QED
    BY <1>2, <1>3, <1>4, <1>5, <1>6, SMTT(40) DEF Call

\* Each statement moves the machine in one of the five ways, or not at all.
LEMMA StatementMachine ==
  ASSUME TypeOK, MachineInv, NEW h \in Slot, Step(h)
  PROVE  MachineStep
  <1> USE DEF TypeOK
  <1>1. Finish(h) => hs'[h].pc = "idle" /\ OnlySlot(h)
    BY DEF Finish, Idle, OnlySlot
  <1>2. CASE CapCount(h)
    <2>1. hs'[h].pc \in {"capFind", "save"} /\ OnlySlot(h)
      BY <1>2 DEF CapCount, Goto, OnlySlot, Handler
    <2>2. NoNewWinner
      BY <2>1, SlotQuiet
    <2> QED
      BY <1>2, <2>2 DEF CapCount, MachineStep, Quiet, StatusesKept
  <1>3. CASE CapFind(h)
    <2>1. CASE Goto(h, "save")
      <3>1. hs'[h].pc = "save" /\ OnlySlot(h)
        BY <2>1 DEF Goto, OnlySlot, Handler
      <3> QED
        BY <3>1, SlotQuiet, <1>3 DEF CapFind, MachineStep, Quiet, StatusesKept
    <2>2. ASSUME NEW a \in OpenOf(hs[h].name),
                 hs' = [hs EXCEPT ![h].pc = "evict", ![h].row = a]
          PROVE  MachineStep
      <3>1. hs'[h].pc = "evict" /\ hs'[h].row = a /\ OnlySlot(h)
        BY <2>2 DEF OnlySlot, Handler
      <3>2. a \in Row /\ rows[a].st = "open"
        BY DEF OpenOf
      <3>3. NoNewWinner
        BY <3>1, <3>2, SlotQuiet
      <3> QED
        BY <1>3, <3>3 DEF CapFind, MachineStep, Quiet, StatusesKept
    <2> QED
      BY <1>3, <2>1, <2>2 DEF CapFind
  <1>4. ASSUME NEW to \in {"approved", "denied", "expired"},
               WritesOpenRow(h), OnlySlot(h), hs'[h].pc \in {"idle", "save"},
               UNCHANGED minted, StatusMoves(hs[h].row, to)
        PROVE  MachineStep
    BY <1>4 DEF MachineStep, Closes
  <1>5. CASE Evict(h)
    <2>1. /\ OnlySlot(h) /\ hs'[h].pc = "save" /\ WritesOpenRow(h)
          /\ UNCHANGED minted
      BY <1>5 DEF Evict, At, OnlySlot, WritesOpenRow, Handler
    <2>2. StatusMoves(hs[h].row, "expired")
      BY <1>5 DEF Evict, SetStatus, StatusMoves, AuthorizationRequest
    <2> QED
      BY <1>4, <2>1, <2>2
  <1>6. CASE Expire(h)
    <2>1. WritesOpenRow(h) /\ UNCHANGED minted /\ Finish(h)
      BY <1>6 DEF Expire, At, WritesOpenRow
    <2>2. StatusMoves(hs[h].row, "expired")
      BY <1>6 DEF Expire, SetStatus, StatusMoves, AuthorizationRequest
    <2> QED
      BY <1>1, <1>4, <2>1, <2>2
  <1>7. CASE DenyUpdate(h)
    <2>1. WritesOpenRow(h) /\ UNCHANGED minted /\ Finish(h)
      BY <1>7 DEF DenyUpdate, At, WritesOpenRow
    <2>2. StatusMoves(hs[h].row, "denied")
      BY <1>7 DEF DenyUpdate, SetStatus, StatusMoves, AuthorizationRequest
    <2> QED
      BY <1>1, <1>4, <2>1, <2>2
  <1>8. CASE ApproveUpdate(h)
    <2>1. WritesOpenRow(h) /\ UNCHANGED minted /\ Finish(h)
      BY <1>8 DEF ApproveUpdate, At, WritesOpenRow
    <2>2. StatusMoves(hs[h].row, "approved")
      BY <1>8 DEF ApproveUpdate, StatusMoves, AuthorizationRequest
    <2> QED
      BY <1>1, <1>4, <2>1, <2>2
  <1>9. CASE Save(h)
    <2>1. PICK b \in Row :
            /\ rows[b].st = "none"
            /\ rows' = [rows EXCEPT ![b] =
                          [NoRequest EXCEPT !.st = "open", !.name = hs[h].name,
                                            !.ip = hs[h].ip, !.made = now,
                                            !.exp = hs[h].exp]]
      BY <1>9 DEF Save
    <2>2. StatusMoves(b, "open")
      BY <2>1 DEF StatusMoves, NoRequest
    <2>3. NoNewWinner
      BY <1>1, <1>9, SlotQuiet DEF Save
    <2> QED
      BY <1>9, <2>1, <2>2, <2>3 DEF Save, MachineStep, Opens
  <1>10. CASE Claim(h)
    <2>1. hs[h].row \in Row
      BY <1>10 DEF Claim, MachineInv
    <2>2. CASE rows[hs[h].row].st = "approved"
      <3>1. StatusMoves(hs[h].row, "logged")
        BY <1>10, <2>2
           DEF Claim, GuardedTransition, StatusMoves, AuthorizationRequest
      <3>2. /\ OnlySlot(h) /\ UNCHANGED minted
            /\ hs'[h].pc = "loadUser" /\ hs'[h].row = hs[h].row
        BY <1>10, <2>2 DEF Claim, Goto, OnlySlot, Handler
      <3> QED
        BY <2>1, <2>2, <3>1, <3>2 DEF MachineStep, Claims
    <2>3. CASE rows[hs[h].row].st # "approved"
      <3>1. rows' = rows /\ Finish(h) /\ UNCHANGED minted
        BY <1>10, <2>3 DEF Claim, GuardedTransition
      <3>2. NoNewWinner
        BY <1>1, <3>1, SlotQuiet
      <3> QED
        BY <3>1, <3>2 DEF MachineStep, Quiet, StatusesKept
    <2> QED
      BY <2>2, <2>3
  <1>11. CASE LoadUser(h)
    <2>1. OnlySlot(h) /\ UNCHANGED <<rows, minted>>
      BY <1>11 DEF LoadUser, OnlySlot
    <2>2. \/ hs'[h].pc = "idle"
          \/ WonClaim(h) /\ hs'[h].row = hs[h].row
               /\ hs'[h].pc \in {"mint", "denyLogged"}
      BY <1>11 DEF LoadUser, At, WonClaim, Handler, Idle
    <2>3. NoNewWinner
      BY <2>1, <2>2 DEF NoNewWinner, OnlySlot, WritesOpenRow, WonClaim, At
    <2> QED
      BY <2>1, <2>3 DEF MachineStep, Quiet, StatusesKept
  <1>12. CASE Mint(h)
    BY <1>1, <1>12 DEF Mint, At, MachineStep, Mints, WonClaim, StatusesKept
  <1>13. CASE DenyLogged(h)
    <2>1. WonClaim(h) /\ UNCHANGED minted /\ Finish(h)
      BY <1>13 DEF DenyLogged, At, WonClaim
    <2>2. rows[hs[h].row].st = "logged"
      BY <2>1 DEF MachineInv
    <2>3. StatusMoves(hs[h].row, "denied")
      BY <1>13, <2>2
         DEF DenyLogged, GuardedTransition, StatusMoves, AuthorizationRequest
    <2> QED
      BY <1>1, <2>1, <2>3 DEF MachineStep, TakesBack
  <1>14. CASE RegisterAuthorizeFailure(h)
    <2>1. StatusesKept /\ UNCHANGED minted /\ Finish(h)
      BY <1>14 DEF RegisterAuthorizeFailure, StatusesKept, AuthorizationRequest
    <2>2. NoNewWinner
      BY <1>1, <2>1, SlotQuiet
    <2> QED
      BY <2>1, <2>2 DEF MachineStep, Quiet
  <1> QED
    BY <1>2, <1>3, <1>5, <1>6, <1>7, <1>8, <1>9, <1>10, <1>11, <1>12, <1>13,
       <1>14 DEF Step

LEMMA NextMachine == TypeOK /\ MachineInv /\ [Next]_vars => MachineStep
  <1> SUFFICES ASSUME TypeOK, MachineInv, [Next]_vars PROVE MachineStep
    OBVIOUS
  <1>1. ASSUME NEW h \in Slot, Call(h) \/ Abort(h) PROVE MachineStep
    BY <1>1, CallMachine DEF MachineStep
  <1>2. CASE Tick \/ UNCHANGED vars \/ \E u \in Known : DenyUser(u)
    <2>1. UNCHANGED <<rows, minted, hs>>
      BY <1>2 DEF Tick, vars, DenyUser
    <2> QED
      BY <2>1 DEF MachineStep, Quiet, StatusesKept, NoNewWinner, WritesOpenRow,
         WonClaim, At
  <1> QED
    BY <1>1, <1>2, StatementMachine DEF Next

\* Each way keeps the invariant; closing a row is where the hypothesis counts.
LEMMA MachineKept ==
  ASSUME TypeOK, MachineInv, WritersApart, MachineStep
  PROVE  MachineInv'
  <1> USE DEF WritesOpenRow, WonClaim, At
  <1>1. CASE Quiet
    BY <1>1 DEF Quiet, StatusesKept, NoNewWinner, MachineInv
  <1>2. CASE Opens
    <2>1. PICK b \in Row : /\ rows[b].st = "none" /\ StatusMoves(b, "open")
                           /\ UNCHANGED minted /\ NoNewWinner
      BY <1>2 DEF Opens
    <2> QED
      BY <2>1 DEF StatusMoves, NoNewWinner, MachineInv
  <1>3. ASSUME NEW h \in Slot, Closes(h) PROVE MachineInv'
    <2>1. PICK to \in {"approved", "denied", "expired"} :
            StatusMoves(hs[h].row, to)
      BY <1>3 DEF Closes
    <2>2. \A x \in Slot : x # h /\ WritesOpenRow(x) => hs[x].row # hs[h].row
      BY <1>3 DEF Closes, WritersApart
    <2>3. hs[h].row \in Row /\ rows[hs[h].row].st = "open"
            /\ minted[hs[h].row] = 0
      BY <1>3 DEF Closes, MachineInv
    <2> QED
      BY <1>3, <2>1, <2>2, <2>3 DEF Closes, StatusMoves, OnlySlot, MachineInv
  <1>4. ASSUME NEW h \in Slot, Claims(h) PROVE MachineInv'
    <2>1. hs[h].row \in Row /\ rows[hs[h].row].st = "approved"
            /\ minted[hs[h].row] = 0
      BY <1>4 DEF Claims, MachineInv
    <2> QED
      BY <1>4, <2>1 DEF Claims, StatusMoves, OnlySlot, MachineInv
  <1>5. ASSUME NEW h \in Slot, Mints(h) PROVE MachineInv'
    <2>1. hs[h].row \in Row /\ rows[hs[h].row].st = "logged"
            /\ minted[hs[h].row] = 0
      BY <1>5 DEF Mints, MachineInv
    <2>2. \A a \in Row : minted'[a] = IF a = hs[h].row THEN 1 ELSE minted[a]
      BY <1>5, <2>1 DEF Mints, TypeOK
    <2> QED
      BY <1>5, <2>1, <2>2 DEF Mints, StatusesKept, OnlySlot, MachineInv
  <1>6. ASSUME NEW h \in Slot, TakesBack(h) PROVE MachineInv'
    <2>1. hs[h].row \in Row /\ rows[hs[h].row].st = "logged"
      BY <1>6 DEF TakesBack, MachineInv
    <2> QED
      BY <1>6, <2>1 DEF TakesBack, StatusMoves, OnlySlot, MachineInv
  <1> QED
    BY <1>1, <1>2, <1>3, <1>4, <1>5, <1>6 DEF MachineStep

\* A status that follows an edge is a step of the abstract machine.
LEMMA FollowsEdge ==
  ASSUME TypeOK, NEW b \in Row, NEW to, StatusMoves(b, to), UNCHANGED minted,
         <<rows[b].st, to>> \in StatusMachine!Edges
  PROVE  StatusMachine!Next
  <1> DEFINE from == [a \in Row |-> rows[a].st]
             after == [a \in Row |-> rows'[a].st]
  <1>1. after = [from EXCEPT ![b] = to]
    BY DEF StatusMoves
  <1>2. StatusMachine!Move(b)
    BY <1>1 DEF StatusMachine!Move
  <1> QED
    BY <1>2 DEF StatusMachine!Next

\* So is the mint of a logged row that has no session yet.
LEMMA MintsOnce ==
  ASSUME TypeOK, MachineInv, NEW h \in Slot, Mints(h)
  PROVE  StatusMachine!Next
  <1>1. hs[h].row \in Row /\ rows[hs[h].row].st = "logged"
          /\ minted[hs[h].row] = 0
    BY DEF Mints, MachineInv
  <1>2. minted' = [minted EXCEPT ![hs[h].row] = 1]
    BY <1>1 DEF Mints, TypeOK
  <1>3. [a \in Row |-> rows[a].st]' = [a \in Row |-> rows[a].st]
    BY DEF Mints, StatusesKept
  <1>4. StatusMachine!Mint(hs[h].row)
    BY <1>1, <1>2, <1>3 DEF StatusMachine!Mint
  <1> QED
    BY <1>1, <1>4 DEF StatusMachine!Next

\* Every step of the flow is a step of the abstract machine or a stutter.
LEMMA MachineSimulated ==
  ASSUME TypeOK, MachineInv, MachineStep
  PROVE  [StatusMachine!Next]_(StatusMachine!vars)
  <1> USE DEF StatusMachine!Edges
  <1>1. CASE Quiet
    BY <1>1 DEF Quiet, StatusesKept, StatusMachine!vars
  <1>2. CASE Opens
    BY <1>2, FollowsEdge DEF Opens
  <1>3. ASSUME NEW h \in Slot, Closes(h) PROVE StatusMachine!Next
    <2>1. PICK to \in {"approved", "denied", "expired"} :
            StatusMoves(hs[h].row, to)
      BY <1>3 DEF Closes
    <2>2. hs[h].row \in Row /\ rows[hs[h].row].st = "open" /\ UNCHANGED minted
      BY <1>3 DEF Closes, MachineInv
    <2>3. <<rows[hs[h].row].st, to>> \in StatusMachine!Edges
      BY <2>2
    <2> QED
      BY <2>1, <2>2, <2>3, FollowsEdge
  <1>4. ASSUME NEW h \in Slot, Claims(h) PROVE StatusMachine!Next
    <2>1. <<rows[hs[h].row].st, "logged">> \in StatusMachine!Edges
      BY <1>4 DEF Claims
    <2> QED
      BY <1>4, <2>1, FollowsEdge DEF Claims
  <1>5. ASSUME NEW h \in Slot, TakesBack(h) PROVE StatusMachine!Next
    <2>1. hs[h].row \in Row /\ rows[hs[h].row].st = "logged"
      BY <1>5 DEF TakesBack, MachineInv
    <2>2. <<rows[hs[h].row].st, "denied">> \in StatusMachine!Edges
      BY <2>1
    <2> QED
      BY <1>5, <2>1, <2>2, FollowsEdge DEF TakesBack
  <1> QED
    BY <1>1, <1>2, <1>3, <1>4, <1>5, MintsOnce DEF MachineStep

\* The invariant holds while the writers of a row keep apart.
LEMMA MachineHolds == Spec /\ []WritersApart => []MachineInv
  <1>1. Init => MachineInv
    BY DEF Init, MachineInv, WritesOpenRow, WonClaim, At, Idle, NoRequest
  <1>2. TypeOK /\ WritersApart /\ MachineInv /\ [Next]_vars => MachineInv'
    BY NextMachine, MachineKept
  <1> QED
    BY <1>1, <1>2, TypeCorrect, PTL DEF Spec

\* The refinement: as long as no two handlers write the same open row, every
\* request follows the status machine of the documentation, and mints its one
\* session in the logged state.  Polls, claims, mints, denials of the user and
\* failing statements may interleave with each other and with the writers.
THEOREM StatusMachineFollowed ==
  Spec /\ []WritersApart => FollowsStatusMachine
  <1>1. Init => StatusMachine!Init
    BY DEF Init, StatusMachine!Init, NoRequest
  <1>2. TypeOK /\ MachineInv /\ [Next]_vars
          => [StatusMachine!Next]_(StatusMachine!vars)
    BY NextMachine, MachineSimulated
  <1> QED
    BY <1>1, <1>2, MachineHolds, TypeCorrect, PTL
       DEF Spec, FollowsStatusMachine, StatusMachine!Spec

\* Then two polls of one request never end in two sessions.
THEOREM OneSession == Spec /\ []WritersApart => []OneSessionPerRequest
  <1>1. MachineInv => OneSessionPerRequest
    BY DEF MachineInv, OneSessionPerRequest
  <1> QED
    BY <1>1, MachineHolds, PTL

-----------------------------------------------------------------------------
(* The lockout of authorize, for one call on a row at a time.              *)

\* The hypothesis: no call with the right password is between its read of the
\* row and its update while one with a wrong password is.
AuthorizesApart ==
    \A h, g \in Slot :
        (At(h, "approve") /\ At(g, "fail")) => hs[h].row # hs[g].row

\* A call about to approve has a row that is there and not locked out.
ApproverNotLocked ==
    \A h \in Slot : At(h, "approve") =>
        /\ hs[h].row \in Row
        /\ rows[hs[h].row].st # "none"
        /\ ~LockedOut(hs[h].row)

\* A step that changes no lock of an existing row and starts no approver.
LEMMA LocksKept ==
  ASSUME TypeOK, ApproverNotLocked, now' \in Nat, now' >= now,
         \A a \in Row : rows[a].st # "none" =>
                          rows'[a].st # "none" /\ rows'[a].lock = rows[a].lock,
         \A h \in Slot : hs'[h] = hs[h] \/ hs'[h].pc # "approve"
  PROVE  ApproverNotLocked'
  <1> SUFFICES ASSUME NEW h \in Slot, hs'[h].pc = "approve"
               PROVE  /\ hs'[h].row \in Row
                      /\ rows'[hs'[h].row].st # "none"
                      /\ ~(rows'[hs'[h].row].lock > now')
    BY DEF ApproverNotLocked, At, LockedOut
  <1>1. hs'[h] = hs[h] /\ hs[h].row \in Row /\ rows[hs[h].row].st # "none"
          /\ ~(rows[hs[h].row].lock > now)
    BY DEF ApproverNotLocked, At, LockedOut
  <1>2. rows[hs[h].row].lock \in Nat /\ now \in Nat
    BY <1>1 DEF TypeOK, AuthorizationRequest
  <1> QED
    BY <1>1, <1>2

\* Reads, and statements on the status column, keep the locks.
LEMMA OtherStatements ==
  ASSUME TypeOK, ApproverNotLocked, NEW h \in Slot,
         \/ CapCount(h) \/ CapFind(h) \/ Evict(h) \/ Save(h) \/ Expire(h)
         \/ Claim(h) \/ LoadUser(h) \/ Mint(h) \/ DenyLogged(h) \/ DenyUpdate(h)
  PROVE  ApproverNotLocked'
  <1> USE DEF TypeOK
  <1>1. now' = now
    BY DEF CapCount, CapFind, Evict, Save, Expire, Claim, LoadUser, Mint,
       DenyLogged, DenyUpdate
  <1>2. \A x \in Slot : hs'[x] = hs[x] \/ hs'[x].pc # "approve"
    <2>1. CASE Finish(h)
      BY <2>1 DEF Finish, Idle
    <2>2. CASE CapCount(h) \/ CapFind(h) \/ Evict(h) \/ Goto(h, "loadUser")
      BY <2>2 DEF CapCount, CapFind, Evict, Goto, Handler
    <2>3. CASE LoadUser(h)
      BY <2>3 DEF LoadUser, Idle, Handler
    <2> QED
      BY <2>1, <2>2, <2>3 DEF Save, Expire, Claim, Mint, DenyLogged, DenyUpdate
  <1>3. \A a \in Row : rows[a].st # "none" =>
                         rows'[a].st # "none" /\ rows'[a].lock = rows[a].lock
    <2> USE DEF AuthorizationRequest
    <2>1. CASE Evict(h) \/ Expire(h) \/ DenyUpdate(h)
      BY <2>1, SMTT(40) DEF Evict, Expire, DenyUpdate, SetStatus
    <2>2. CASE Claim(h) \/ DenyLogged(h)
      BY <2>2, SMTT(40) DEF Claim, DenyLogged, GuardedTransition
    <2>3. CASE Save(h)
      BY <2>3 DEF Save
    <2> QED
      BY <2>1, <2>2, <2>3 DEF CapCount, CapFind, LoadUser, Mint
  <1> QED
    BY <1>1, <1>2, <1>3, LocksKept

\* Every step keeps approving calls off locked rows.
LEMMA NextNotLocked ==
  TypeOK /\ AuthorizesApart /\ ApproverNotLocked /\ [Next]_vars
    => ApproverNotLocked'
  <1> SUFFICES ASSUME TypeOK, AuthorizesApart, ApproverNotLocked, [Next]_vars
               PROVE  ApproverNotLocked'
    OBVIOUS
  <1> USE DEF TypeOK
  <1>1. ASSUME NEW h \in Slot,
               \/ \E n \in Name, ip \in Ip : Create(h, n, ip)
               \/ \E a \in Row : Poll(h, a)
               \/ \E a \in Row, u \in Known : Deny(h, a, u)
               \/ Abort(h)
        PROVE  ApproverNotLocked'
    <2>1. UNCHANGED <<rows, now>>
      BY <1>1 DEF Create, Poll, Deny, Abort
    <2>2. \A x \in Slot : hs'[x] = hs[x] \/ hs'[x].pc # "approve"
      <3> USE DEF Idle
      <3>1. ASSUME NEW n \in Name, NEW ip \in Ip, Create(h, n, ip)
            PROVE  \A x \in Slot : hs'[x] = hs[x] \/ hs'[x].pc # "approve"
        BY <3>1 DEF Create
      <3>2. ASSUME NEW a \in Row, Poll(h, a)
            PROVE  \A x \in Slot : hs'[x] = hs[x] \/ hs'[x].pc # "approve"
        BY <3>2 DEF Poll
      <3>3. ASSUME NEW a \in Row, NEW u \in Known, Deny(h, a, u)
            PROVE  \A x \in Slot : hs'[x] = hs[x] \/ hs'[x].pc # "approve"
        BY <3>3 DEF Deny
      <3>4. CASE Abort(h)
        BY <3>4 DEF Abort, Finish
      <3> QED
        BY <1>1, <3>1, <3>2, <3>3, <3>4
    <2> QED
      BY <2>1, <2>2, LocksKept, SMTT(40)
  <1>2. ASSUME NEW h \in Slot, NEW a \in Row, NEW u \in Known,
               NEW valid \in BOOLEAN, Authorize(h, a, u, valid)
        PROVE  ApproverNotLocked'
    <2>1. /\ \A x \in Slot : x # h => hs'[x] = hs[x]
          /\ hs'[h].row = a /\ UNCHANGED <<rows, now>>
      BY <1>2 DEF Authorize, Idle
    <2>2. rows[a].st = "open" /\ ~LockedOut(a)
      BY <1>2 DEF Authorize, OwnedOpen, OpenOf
    <2> QED
      BY <2>1, <2>2 DEF ApproverNotLocked, At, LockedOut
  <1>3. ASSUME NEW h \in Slot, ApproveUpdate(h) PROVE ApproverNotLocked'
    <2>1. \A a \in Row :
            /\ a # hs[h].row => rows'[a] = rows[a]
            /\ a = hs[h].row => rows'[a].st = "approved" /\ rows'[a].lock = 0
      BY <1>3 DEF ApproveUpdate, AuthorizationRequest
    <2>2. /\ now' = now
          /\ \A x \in Slot : hs'[x] = hs[x] \/ hs'[x].pc # "approve"
      BY <1>3 DEF ApproveUpdate, Finish, Idle
    <2> QED
      BY <2>1, <2>2 DEF ApproverNotLocked, At, LockedOut
  <1>4. ASSUME NEW h \in Slot, RegisterAuthorizeFailure(h)
        PROVE  ApproverNotLocked'
    <2>1. \A a \in Row : /\ a # hs[h].row => rows'[a] = rows[a]
                         /\ rows'[a].st = rows[a].st
      BY <1>4 DEF RegisterAuthorizeFailure, AuthorizationRequest
    <2>2. /\ now' = now
          /\ \A x \in Slot : hs'[x] = hs[x] \/ hs'[x].pc # "approve"
      BY <1>4 DEF RegisterAuthorizeFailure, Finish, Idle
    <2>3. \A x \in Slot : At(x, "approve") => hs[x].row # hs[h].row
      BY <1>4 DEF RegisterAuthorizeFailure, AuthorizesApart
    <2> QED
      BY <2>1, <2>2, <2>3 DEF ApproverNotLocked, At, LockedOut
  <1>5. CASE Tick \/ UNCHANGED vars \/ \E u \in Known : DenyUser(u)
    <2>1. UNCHANGED <<rows, hs>> /\ now' \in Nat /\ now' >= now
      BY <1>5 DEF Tick, vars, DenyUser
    <2> QED
      BY <2>1, LocksKept
  <1> QED
    BY <1>1, <1>2, <1>3, <1>4, <1>5, OtherStatements DEF Next, Call, Step

\* Only the update of an approving call turns an open row approved.
LEMMA ApprovedByUpdate ==
  ASSUME TypeOK, ApproverNotLocked, Next, NEW a \in Row,
         rows[a].st = "open", rows'[a].st = "approved"
  PROVE  ~LockedOut(a)
  <1> USE DEF TypeOK
  <1>1. ASSUME NEW h \in Slot, ApproveUpdate(h) PROVE ~LockedOut(a)
    <2>1. hs[h].row = a
      BY <1>1 DEF ApproveUpdate
    <2> QED
      BY <1>1, <2>1 DEF ApproveUpdate, ApproverNotLocked
  <1>2. ASSUME NEW h \in Slot, Evict(h) \/ Expire(h) \/ DenyUpdate(h)
        PROVE  FALSE
    BY <1>2, SMTT(40) DEF Evict, Expire, DenyUpdate, SetStatus, AuthorizationRequest
  <1>3. ASSUME NEW h \in Slot, Claim(h) \/ DenyLogged(h) PROVE FALSE
    BY <1>3, SMTT(40)
       DEF Claim, DenyLogged, GuardedTransition, AuthorizationRequest
  <1>4. ASSUME NEW h \in Slot, Save(h) \/ RegisterAuthorizeFailure(h)
        PROVE  FALSE
    BY <1>4, SMTT(40) DEF Save, NoRequest, RegisterAuthorizeFailure, AuthorizationRequest
  <1>5. ASSUME NEW h \in Slot, CapCount(h) \/ CapFind(h) \/ LoadUser(h) \/ Mint(h)
        PROVE  FALSE
    BY <1>5 DEF CapCount, CapFind, LoadUser, Mint
  <1>6. ASSUME NEW h \in Slot, Call(h) \/ Abort(h) PROVE FALSE
    BY <1>6, CallMachine DEF Quiet, StatusesKept
  <1>7. Tick \/ (\E u \in Known : DenyUser(u)) => FALSE
    BY DEF Tick, DenyUser
  <1> QED
    BY <1>1, <1>2, <1>3, <1>4, <1>5, <1>6, <1>7 DEF Next, Step

\* A locked-out row is not approved, not even with the right password, as long
\* as a right and a wrong call on the row do not overlap.
THEOREM LockedRowsNotApproved ==
  Spec /\ []AuthorizesApart => LockedRowNotApproved
  <1>1. Init => ApproverNotLocked
    BY DEF Init, ApproverNotLocked, At, Idle
  <1>2. TypeOK /\ ApproverNotLocked /\ [Next]_vars =>
          [\A a \in Row : (rows[a].st = "open" /\ LockedOut(a))
                            => rows'[a].st # "approved"]_rows
    BY ApprovedByUpdate DEF vars
  <1> QED
    BY <1>1, <1>2, NextNotLocked, TypeCorrect, PTL
       DEF Spec, LockedRowNotApproved

-----------------------------------------------------------------------------
(* The two limits of create, for one create per username at a time.        *)

Creating(h) == hs[h].pc \in {"capCount", "capFind", "evict", "save"}

\* The hypothesis: no two calls create a request of one username together;
\* each counts before it inserts, and nothing holds the count still.
CreatesApart ==
    \A h, g \in Slot :
        (Creating(h) /\ Creating(g) /\ hs[h].name = hs[g].name) => h = g

Existing == {a \in Row : rows[a].st # "none"}

\* A handler that writes a row by id has read it, and there are finitely many.
RowsHeld ==
    /\ IsFiniteSet(Existing)
    /\ \A h \in Slot : WritesOpenRow(h) => hs[h].row \in Existing

\* What the limits read of the rows: nothing is inserted, and of an existing
\* row only the status changes, never back to open.
NoInsert ==
    /\ Existing' = Existing
    /\ \A a \in Existing : /\ rows'[a].name = rows[a].name
                           /\ rows'[a].made = rows[a].made
                           /\ rows'[a].st = "open" => rows[a].st = "open"

\* The insert of row b for the name of handler h.
Inserts(h, b) ==
    /\ b \in Row /\ rows[b].st = "none"
    /\ rows'[b].st = "open" /\ rows'[b].name = hs[h].name /\ rows'[b].made = now
    /\ \A a \in Row : a # b => rows'[a] = rows[a]
    /\ OnlySlot(h) /\ hs'[h] = Idle /\ At(h, "save") /\ now' = now

\* A step of neither the cap nor the insert.
Uninvolved ==
    /\ NoInsert
    /\ \A x \in Slot : hs'[x] = hs[x] \/ ~Creating(x)'

\* A new status of an existing row inserts nothing.
LEMMA UpdateInsertsNothing ==
  ASSUME TypeOK, NEW a \in Existing, NEW st \in Status \ {"none", "open"},
         \A b \in Row : /\ b # a => rows'[b] = rows[b]
                        /\ b = a => /\ rows'[b].st = st
                                    /\ rows'[b].name = rows[b].name
                                    /\ rows'[b].made = rows[b].made
  PROVE  NoInsert
  BY DEF NoInsert, Existing

LEMMA SetStatusInsertsNothing ==
  ASSUME TypeOK, NEW a \in Existing, NEW st \in Status \ {"none", "open"},
         SetStatus(a, st)
  PROVE  NoInsert
  <1>1. \A b \in Row : /\ b # a => rows'[b] = rows[b]
                       /\ b = a => /\ rows'[b].st = st
                                   /\ rows'[b].name = rows[b].name
                                   /\ rows'[b].made = rows[b].made
    BY DEF SetStatus, TypeOK, AuthorizationRequest
  <1> QED
    BY <1>1, UpdateInsertsNothing

\* Statements: the insert, and those that insert nothing.
LEMMA StatementRows ==
  ASSUME TypeOK, RowsHeld, NEW h \in Slot, Step(h), ~Save(h)
  PROVE  NoInsert
  <1> USE DEF TypeOK, Status
  <1>1. CASE rows' = rows
    BY <1>1 DEF NoInsert, Existing
  <1>2. CASE Evict(h) \/ Expire(h) \/ DenyUpdate(h)
    <2>1. hs[h].row \in Existing
      BY <1>2 DEF RowsHeld, WritesOpenRow, Evict, Expire, DenyUpdate, At
    <2>2. SetStatus(hs[h].row, "expired") \/ SetStatus(hs[h].row, "denied")
      BY <1>2 DEF Evict, Expire, DenyUpdate
    <2> QED
      BY <2>1, <2>2, SetStatusInsertsNothing
  <1>3. CASE Claim(h) \/ DenyLogged(h)
    <2>1. CASE hs[h].row \in Existing
      <3>1. \/ rows' = rows \/ SetStatus(hs[h].row, "logged")
            \/ SetStatus(hs[h].row, "denied")
        BY <1>3 DEF Claim, DenyLogged, GuardedTransition, SetStatus
      <3> QED
        BY <1>1, <2>1, <3>1, SetStatusInsertsNothing
    <2>2. CASE hs[h].row \notin Existing
      <3>1. rows' = rows
        BY <1>3, <2>2
           DEF Claim, DenyLogged, GuardedTransition, Existing
      <3> QED
        BY <1>1, <3>1
    <2> QED
      BY <2>1, <2>2
  <1>4. CASE ApproveUpdate(h)
    <2>1. hs[h].row \in Existing
      BY <1>4 DEF RowsHeld, WritesOpenRow, ApproveUpdate, At
    <2>2. \A b \in Row : /\ b # hs[h].row => rows'[b] = rows[b]
                         /\ b = hs[h].row => /\ rows'[b].st = "approved"
                                             /\ rows'[b].name = rows[b].name
                                             /\ rows'[b].made = rows[b].made
      BY <1>4 DEF ApproveUpdate, AuthorizationRequest
    <2> QED
      BY <2>1, <2>2, UpdateInsertsNothing
  <1>5. CASE RegisterAuthorizeFailure(h)
    <2>1. \A b \in Row : /\ rows'[b].st = rows[b].st
                         /\ rows'[b].name = rows[b].name
                         /\ rows'[b].made = rows[b].made
      BY <1>5 DEF RegisterAuthorizeFailure, AuthorizationRequest
    <2> QED
      BY <2>1 DEF NoInsert, Existing
  <1>6. CASE CapCount(h) \/ CapFind(h) \/ LoadUser(h) \/ Mint(h)
    BY <1>1, <1>6 DEF CapCount, CapFind, LoadUser, Mint
  <1> QED
    BY <1>2, <1>3, <1>4, <1>5, <1>6 DEF Step

LEMMA SaveInserts ==
  ASSUME TypeOK, NEW h \in Slot, Save(h)
  PROVE  \E b \in Row : Inserts(h, b)
  <1>1. PICK b \in Row :
          /\ rows[b].st = "none"
          /\ rows' = [rows EXCEPT ![b] =
                        [NoRequest EXCEPT !.st = "open", !.name = hs[h].name,
                                          !.ip = hs[h].ip, !.made = now,
                                          !.exp = hs[h].exp]]
    BY DEF Save
  <1>2. /\ rows'[b].st = "open" /\ rows'[b].name = hs[h].name
        /\ rows'[b].made = now
        /\ \A a \in Row : a # b => rows'[a] = rows[a]
    BY <1>1 DEF TypeOK, NoRequest
  <1>3. OnlySlot(h) /\ hs'[h] = Idle /\ At(h, "save") /\ now' = now
    BY DEF Save, Finish, OnlySlot, TypeOK
  <1> QED
    BY <1>1, <1>2, <1>3 DEF Inserts

\* Handlers other than the creates neither start nor move one.
LEMMA StatementSlots ==
  ASSUME TypeOK, NEW h \in Slot,
         \/ Expire(h) \/ Claim(h) \/ LoadUser(h) \/ Mint(h) \/ DenyLogged(h)
         \/ ApproveUpdate(h) \/ RegisterAuthorizeFailure(h) \/ DenyUpdate(h)
  PROVE  /\ \A x \in Slot : hs'[x] = hs[x] \/ ~Creating(x)'
         /\ \A x \in Slot : hs'[x] = hs[x] \/ ~WritesOpenRow(x)'
         /\ now' = now
  <1> USE DEF Creating, WritesOpenRow, TypeOK
  <1>1. CASE Finish(h)
    BY <1>1 DEF Finish, Idle, Expire, Claim, LoadUser, Mint, DenyLogged,
       ApproveUpdate, RegisterAuthorizeFailure, DenyUpdate
  <1>2. CASE Claim(h) /\ Goto(h, "loadUser")
    BY <1>2 DEF Claim, Goto, Handler
  <1>3. CASE LoadUser(h)
    BY <1>3 DEF LoadUser, Idle, Handler
  <1> QED
    BY <1>1, <1>2, <1>3 DEF Expire, Claim, Mint, DenyLogged, ApproveUpdate,
       RegisterAuthorizeFailure, DenyUpdate

\* Calls other than create start no create.
LEMMA CallsUninvolved ==
  ASSUME TypeOK, NEW h \in Slot, Call(h) \/ Abort(h),
         ~\E n \in Name, ip \in Ip : Create(h, n, ip)
  PROVE  Uninvolved
  <1> USE DEF TypeOK, Idle
  <1>1. UNCHANGED rows
    BY DEF Call, Create, Poll, Authorize, Deny, Abort
  <1> SUFFICES \A x \in Slot : hs'[x] = hs[x] \/ ~Creating(x)'
    BY <1>1 DEF Uninvolved, NoInsert, Existing
  <1> USE DEF Creating
  <1>2. ASSUME NEW a \in Row, Poll(h, a)
        PROVE  \A x \in Slot : hs'[x] = hs[x] \/ ~Creating(x)'
    BY <1>2 DEF Poll
  <1>3. ASSUME NEW a \in Row, NEW u \in Known, NEW valid \in BOOLEAN,
               Authorize(h, a, u, valid)
        PROVE  \A x \in Slot : hs'[x] = hs[x] \/ ~Creating(x)'
    BY <1>3 DEF Authorize
  <1>4. ASSUME NEW a \in Row, NEW u \in Known, Deny(h, a, u)
        PROVE  \A x \in Slot : hs'[x] = hs[x] \/ ~Creating(x)'
    BY <1>4 DEF Deny
  <1>5. CASE Abort(h)
    BY <1>5 DEF Abort, Finish
  <1> QED
    BY <1>2, <1>3, <1>4, <1>5, SMTT(40) DEF Call

\* Rows held by writers exist, after every step.
LEMMA RowsHeldStep ==
  ASSUME TypeOK, RowsHeld, [Next]_vars
  PROVE  RowsHeld'
  <1> USE DEF RowsHeld, WritesOpenRow
  <1>1. ASSUME NEW h \in Slot, Call(h) \/ Abort(h) PROVE RowsHeld'
    BY <1>1, CallMachine, ZenonT(60)
       DEF Quiet, StatusesKept, NoNewWinner, Existing
  <1>2. ASSUME NEW h \in Slot, Save(h) PROVE RowsHeld'
    <2>1. PICK b \in Row : Inserts(h, b)
      BY <1>2, SaveInserts
    <2>2. Existing' = Existing \cup {b}
      BY <2>1 DEF Inserts, Existing
    <2>3. IsFiniteSet(Existing')
      BY <2>2, FS_AddElement
    <2>4. \A x \in Slot : hs'[x] = hs[x] \/ hs'[x].pc = "idle"
      BY <2>1 DEF Inserts, OnlySlot, Idle
    <2> QED
      BY <2>2, <2>3, <2>4
  <1>3. ASSUME NEW h \in Slot, Step(h), ~Save(h) PROVE RowsHeld'
    <2>1. NoInsert
      BY <1>3, StatementRows
    <2>2. \A x \in Slot : WritesOpenRow(x)' =>
            \/ hs'[x] = hs[x]
            \/ hs'[x].row \in Row /\ rows[hs'[x].row].st = "open"
      <3> USE DEF TypeOK
      <3>1. CASE CapCount(h) \/ Evict(h)
        BY <3>1 DEF CapCount, Evict, Goto, Handler
      <3>2. CASE CapFind(h)
        BY <3>2 DEF CapFind, Goto, OpenOf, Handler
      <3> QED
        BY <1>3, <3>1, <3>2, StatementSlots DEF Step
    <2> QED
      BY <2>1, <2>2 DEF NoInsert, Existing
  <1>4. CASE Tick \/ UNCHANGED vars \/ \E u \in Known : DenyUser(u)
    <2>1. UNCHANGED <<rows, hs>>
      BY <1>4 DEF Tick, vars, DenyUser
    <2> QED
      BY <2>1 DEF Existing
  <1> QED
    BY <1>1, <1>2, <1>3, <1>4 DEF Next

LEMMA RowsAlwaysHeld == Spec => []RowsHeld
  <1>1. Init => RowsHeld
    <2> SUFFICES ASSUME Init PROVE RowsHeld
      OBVIOUS
    <2>1. Existing = {}
      BY DEF Init, Existing, NoRequest
    <2> QED
      BY <2>1, FS_EmptySet DEF Init, RowsHeld, WritesOpenRow, Idle
  <1> QED
    BY <1>1, RowsHeldStep, TypeCorrect, PTL DEF Spec

\* Sets of existing rows can be counted.
LEMMA RowsCount ==
  ASSUME RowsHeld, NEW S \in SUBSET Existing
  PROVE  /\ IsFiniteSet(S) /\ Cardinality(S) \in Nat
         /\ \A T \in SUBSET S : /\ IsFiniteSet(T) /\ Cardinality(T) \in Nat
                                /\ Cardinality(T) <= Cardinality(S)
  <1>1. IsFiniteSet(S)
    BY FS_Subset DEF RowsHeld
  <1>2. \A T \in SUBSET S : IsFiniteSet(T) /\ Cardinality(T) <= Cardinality(S)
    BY <1>1, FS_Subset
  <1> QED
    BY <1>1, <1>2, FS_CardinalityType

\* How many open rows of its user a create may find: after the count, or the
\* eviction, there is room for one.
RoomFor(h) ==
    LET open == OpenOf(hs[h].name) IN
    /\ At(h, "save") => Cardinality(open) < MaxOpen
    /\ At(h, "evict") => Cardinality(open \ {hs[h].row}) < MaxOpen

CapInv ==
    /\ OpenCapHolds
    /\ \A h \in Slot : hs[h].name \in Known => RoomFor(h)

LEMMA OpenExist == \A u : OpenOf(u) \in SUBSET Existing
  BY DEF OpenOf, Existing

\* A step that opens no row keeps room, but for the slots it moves.
LEMMA CapShrinks ==
  ASSUME TypeOK, RowsHeld, CapInv,
         \A u : OpenOf(u)' \subseteq OpenOf(u),
         \A x \in Slot : \/ hs'[x] = hs[x]
                         \/ hs'[x].name \in Known => RoomFor(x)'
  PROVE  CapInv'
  <1> USE RequestAssumption
  <1>1. OpenCapHolds'
    <2> SUFFICES ASSUME NEW u \in Known
                 PROVE  Cardinality(OpenOf(u)') <= MaxOpen
      BY DEF OpenCapHolds
    <2>1. /\ Cardinality(OpenOf(u)) \in Nat /\ Cardinality(OpenOf(u)') \in Nat
          /\ Cardinality(OpenOf(u)') <= Cardinality(OpenOf(u))
      BY OpenExist, RowsCount
    <2> QED
      BY <2>1 DEF CapInv, OpenCapHolds
  <1>2. ASSUME NEW x \in Slot, hs'[x] = hs[x], hs[x].name \in Known
        PROVE  RoomFor(x)'
    <2>0. PICK n : n = hs[x].name
      OBVIOUS
    <2> DEFINE open == OpenOf(n)
               later == OpenOf(n)'
    <2>1. later \subseteq open /\ open \in SUBSET Existing
      BY OpenExist
    <2>2. /\ Cardinality(later) <= Cardinality(open)
          /\ Cardinality(later) \in Nat /\ Cardinality(open) \in Nat
      BY <2>1, RowsCount
    <2>3. /\ Cardinality(later \ {hs[x].row}) <= Cardinality(open \ {hs[x].row})
          /\ Cardinality(later \ {hs[x].row}) \in Nat
          /\ Cardinality(open \ {hs[x].row}) \in Nat
      <3>1. later \ {hs[x].row} \subseteq open \ {hs[x].row}
              /\ open \ {hs[x].row} \in SUBSET Existing
        BY <2>1
      <3> HIDE DEF later, open
      <3> QED
        BY <3>1, RowsCount
    <2>4. RoomFor(x)
      BY <1>2 DEF CapInv
    <2>5. RoomFor(x)' <=>
            /\ hs'[x].pc = "save" => Cardinality(later) < MaxOpen
            /\ hs'[x].pc = "evict" => Cardinality(later \ {hs[x].row}) < MaxOpen
      BY <1>2, <2>0 DEF RoomFor, At, OpenOf
    <2>6. RoomFor(x) <=>
            /\ hs[x].pc = "save" => Cardinality(open) < MaxOpen
            /\ hs[x].pc = "evict" => Cardinality(open \ {hs[x].row}) < MaxOpen
      BY <2>0 DEF RoomFor, At
    <2> HIDE DEF later, open
    <2> QED
      BY <1>2, <2>2, <2>3, <2>4, <2>5, <2>6
  <1> QED
    BY <1>1, <1>2 DEF CapInv

\* The steps of the cap, and the insert.
LEMMA CapStatements ==
  ASSUME TypeOK, RowsHeld, CapInv, CreatesApart, MaxOpen > 0, NEW h \in Slot,
         CapCount(h) \/ CapFind(h) \/ Evict(h) \/ Save(h)
  PROVE  CapInv'
  <1> USE RequestAssumption
  <1>0. PICK n : n = hs[h].name
    OBVIOUS
  <1>1. CASE CapCount(h)
    <2>1. UNCHANGED rows /\ OnlySlot(h) /\ hs'[h].name = n
            /\ hs'[h].pc = IF Cardinality(OpenOf(n)) < MaxOpen
                             THEN "save" ELSE "capFind"
      BY <1>0, <1>1 DEF CapCount, Goto, OnlySlot, TypeOK, Handler
    <2>2. RoomFor(h)'
      BY <2>1 DEF RoomFor, At, OpenOf
    <2> QED
      BY <2>1, <2>2, CapShrinks DEF OnlySlot, OpenOf
  <1>2. CASE CapFind(h)
    <2>1. UNCHANGED rows
      BY <1>2 DEF CapFind
    <2>2. CASE OpenOf(n) = {} /\ Goto(h, "save")
      <3>1. OnlySlot(h) /\ hs'[h].name = n /\ hs'[h].pc = "save"
        BY <1>0, <2>2 DEF Goto, OnlySlot, TypeOK, Handler
      <3>2. Cardinality(OpenOf(n)) < MaxOpen
        BY <2>2, FS_EmptySet
      <3>3. RoomFor(h)'
        BY <2>1, <3>1, <3>2 DEF RoomFor, At, OpenOf
      <3> QED
        BY <2>1, <3>1, <3>3, CapShrinks DEF OnlySlot, OpenOf
    <2>3. ASSUME NEW a \in OpenOf(n),
                 hs' = [hs EXCEPT ![h].pc = "evict", ![h].row = a]
          PROVE  CapInv'
      <3>1. /\ OnlySlot(h) /\ hs'[h].name = n /\ hs'[h].pc = "evict"
            /\ hs'[h].row = a
        BY <1>0, <2>3 DEF OnlySlot, TypeOK, Handler
      <3>2. ASSUME n \in Known PROVE Cardinality(OpenOf(n) \ {a}) < MaxOpen
        <4>1. IsFiniteSet(OpenOf(n)) /\ Cardinality(OpenOf(n)) \in Nat
          BY OpenExist, RowsCount
        <4>2. Cardinality(OpenOf(n) \ {a}) = Cardinality(OpenOf(n)) - 1
          BY <4>1, <2>3, FS_RemoveElement
        <4>3. Cardinality(OpenOf(n)) <= MaxOpen
          BY <3>2 DEF CapInv, OpenCapHolds
        <4> QED
          BY <4>1, <4>2, <4>3
      <3>3. n \in Known => RoomFor(h)'
        BY <2>1, <3>1, <3>2 DEF RoomFor, At, OpenOf
      <3> QED
        BY <2>1, <3>1, <3>3, CapShrinks DEF OnlySlot, OpenOf
    <2> QED
      BY <1>0, <1>2, <2>2, <2>3 DEF CapFind
  <1>3. CASE Evict(h)
    <2>1. OnlySlot(h) /\ hs'[h].name = n /\ hs'[h].pc = "save" /\ At(h, "evict")
      BY <1>0, <1>3 DEF Evict, At, OnlySlot, TypeOK, Handler
    <2>2. \A a \in Row : /\ a = hs[h].row => rows'[a].st = "expired"
                         /\ a # hs[h].row => rows'[a] = rows[a]
                         /\ rows'[a].name = rows[a].name
      BY <1>3 DEF Evict, SetStatus, TypeOK, AuthorizationRequest
    <2>3. \A u : OpenOf(u)' \subseteq OpenOf(u) \ {hs[h].row}
      BY <2>2 DEF OpenOf
    <2>4. ASSUME n \in Known PROVE RoomFor(h)'
      <3>1. Cardinality(OpenOf(n) \ {hs[h].row}) < MaxOpen
        BY <1>0, <2>1, <2>4 DEF CapInv, RoomFor
      <3>2. /\ Cardinality(OpenOf(n)') <= Cardinality(OpenOf(n) \ {hs[h].row})
            /\ Cardinality(OpenOf(n)') \in Nat
            /\ Cardinality(OpenOf(n) \ {hs[h].row}) \in Nat
        <4>1. OpenOf(n) \ {hs[h].row} \in SUBSET Existing
          BY OpenExist
        <4> QED
          BY <4>1, <2>3, RowsCount
      <3> QED
        BY <2>1, <3>1, <3>2 DEF RoomFor, At, OpenOf
    <2> QED
      BY <2>1, <2>3, <2>4, CapShrinks DEF OnlySlot
  <1>4. CASE Save(h)
    <2>1. PICK b \in Row : Inserts(h, b)
      BY <1>4, SaveInserts
    <2>2. /\ OpenOf(n)' = OpenOf(n) \cup {b} /\ b \notin OpenOf(n)
          /\ \A u : u # n => OpenOf(u)' = OpenOf(u)
      BY <1>0, <2>1 DEF Inserts, OpenOf
    <2>3. ASSUME n \in Known PROVE Cardinality(OpenOf(n)') <= MaxOpen
      <3>1. IsFiniteSet(OpenOf(n)) /\ Cardinality(OpenOf(n)) \in Nat
        BY OpenExist, RowsCount
      <3>2. Cardinality(OpenOf(n)') = Cardinality(OpenOf(n)) + 1
        BY <2>2, <3>1, FS_AddElement, ZenonT(60)
      <3>3. Cardinality(OpenOf(n)) < MaxOpen
        BY <1>0, <2>1, <2>3 DEF Inserts, CapInv, RoomFor
      <3> QED
        BY <3>1, <3>2, <3>3
    <2>4. OpenCapHolds'
      BY <2>2, <2>3 DEF CapInv, OpenCapHolds
    <2>5. ASSUME NEW x \in Slot, hs'[x].name \in Known PROVE RoomFor(x)'
      <3>1. CASE x = h
        BY <2>1, <3>1 DEF Inserts, RoomFor, At, Idle
      <3>2. CASE ~Creating(x) /\ x # h
        BY <2>1, <3>2 DEF Inserts, OnlySlot, RoomFor, At, Creating
      <3>3. CASE Creating(x) /\ x # h
        <4>1. hs[x].name # n
          BY <1>0, <2>1, <3>3 DEF Inserts, At, Creating, CreatesApart
        <4>2. hs'[x] = hs[x] /\ RoomFor(x)
          BY <2>1, <2>5, <3>3 DEF Inserts, OnlySlot, CapInv
        <4>3. OpenOf(hs[x].name)' = OpenOf(hs[x].name)
          BY <2>2, <4>1, <4>2
        <4> QED
          BY <4>2, <4>3 DEF RoomFor, At, OpenOf
      <3> QED
        BY <3>1, <3>2, <3>3
    <2> QED
      BY <2>4, <2>5 DEF CapInv
  <1> QED
    BY <1>1, <1>2, <1>3, <1>4

\* The create itself counts later; the other steps open nothing.
LEMMA NextCap ==
  ASSUME MaxOpen > 0, TypeOK, RowsHeld, CapInv, CreatesApart, [Next]_vars
  PROVE  CapInv'
  <1>1. ASSUME NoInsert,
               \A x \in Slot : hs'[x] = hs[x] \/ hs'[x].pc \notin {"save", "evict"}
        PROVE  CapInv'
    <2>1. \A u : OpenOf(u)' \subseteq OpenOf(u)
      BY <1>1 DEF NoInsert, OpenOf, Existing
    <2>2. \A x \in Slot : hs'[x] = hs[x] \/ RoomFor(x)'
      BY <1>1 DEF RoomFor, At
    <2> QED
      BY <2>1, <2>2, CapShrinks
  <1>2. ASSUME NEW h \in Slot, NEW n \in Name, NEW ip \in Ip, Create(h, n, ip)
        PROVE  CapInv'
    <2>1. /\ UNCHANGED rows /\ OnlySlot(h) /\ hs'[h].name = n
          /\ hs'[h].pc = IF n \in Known THEN "capCount" ELSE "save"
      BY <1>2 DEF Create, OnlySlot, TypeOK, Idle
    <2>2. n \in Known => RoomFor(h)'
      BY <2>1 DEF RoomFor, At
    <2> QED
      BY <2>1, <2>2, CapShrinks DEF OnlySlot, OpenOf
  <1>3. ASSUME NEW h \in Slot, Call(h) \/ Abort(h),
               ~\E n \in Name, ip \in Ip : Create(h, n, ip)
        PROVE  CapInv'
    BY <1>1, <1>3, CallsUninvolved DEF Uninvolved, Creating
  <1>4. ASSUME NEW h \in Slot,
               \/ Expire(h) \/ Claim(h) \/ LoadUser(h) \/ Mint(h)
               \/ DenyLogged(h) \/ ApproveUpdate(h)
               \/ RegisterAuthorizeFailure(h) \/ DenyUpdate(h)
        PROVE  CapInv'
    <2>1. CASE Save(h)
      BY <2>1, CapStatements
    <2>2. CASE ~Save(h)
      <3>1. NoInsert
        BY <1>4, <2>2, StatementRows DEF Step
      <3> QED
        BY <1>1, <1>4, <3>1, StatementSlots DEF Creating
    <2> QED
      BY <2>1, <2>2
  <1>5. CASE Tick \/ UNCHANGED vars \/ \E u \in Known : DenyUser(u)
    <2>1. UNCHANGED <<rows, hs>>
      BY <1>5 DEF Tick, vars, DenyUser
    <2> QED
      BY <1>1, <2>1 DEF NoInsert, Existing
  <1> QED
    BY <1>2, <1>3, <1>4, <1>5, CapStatements DEF Next, Step

\* A user's open requests stay within the cap as long as no two requests of
\* one username are created together and the cap is not configured to zero;
\* polls, answers and failures interleave freely.
THEOREM OpenCap == MaxOpen > 0 => (Spec /\ []CreatesApart => []OpenCapHolds)
  <1> SUFFICES ASSUME MaxOpen > 0
               PROVE  Spec /\ []CreatesApart => []OpenCapHolds
    OBVIOUS
  <1>1. Init => CapInv
    <2> SUFFICES ASSUME Init PROVE CapInv
      OBVIOUS
    <2>1. \A u : OpenOf(u) = {}
      BY DEF Init, OpenOf, NoRequest
    <2>2. \A h \in Slot : RoomFor(h)
      BY DEF Init, RoomFor, At, Idle
    <2> QED
      BY <2>1, <2>2, FS_EmptySet, RequestAssumption DEF CapInv, OpenCapHolds
  <1>2. TypeOK /\ RowsHeld /\ CreatesApart /\ CapInv /\ [Next]_vars => CapInv'
    BY NextCap
  <1>3. CapInv => OpenCapHolds
    BY DEF CapInv
  <1> QED
    BY <1>1, <1>2, <1>3, TypeCorrect, RowsAlwaysHeld, PTL DEF Spec

\* The rows of username n that isOverCreateLimit counts.
Recent(n) == {a \in Row : /\ rows[a].st # "none"
                          /\ rows[a].made + CreateWindow > now
                          /\ rows[a].name = n}

\* The rows of username n made within a window from the making of row a.
Window(n, a) == {b \in Row : /\ rows[b].st # "none"
                             /\ rows[b].name = n
                             /\ rows[b].made >= rows[a].made
                             /\ rows[b].made < rows[a].made + CreateWindow}

LimitInv ==
    /\ \A n \in Name : /\ Cardinality(Recent(n)) <= CreateLimit
                       /\ \A a \in Existing : Cardinality(Window(n, a)) <= CreateLimit
    /\ \A h \in Slot : Creating(h) => Cardinality(Recent(hs[h].name)) < CreateLimit

\* Both sets hold existing rows, before and after a step.
LEMMA CountedExist ==
  ASSUME NEW n
  PROVE  /\ Recent(n) \in SUBSET Existing
         /\ \A a : Window(n, a) \in SUBSET Existing
         /\ Recent(n)' \in SUBSET Existing'
         /\ \A a : Window(n, a)' \in SUBSET Existing'
  BY DEF Recent, Window, Existing

\* While nothing is inserted the windows stay as they are and the recent rows
\* grow old.
LEMMA CountsShrink ==
  ASSUME TypeOK, NoInsert, now' \in Nat, now' >= now, NEW n
  PROVE  /\ Recent(n)' \subseteq Recent(n)
         /\ \A a \in Existing : Window(n, a)' = Window(n, a)
  <1>1. \A b \in Row : /\ rows'[b].st # "none" <=> rows[b].st # "none"
                       /\ rows[b].st # "none" => /\ rows'[b].name = rows[b].name
                                                 /\ rows'[b].made = rows[b].made
                       /\ rows[b].made \in Nat
    BY DEF NoInsert, Existing, TypeOK, AuthorizationRequest
  <1>2. now \in Nat /\ CreateWindow \in Nat
    BY RequestAssumption DEF TypeOK
  <1> QED
    BY <1>1, <1>2 DEF Recent, Window, Existing

\* A step that inserts nothing, and starts a create only below the limit.
LEMMA LimitShrinks ==
  ASSUME TypeOK, RowsHeld, LimitInv, NoInsert, now' \in Nat, now' >= now,
         \A x \in Slot : Creating(x)' =>
            \/ Creating(x) /\ hs'[x].name = hs[x].name
            \/ Cardinality(Recent(hs'[x].name)) < CreateLimit
  PROVE  LimitInv'
  <1>1. ASSUME NEW n
        PROVE  /\ Cardinality(Recent(n)) \in Nat /\ Cardinality(Recent(n)') \in Nat
               /\ Cardinality(Recent(n)') <= Cardinality(Recent(n))
    BY CountsShrink, CountedExist, RowsCount
  <1>2. CreateLimit \in Nat
    BY RequestAssumption
  <1>3. ASSUME NEW n \in Name
        PROVE  /\ Cardinality(Recent(n)') <= CreateLimit
               /\ \A a \in Existing' : Cardinality(Window(n, a)') <= CreateLimit
    <2>1. Cardinality(Recent(n)') <= CreateLimit
      BY <1>1, <1>2 DEF LimitInv
    <2>2. \A a \in Existing' : Cardinality(Window(n, a)') <= CreateLimit
      BY CountsShrink DEF LimitInv, NoInsert
    <2> QED
      BY <2>1, <2>2
  <1>4. ASSUME NEW x \in Slot, Creating(x)'
        PROVE  Cardinality(Recent(hs[x].name)') < CreateLimit
    <2>1. PICK n : n = hs'[x].name
      OBVIOUS
    <2>2. Cardinality(Recent(n)) < CreateLimit
      BY <1>4, <2>1 DEF LimitInv
    <2>3. Cardinality(Recent(n)') < CreateLimit
      BY <1>1, <1>2, <2>2
    <2> QED
      BY <2>1, <2>3 DEF Recent
  <1> QED
    BY <1>3, <1>4 DEF LimitInv

\* The insert adds one row to the counts of its own username only.
LEMMA InsertCounts ==
  ASSUME TypeOK, NEW h \in Slot, NEW b \in Row, Inserts(h, b), NEW n
  PROVE  /\ n # hs[h].name => Recent(n)' = Recent(n)
         /\ n = hs[h].name => Recent(n)' \subseteq Recent(n) \cup {b}
         /\ \A a \in Existing' :
              \/ Window(n, a)' \subseteq Recent(n)'
              \/ a \in Existing /\ Window(n, a)' = Window(n, a)
  <1> USE DEF Inserts
  <1>0. PICK m : m = hs[h].name
    OBVIOUS
  <1>1. \A c \in Row : rows[c].made \in Nat
    BY DEF TypeOK, AuthorizationRequest
  <1>2. now \in Nat /\ now' = now /\ CreateWindow \in Nat
    BY RequestAssumption DEF TypeOK
  <1>3. n # m => Recent(n)' = Recent(n)
    BY <1>0, <1>2 DEF Recent
  <1>4. Recent(n)' \subseteq Recent(n) \cup {b}
    BY <1>2 DEF Recent
  <1>5. ASSUME NEW a \in Existing'
        PROVE  \/ Window(n, a)' \subseteq Recent(n)'
               \/ a \in Existing /\ Window(n, a)' = Window(n, a)
    <2>1. \A c \in Row : rows'[c].made \in Nat
      BY <1>1, <1>2
    <2>2. CASE rows'[a].made + CreateWindow > now
      BY <1>2, <2>1, <2>2 DEF Window, Recent, Existing
    <2>3. CASE ~(rows'[a].made + CreateWindow > now)
      <3>1. b \notin Window(n, a)'
        BY <1>2, <2>1, <2>3 DEF Window, Existing
      <3>2. a # b \/ Window(n, a)' = {}
        BY <1>2, <2>1, <2>3 DEF Window, Existing
      <3>3. CASE a = b
        BY <3>2, <3>3
      <3>4. CASE a # b
        <4>1. a \in Existing /\ rows'[a] = rows[a]
          BY <3>4 DEF Existing
        <4>2. b \notin Window(n, a)
          BY DEF Window
        <4>3. \A c \in Row : c # b => rows'[c] = rows[c]
          OBVIOUS
        <4>4. Window(n, a)' = Window(n, a)
          BY <3>1, <4>1, <4>2, <4>3 DEF Window
        <4> QED
          BY <4>1, <4>4
      <3> QED
        BY <3>3, <3>4
    <2> QED
      BY <2>2, <2>3
  <1> QED
    BY <1>0, <1>3, <1>4, <1>5

\* The insert uses the room that the check of its create has found.
LEMMA SaveLimit ==
  ASSUME TypeOK, RowsHeld, RowsHeld', LimitInv, CreatesApart, NEW h \in Slot,
         Save(h)
  PROVE  LimitInv'
  <1>1. PICK b \in Row : Inserts(h, b)
    BY SaveInserts
  <1>2. PICK m : m = hs[h].name
    OBVIOUS
  <1>3. CreateLimit \in Nat
    BY RequestAssumption
  <1>4. Creating(h)
    BY <1>1 DEF Inserts, Creating, At
  <1>5. Cardinality(Recent(m)) < CreateLimit
    BY <1>2, <1>4 DEF LimitInv
  <1>6. Cardinality(Recent(m)') <= CreateLimit
    <2>1. IsFiniteSet(Recent(m)) /\ Cardinality(Recent(m)) \in Nat
      BY CountedExist, RowsCount
    <2>2. /\ IsFiniteSet(Recent(m) \cup {b})
          /\ Cardinality(Recent(m) \cup {b}) <= Cardinality(Recent(m)) + 1
      BY <2>1, FS_AddElement
    <2>3. Recent(m)' \subseteq Recent(m) \cup {b}
      BY <1>1, <1>2, InsertCounts
    <2>4. /\ Cardinality(Recent(m)') <= Cardinality(Recent(m) \cup {b})
          /\ Cardinality(Recent(m)') \in Nat
          /\ Cardinality(Recent(m) \cup {b}) \in Nat
      BY <2>2, <2>3, FS_Subset, FS_CardinalityType
    <2> QED
      BY <1>3, <1>5, <2>1, <2>2, <2>4
  <1>7. ASSUME NEW n \in Name
        PROVE  Cardinality(Recent(n)') <= CreateLimit
    BY <1>1, <1>2, <1>6, InsertCounts DEF LimitInv
  <1>8. ASSUME NEW n \in Name, NEW a \in Existing'
        PROVE  Cardinality(Window(n, a)') <= CreateLimit
    <2>1. CASE Window(n, a)' \subseteq Recent(n)'
      <3>1. /\ IsFiniteSet(Recent(n)') /\ Cardinality(Recent(n)') \in Nat
            /\ Cardinality(Window(n, a)') \in Nat
            /\ Cardinality(Window(n, a)') <= Cardinality(Recent(n)')
        <4>1. IsFiniteSet(Recent(n)')
          BY CountedExist, FS_Subset DEF RowsHeld
        <4> QED
          BY <2>1, <4>1, FS_Subset, FS_CardinalityType
      <3> QED
        BY <1>3, <1>7, <3>1
    <2>2. CASE a \in Existing /\ Window(n, a)' = Window(n, a)
      BY <2>2 DEF LimitInv
    <2> QED
      BY <1>1, <2>1, <2>2, InsertCounts
  <1>9. ASSUME NEW x \in Slot, Creating(x)'
        PROVE  Cardinality(Recent(hs[x].name)') < CreateLimit
    <2>1. PICK n : n = hs'[x].name
      OBVIOUS
    <2>2. x # h
      BY <1>1, <1>9 DEF Inserts, Creating, Idle
    <2>3. hs'[x] = hs[x] /\ Creating(x) /\ n = hs[x].name
      BY <1>1, <1>9, <2>1, <2>2 DEF Inserts, OnlySlot, Creating
    <2>4. n # m
      BY <1>2, <1>4, <2>2, <2>3 DEF CreatesApart
    <2>5. Recent(n)' = Recent(n)
      BY <1>1, <1>2, <2>4, InsertCounts
    <2>6. Cardinality(Recent(n)') < CreateLimit
      BY <2>3, <2>5 DEF LimitInv
    <2> QED
      BY <2>1, <2>6 DEF Recent
  <1> QED
    BY <1>7, <1>8, <1>9 DEF LimitInv

LEMMA NextLimit ==
  ASSUME TypeOK, RowsHeld, RowsHeld', LimitInv, CreatesApart, [Next]_vars
  PROVE  LimitInv'
  <1> USE DEF TypeOK
  <1>1. ASSUME NEW h \in Slot, NEW n \in Name, NEW ip \in Ip, Create(h, n, ip)
        PROVE  LimitInv'
    <2>1. UNCHANGED <<rows, now>> /\ OnlySlot(h) /\ hs'[h].name = n
      BY <1>1 DEF Create, OnlySlot, Idle
    <2>2. NoInsert
      BY <2>1 DEF NoInsert, Existing
    <2>3. Cardinality(Recent(n)) < CreateLimit
      <3>1. Recent(n) = {a \in {b \in Row : /\ rows[b].st # "none"
                                            /\ rows[b].made + CreateWindow > now} :
                           rows[a].name = n}
        BY DEF Recent
      <3>2. ~(Cardinality(Recent(n)) >= CreateLimit)
        BY <1>1, <3>1 DEF Create, OverCreateLimit
      <3>3. Cardinality(Recent(n)) \in Nat /\ CreateLimit \in Nat
        BY CountedExist, RowsCount, RequestAssumption
      <3> QED
        BY <3>2, <3>3
    <2> QED
      BY <2>1, <2>2, <2>3, LimitShrinks DEF OnlySlot, Creating
  <1>2. ASSUME NEW h \in Slot, Call(h) \/ Abort(h),
               ~\E n \in Name, ip \in Ip : Create(h, n, ip)
        PROVE  LimitInv'
    <2>1. now' = now
      BY <1>2 DEF Call, Poll, Authorize, Deny, Abort
    <2> QED
      BY <1>2, <2>1, CallsUninvolved, LimitShrinks, SMTT(40) DEF Uninvolved, Creating
  <1>3. ASSUME NEW h \in Slot, CapCount(h) \/ CapFind(h) \/ Evict(h), ~Save(h)
        PROVE  LimitInv'
    <2>1. NoInsert
      BY <1>3, StatementRows DEF Step
    <2>2. /\ OnlySlot(h) /\ hs'[h].name = hs[h].name /\ Creating(h)
          /\ now' = now
      BY <1>3 DEF CapCount, CapFind, Evict, At, Goto, OnlySlot, Creating, Handler
    <2> QED
      BY <2>1, <2>2, LimitShrinks DEF OnlySlot, Creating
  <1>4. ASSUME NEW h \in Slot, ~Save(h),
               \/ Expire(h) \/ Claim(h) \/ LoadUser(h) \/ Mint(h)
               \/ DenyLogged(h) \/ ApproveUpdate(h)
               \/ RegisterAuthorizeFailure(h) \/ DenyUpdate(h)
        PROVE  LimitInv'
    <2>1. NoInsert
      BY <1>4, StatementRows DEF Step
    <2> QED
      BY <1>4, <2>1, StatementSlots, LimitShrinks DEF Creating
  <1>5. CASE Tick \/ UNCHANGED vars \/ \E u \in Known : DenyUser(u)
    <2>1. UNCHANGED <<rows, hs>> /\ now' \in Nat /\ now' >= now
      BY <1>5 DEF Tick, vars, DenyUser
    <2> QED
      BY <2>1, LimitShrinks DEF NoInsert, Existing, Creating
  <1> QED
    BY <1>1, <1>2, <1>3, <1>4, <1>5, SaveLimit DEF Next, Step

\* No more than CreateLimit requests of one username are made within a window,
\* as long as no two of them are created together; time may pass between the
\* check and the insert, and other handlers interleave freely.
THEOREM CreateLimitKept == Spec /\ []CreatesApart => []CreateLimitHolds
  <1>1. Init => LimitInv
    <2> SUFFICES ASSUME Init PROVE LimitInv
      OBVIOUS
    <2>1. Existing = {} /\ \A n : Recent(n) = {}
      BY DEF Init, Existing, Recent, NoRequest
    <2>2. \A h \in Slot : ~Creating(h)
      BY DEF Init, Creating, Idle
    <2> QED
      BY <2>1, <2>2, FS_EmptySet, RequestAssumption DEF LimitInv
  <1>2. TypeOK /\ RowsHeld /\ RowsHeld' /\ CreatesApart /\ LimitInv
          /\ [Next]_vars => LimitInv'
    BY NextLimit
  <1>3. LimitInv => CreateLimitHolds
    BY DEF LimitInv, CreateLimitHolds, Existing, Window
  <1> QED
    BY <1>1, <1>2, <1>3, TypeCorrect, RowsAlwaysHeld, PTL DEF Spec
=============================================================================
