----------------------- MODULE AccountEditLockoutProofs ---------------------
(***************************************************************************)
(* Proofs about AccountEditLockout, for any number of requests in flight:  *)
(* type correctness, and that the first two failures are both counted.     *)
(***************************************************************************)
EXTENDS AccountEditLockout, TLAPS

-----------------------------------------------------------------------------
(* Type correctness.                                                       *)

\* An idle slot is a handler.
LEMMA IdleType == Idle \in Handler
  BY DEF Idle, Handler, PC

\* A step that gives a slot a handler keeps the slots' type.
LEMMA GotoType ==
  ASSUME TypeOK, NEW h \in Slot, NEW v \in Handler, Goto(h, v)
  PROVE  hs' \in [Slot -> Handler]
  BY DEF TypeOK, Goto

\* What a recorded failure writes is a row.
LEMMA AttemptType ==
  ASSUME TypeOK, NEW n \in Nat
  PROVE  AttemptState(n) \in Lockout
  BY EditAssumption DEF TypeOK, AttemptState, Lockout

\* The history of recorded failures stays in its range.
LEMMA CountedType ==
  ASSUME TypeOK
  PROVE  Counted \in 1..2
  BY DEF TypeOK, Counted

\* Steps of a handler keep the type invariant.
LEMMA StepType ==
  ASSUME TypeOK, NEW h \in Slot, Step(h)
  PROVE  TypeOK'
  <1> hs[h] \in Handler /\ edit \in Lockout
    BY DEF TypeOK
  <1>1. CASE Edit(h)
    <2>1. [Idle EXCEPT !.pc = "verify"] \in Handler
      BY DEF Idle, Handler, PC
    <2> QED
      BY <1>1, <2>1, GotoType DEF Edit, TypeOK
  <1>2. ASSUME NEW passes \in BOOLEAN, EditChecked(h, passes)
        PROVE  TypeOK'
    <2>1. [hs[h] EXCEPT !.pc = IF passes THEN "clearFind" ELSE "register"]
            \in Handler
      BY DEF Handler, PC
    <2> QED
      BY <1>2, <2>1, GotoType DEF EditChecked, TypeOK
  <1>3. CASE RegisterFailure(h)
    <2>1. [hs[h] EXCEPT !.pc = IF edit.exists THEN "apply" ELSE "insert",
                        !.read = edit.failed] \in Handler
      BY DEF Handler, PC, Lockout
    <2> QED
      BY <1>3, <2>1, GotoType DEF RegisterFailure, TypeOK
  <1>4. CASE InsertFirstFailure(h)
    <2>1. [hs[h] EXCEPT !.pc = "recover"] \in Handler
      BY DEF Handler, PC
    <2>2. hs' \in [Slot -> Handler]
      BY <1>4, <2>1, IdleType, GotoType DEF InsertFirstFailure
    <2>3. edit' \in Lockout /\ recorded' \in 0..2
      BY <1>4, AttemptType, CountedType DEF InsertFirstFailure, TypeOK
    <2> QED
      BY <1>4, <2>2, <2>3 DEF InsertFirstFailure, TypeOK
  <1>5. CASE RecoverFromInsertRace(h)
    <2>1. [hs[h] EXCEPT !.pc = "apply", !.read = edit.failed] \in Handler
      BY DEF Handler, PC, Lockout
    <2> QED
      BY <1>5, <2>1, GotoType DEF RecoverFromInsertRace, TypeOK
  <1>6. CASE ApplyFailure(h)
    <2>1. edit' \in Lockout
      BY <1>6, AttemptType DEF ApplyFailure, Handler
    <2>2. hs' \in [Slot -> Handler]
      BY <1>6, IdleType, GotoType DEF ApplyFailure
    <2> QED
      BY <1>6, <2>1, <2>2, CountedType DEF ApplyFailure, TypeOK
  <1>7. CASE ResetFind(h)
    <2>1. [hs[h] EXCEPT !.pc = "clear"] \in Handler
      BY DEF Handler, PC
    <2> QED
      BY <1>7, <2>1, IdleType, GotoType DEF ResetFind, TypeOK
  <1>8. CASE ResetEdit(h)
    <2>1. edit' \in Lockout
      BY <1>8 DEF ResetEdit, Lockout
    <2> QED
      BY <1>8, <2>1, IdleType, GotoType DEF ResetEdit, TypeOK
  <1> QED
    BY <1>1, <1>2, <1>3, <1>4, <1>5, <1>6, <1>7, <1>8 DEF Step

\* AccountEditAbuseGuardService: every variable keeps its type.
THEOREM TypeCorrect == Spec => []TypeOK
  <1>1. Init => TypeOK
    <2> SUFFICES ASSUME Init PROVE TypeOK
      OBVIOUS
    <2>1. edit \in Lockout
      BY DEF Init, Lockout
    <2>2. hs \in [Slot -> Handler]
      BY IdleType DEF Init
    <2>3. now = 0 /\ recorded = 0
      BY Zenon DEF Init
    <2>4. now \in Nat /\ recorded \in 0..2
      BY <2>3
    <2>5. cleared \in BOOLEAN
      BY Zenon DEF Init
    <2> QED
      BY <2>1, <2>2, <2>4, <2>5 DEF TypeOK
  <1>2. TypeOK /\ [Next]_vars => TypeOK'
    <2> SUFFICES ASSUME TypeOK, [Next]_vars PROVE TypeOK'
      OBVIOUS
    <2>1. ASSUME NEW h \in Slot, Step(h) PROVE TypeOK'
      BY <2>1, StepType
    <2>2. CASE Tick
      BY <2>2 DEF Tick, TypeOK
    <2>3. CASE UNCHANGED vars
      BY <2>3 DEF vars, TypeOK
    <2> QED
      BY <2>1, <2>2, <2>3 DEF Next
  <1> QED
    BY <1>1, <1>2, PTL DEF Spec

-----------------------------------------------------------------------------
(* The first two failures.                                                 *)

\* Until a reset, the row is there once a failure has been written, with a
\* count of its own, and a handler that adds to a count has read one.
FailuresInv ==
    ~cleared =>
      /\ edit.exists => edit.failed >= 1
      /\ ~edit.exists => recorded = 0
      /\ recorded >= 2 => edit.failed >= 2
      /\ \A g \in Slot : hs[g].pc \in {"recover", "apply"} => edit.exists
      /\ \A g \in Slot : hs[g].pc = "apply" => hs[g].read >= 1

\* A step of a handler keeps it.
LEMMA FailuresStep ==
  ASSUME TypeOK, FailuresInv, NEW h \in Slot, Step(h)
  PROVE  FailuresInv'
  <1> SUFFICES ASSUME ~cleared'
               PROVE  /\ edit'.exists => edit'.failed >= 1
                      /\ ~edit'.exists => recorded' = 0
                      /\ recorded' >= 2 => edit'.failed >= 2
                      /\ \A g \in Slot : /\ hs'[g].pc \in {"recover", "apply"}
                                            => edit'.exists
                                         /\ hs'[g].pc = "apply"
                                            => hs'[g].read >= 1
    BY DEF FailuresInv
  <1>0. ~ResetEdit(h)
    BY DEF ResetEdit
  <1>1. ~cleared
    BY <1>0 DEF Step, Edit, EditChecked, RegisterFailure, InsertFirstFailure,
                RecoverFromInsertRace, ApplyFailure, ResetFind
  <1>2. /\ edit.exists => edit.failed >= 1
        /\ ~edit.exists => recorded = 0
        /\ recorded >= 2 => edit.failed >= 2
        /\ \A g \in Slot : /\ hs[g].pc \in {"recover", "apply"} => edit.exists
                           /\ hs[g].pc = "apply" => hs[g].read >= 1
    BY <1>1 DEF FailuresInv
  <1> USE <1>2 DEF TypeOK, Goto, Handler, Lockout
  <1>3. ASSUME NEW n \in Nat, edit' = AttemptState(n), Goto(h, Idle),
               recorded' = Counted, recorded = 0 \/ n >= 1
        PROVE  /\ edit'.exists /\ edit'.failed >= 1
               /\ recorded' >= 2 => edit'.failed >= 2
               /\ \A g \in Slot : hs'[g].pc = "apply" => hs'[g].read >= 1
    BY <1>3 DEF AttemptState, Counted, Idle
  <1>4. CASE Edit(h)
    BY <1>4 DEF Edit, Idle
  <1>5. ASSUME NEW passes \in BOOLEAN, EditChecked(h, passes)
        PROVE  /\ UNCHANGED <<edit, recorded>>
               /\ \A g \in Slot : /\ hs'[g].pc \in {"recover", "apply"}
                                     => edit.exists
                                  /\ hs'[g].pc = "apply" => hs'[g].read >= 1
    BY <1>5 DEF EditChecked
  <1>6. CASE RegisterFailure(h)
    BY <1>6 DEF RegisterFailure
  <1>7. CASE InsertFirstFailure(h)
    <2>1. CASE edit.exists
      BY <1>7, <2>1 DEF InsertFirstFailure
    <2>2. CASE ~edit.exists
      BY <1>3, <1>7, <2>2 DEF InsertFirstFailure
    <2> QED
      BY <2>1, <2>2
  <1>8. CASE RecoverFromInsertRace(h)
    BY <1>8 DEF RecoverFromInsertRace, At
  <1>9. CASE ApplyFailure(h)
    <2>1. hs[h].read \in Nat /\ hs[h].read >= 1
      BY <1>9 DEF ApplyFailure, At
    <2> QED
      BY <1>3, <1>9, <2>1 DEF ApplyFailure
  <1>10. CASE ResetFind(h)
    BY <1>10 DEF ResetFind, Idle
  <1> QED
    BY <1>0, <1>4, <1>5, <1>6, <1>7, <1>8, <1>9, <1>10 DEF Step

\* recoverFromInsertRace: until a success resets the row, it counts any
\* single recorded failure and two when there are two, whatever the
\* interleaving of the requests that fail.
THEOREM FirstFailures == Spec => []FirstFailuresCounted
  <1>1. Init => FailuresInv
    BY DEF Init, FailuresInv, Idle
  <1>2. TypeOK /\ FailuresInv /\ [Next]_vars => FailuresInv'
    <2> SUFFICES ASSUME TypeOK, FailuresInv, [Next]_vars PROVE FailuresInv'
      OBVIOUS
    <2>1. ASSUME NEW h \in Slot, Step(h) PROVE FailuresInv'
      BY <2>1, FailuresStep
    <2>2. CASE Tick
      BY <2>2 DEF Tick, FailuresInv
    <2>3. CASE UNCHANGED vars
      BY <2>3 DEF vars, FailuresInv
    <2> QED
      BY <2>1, <2>2, <2>3 DEF Next
  <1>3. TypeOK /\ FailuresInv => FirstFailuresCounted
    BY DEF TypeOK, FailuresInv, FirstFailuresCounted, Lockout
  <1> QED
    BY <1>1, <1>2, <1>3, TypeCorrect, PTL DEF Spec
=============================================================================
