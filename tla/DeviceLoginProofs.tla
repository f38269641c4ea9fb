-------------------------- MODULE DeviceLoginProofs -------------------------
(***************************************************************************)
(* Proofs about DeviceLogin, for any number of authorization requests:     *)
(* a poller runs one callback, tells the truth with it and is silent when  *)
(* stopped, and the waiting panel always has its poller.                   *)
(***************************************************************************)
EXTENDS DeviceLogin, TLAPS

-----------------------------------------------------------------------------
(* Type correctness.                                                       *)

\* Stopping pollers keeps the types of what stop writes.
LEMMA StopType ==
  ASSUME TypeOK, NEW S, Stop(S)
  PROVE  /\ poller' \in [Req -> {"none", "live", "stopped"}]
         /\ tick' \subseteq Req /\ timer' \subseteq Req
  BY DEF TypeOK, Stop

\* So does a terminal callback.
LEMMA FinishType ==
  ASSUME TypeOK, NEW q \in Req, NEW out \in {"approved"} \cup Rejection,
         Finish(q, out)
  PROVE  /\ poller' \in [Req -> {"none", "live", "stopped"}]
         /\ tick' \subseteq Req /\ timer' \subseteq Req
         /\ current' \in Req \cup {None}
         /\ closing' \subseteq Req
         /\ panel' \in Panel
         /\ outcome' \in [Req -> {"none", "approved"} \cup Rejection]
  <1>1. CASE poller[q] = "live" /\ out = "approved"
    <2>1. Stop({q})
      BY <1>1 DEF Finish, OnApproved
    <2> QED
      BY <1>1, <2>1, StopType DEF Finish, OnApproved, TypeOK
  <1>2. CASE poller[q] = "live" /\ out # "approved"
    <2>1. Stop({q, current})
      BY <1>2 DEF Finish, OnRejected
    <2> QED
      BY <1>2, <2>1, StopType DEF Finish, OnRejected, TypeOK, Panel
  <1>3. CASE poller[q] # "live"
    BY <1>3 DEF Finish, pollers, TypeOK
  <1> QED
    BY <1>1, <1>2, <1>3

\* Every step keeps the types.
LEMMA TypeStep == TypeOK /\ [Next]_vars => TypeOK'
  <1> SUFFICES ASSUME TypeOK, [Next]_vars
               PROVE  TypeOK'
    OBVIOUS
  <1>1. ASSUME NEW q \in Req, Tick(q)
        PROVE  TypeOK'
    <2>1. CASE q \in due
      BY <1>1, <2>1, FinishType DEF Tick, TypeOK, Rejection, server
    <2>2. CASE q \notin due
      BY <1>1, <2>2 DEF Tick, TypeOK, Call, server
    <2> QED
      BY <2>1, <2>2
  <1>2. ASSUME NEW q \in Req, Expiry(q)
        PROVE  TypeOK'
    BY <1>2, FinishType DEF Expiry, TypeOK, Rejection, server
  <1>3. ASSUME NEW q \in Req, PollAnswer(q)
        PROVE  TypeOK'
    <2>1. CASE call[q] \in {"open", "failed"}
      BY <1>3, <2>1 DEF PollAnswer, Reschedule, TypeOK, Call, server
    <2>2. CASE call[q] \notin {"open", "failed"}
      BY <1>3, <2>2, FinishType DEF PollAnswer, TypeOK, Call, Answer, server
    <2> QED
      BY <2>1, <2>2
  <1>4. ASSUME NEW q \in Req, SubmitDevice(q)
        PROVE  TypeOK'
    BY <1>4 DEF SubmitDevice, TypeOK, Call, server, pollers
  <1>5. ASSUME NEW q \in Req, DeviceAnswer(q)
        PROVE  TypeOK'
    BY <1>5 DEF DeviceAnswer, Start, TypeOK, Call, Panel, server, pollers
  <1>6. ASSUME NEW q \in Req, HandleSuccess(q)
        PROVE  TypeOK'
    <2>1. CASE StopPoller /\ open' = FALSE
      BY <1>6, <2>1, StopType
         DEF HandleSuccess, StopPoller, TypeOK, server
    <2>2. CASE UNCHANGED <<open, pollers>>
      BY <1>6, <2>2 DEF HandleSuccess, TypeOK, server, pollers
    <2> QED
      BY <1>6, <2>1, <2>2 DEF HandleSuccess
  <1>7. ASSUME NEW q \in Req, ServeCreate(q)
        PROVE  TypeOK'
    BY <1>7 DEF ServeCreate, TypeOK, Call, modal, pollers
  <1>8. ASSUME NEW q \in Req, ServePoll(q)
        PROVE  TypeOK'
    BY <1>8 DEF ServePoll, TypeOK, Call, Answer, Rejection, modal, pollers
  <1>9. ASSUME NEW q \in Req, Lose(q)
        PROVE  TypeOK'
    BY <1>9 DEF Lose, TypeOK, Call, Answer, modal, server, pollers
  <1>10. ASSUME NEW q \in Req, Decide(q)
         PROVE  TypeOK'
    BY <1>10 DEF Decide, TypeOK, modal, pollers
  <1>11. ASSUME NEW q \in Req, Due(q)
         PROVE  TypeOK'
    BY <1>11 DEF Due, TypeOK, modal, pollers
  <1>12. ASSUME NEW m \in Mode, Open(m) \/ SelectMode(m)
         PROVE  TypeOK'
    <2>1. Stop({current}) /\ current' = None
      BY <1>12 DEF Open, SelectMode, SwitchMode, StopPoller
    <2> QED
      BY <1>12, <2>1, StopType
         DEF Open, SelectMode, SwitchMode, TypeOK, Panel, server
  <1>13. ASSUME Close
         PROVE  TypeOK'
    BY <1>13, StopType DEF Close, StopPoller, TypeOK, server
  <1>14. CASE UNCHANGED vars
    BY <1>14 DEF vars, modal, server, pollers, TypeOK
  <1> QED
    BY <1>1, <1>2, <1>3, <1>4, <1>5, <1>6, <1>7, <1>8, <1>9, <1>10, <1>11,
       <1>12, <1>13, <1>14 DEF Next

\* Types hold in every reachable state of the modal, its pollers and the
\* server's rows, for any pool of requests.
THEOREM TypeCorrect == Spec => []TypeOK
  <1>1. Init => TypeOK
    BY DEF Init, TypeOK, Mode, Panel, Call
  <1> QED
    BY <1>1, TypeStep, PTL DEF Spec

-----------------------------------------------------------------------------
(* Timers, pollers, calls and rows.                                        *)

\* What a terminal callback does to pollers: those it stops were live or were
\* the controller's, no timer is armed, and it records only a live one.
LEMMA FinishPollers ==
  ASSUME TypeOK, PollerInv, NEW q \in Req, NEW out, Finish(q, out)
  PROVE  /\ \A r \in tick' \cup timer' : poller'[r] = "live"
         /\ current' \in Req => poller'[current'] # "none"
         /\ \A r \in Req :
              /\ outcome'[r] # "none" => poller'[r] = "stopped"
              /\ poller[r] = "none" <=> poller'[r] = "none"
  <1>1. ASSUME poller[q] = "live", NEW S, S \in SUBSET {q, current}, q \in S,
               Stop(S), outcome' = [outcome EXCEPT ![q] = out],
               current' \in {current, None}
        PROVE  /\ \A r \in tick' \cup timer' : poller'[r] = "live"
               /\ current' \in Req => poller'[current'] # "none"
               /\ \A r \in Req :
                    /\ outcome'[r] # "none" => poller'[r] = "stopped"
                    /\ poller[r] = "none" <=> poller'[r] = "none"
    <2>1. \A r \in Req : r \in S => poller[r] # "none"
      BY <1>1 DEF PollerInv
    <2>2. \A r \in Req :
             poller'[r] = IF r \in S THEN "stopped" ELSE poller[r]
      BY <1>1 DEF Stop
    <2>3. \A r \in tick' \cup timer' : r \in Req /\ r \notin S /\ poller[r] = "live"
      BY <1>1 DEF Stop, TypeOK, PollerInv
    <2>4. \A r \in Req : poller[r] = "none" <=> poller'[r] = "none"
      BY <2>1, <2>2
    <2>5. \A r \in Req : outcome'[r] # "none" => poller'[r] = "stopped"
      BY <1>1, <2>2 DEF TypeOK, PollerInv
    <2>6. current' \in Req => poller'[current'] # "none"
      BY <1>1, <2>4, PollerAssumption DEF PollerInv
    <2> QED
      BY <2>2, <2>3, <2>4, <2>5, <2>6
  <1>2. CASE poller[q] = "live"
    <2>1. PICK S \in SUBSET {q, current} : q \in S /\ Stop(S)
      BY <1>2 DEF Finish, OnApproved, OnRejected
    <2>2. /\ outcome' = [outcome EXCEPT ![q] = out]
          /\ current' \in {current, None}
      BY <1>2 DEF Finish, OnApproved, OnRejected
    <2> QED
      BY <1>1, <1>2, <2>1, <2>2
  <1>3. CASE poller[q] # "live"
    BY <1>3 DEF Finish, pollers, TypeOK, PollerInv
  <1> QED
    BY <1>2, <1>3

\* The same for the controller's stopPoller.
LEMMA StopPollerPollers ==
  ASSUME TypeOK, PollerInv, StopPoller, UNCHANGED outcome
  PROVE  /\ \A r \in tick' \cup timer' : poller'[r] = "live"
         /\ current' \notin Req
         /\ \A r \in Req :
              /\ outcome'[r] # "none" => poller'[r] = "stopped"
              /\ poller[r] = "none" <=> poller'[r] = "none"
  BY PollerAssumption DEF StopPoller, Stop, TypeOK, PollerInv

\* Every step keeps PollerInv.
LEMMA PollerStep == TypeOK /\ PollerInv /\ [Next]_vars => PollerInv'
  <1> SUFFICES ASSUME TypeOK, PollerInv, [Next]_vars
               PROVE  PollerInv'
    OBVIOUS
  <1>1. ASSUME NEW q \in Req, Tick(q)
        PROVE  PollerInv'
    <2>1. CASE q \in due
      BY <1>1, <2>1, FinishPollers DEF Tick, PollerInv, server
    <2>2. CASE q \notin due
      BY <1>1, <2>2 DEF Tick, TypeOK, PollerInv, server
    <2> QED
      BY <2>1, <2>2
  <1>2. ASSUME NEW q \in Req, Expiry(q)
        PROVE  PollerInv'
    BY <1>2, FinishPollers DEF Expiry, PollerInv, server
  <1>3. ASSUME NEW q \in Req, PollAnswer(q)
        PROVE  PollerInv'
    <2>1. CASE call[q] \in {"open", "failed"}
      BY <1>3, <2>1 DEF PollAnswer, Reschedule, TypeOK, PollerInv, server
    <2>2. CASE call[q] \notin {"open", "failed"}
      BY <1>3, <2>2, FinishPollers DEF PollAnswer, TypeOK, PollerInv, server
    <2> QED
      BY <2>1, <2>2
  <1>4. ASSUME NEW q \in Req, SubmitDevice(q)
        PROVE  PollerInv'
    BY <1>4 DEF SubmitDevice, TypeOK, PollerInv, server, pollers
  <1>5. ASSUME NEW q \in Req, DeviceAnswer(q)
        PROVE  PollerInv'
    BY <1>5 DEF DeviceAnswer, Start, TypeOK, PollerInv, server, pollers
  <1>6. ASSUME NEW q \in Req, HandleSuccess(q)
        PROVE  PollerInv'
    <2>1. CASE StopPoller
      BY <1>6, <2>1, StopPollerPollers DEF HandleSuccess, PollerInv, server
    <2>2. CASE UNCHANGED pollers
      BY <1>6, <2>2 DEF HandleSuccess, PollerInv, server, pollers
    <2> QED
      BY <1>6, <2>1, <2>2 DEF HandleSuccess
  <1>7. ASSUME NEW q \in Req, ServeCreate(q)
        PROVE  PollerInv'
    BY <1>7 DEF ServeCreate, TypeOK, PollerInv, pollers
  <1>8. ASSUME NEW q \in Req, ServePoll(q)
        PROVE  PollerInv'
    BY <1>8 DEF ServePoll, TypeOK, PollerInv, pollers
  <1>9. ASSUME NEW q \in Req, Lose(q)
        PROVE  PollerInv'
    BY <1>9 DEF Lose, TypeOK, PollerInv, server, pollers
  <1>10. ASSUME NEW q \in Req, Decide(q)
         PROVE  PollerInv'
    BY <1>10 DEF Decide, TypeOK, PollerInv, pollers
  <1>11. ASSUME NEW q \in Req, Due(q)
         PROVE  PollerInv'
    BY <1>11 DEF Due, PollerInv, pollers
  <1>12. ASSUME NEW m \in Mode, Open(m) \/ SelectMode(m)
         PROVE  PollerInv'
    BY <1>12, StopPollerPollers
       DEF Open, SelectMode, SwitchMode, PollerInv, server
  <1>13. ASSUME Close
         PROVE  PollerInv'
    BY <1>13, StopPollerPollers DEF Close, PollerInv, server
  <1>14. CASE UNCHANGED vars
    BY <1>14 DEF vars, modal, server, pollers, PollerInv
  <1> QED
    BY <1>1, <1>2, <1>3, <1>4, <1>5, <1>6, <1>7, <1>8, <1>9, <1>10, <1>11,
       <1>12, <1>13, <1>14 DEF Next

\* The inductive invariant of the poller: only a live poller has a timer, only
\* a stopped one has run a callback, and an answer in flight matches the row.
THEOREM PollersHold == Spec => []PollerInv
  <1>1. Init => PollerInv
    BY PollerAssumption DEF Init, PollerInv
  <1> QED
    BY <1>1, PollerStep, TypeCorrect, PTL DEF Spec

\* stop cancels for good: no timer of a stopped poller is armed, whatever was
\* in flight when it was stopped.
THEOREM StoppedSilent == Spec => []StoppedIsSilent
  <1>1. TypeOK /\ PollerInv => StoppedIsSilent
    BY DEF TypeOK, PollerInv, StoppedIsSilent
  <1> QED
    BY <1>1, TypeCorrect, PollersHold, PTL

-----------------------------------------------------------------------------
(* Outcomes.                                                               *)

\* The steps that write outcome are those that finish a live poller.
LEMMA OutcomeWrites ==
  ASSUME Next
  PROVE  \/ UNCHANGED outcome
         \/ \E q \in Req : /\ poller[q] = "live"
                           /\ UNCHANGED <<row, due>>
                           /\ \/ /\ q \in due
                                 /\ outcome' = [outcome EXCEPT ![q] = "expired"]
                              \/ /\ call[q] \in Answer \ {"open", "failed"}
                                 /\ outcome' = [outcome EXCEPT ![q] = call[q]]
  <1>1. ASSUME NEW q \in Req, Tick(q) \/ Expiry(q)
        PROVE  \/ UNCHANGED outcome
               \/ /\ poller[q] = "live" /\ q \in due
                  /\ outcome' = [outcome EXCEPT ![q] = "expired"]
                  /\ UNCHANGED <<row, due>>
    BY <1>1 DEF Tick, Expiry, Finish, server
  <1>2. ASSUME NEW q \in Req, PollAnswer(q)
        PROVE  \/ UNCHANGED outcome
               \/ /\ poller[q] = "live"
                  /\ call[q] \in Answer \ {"open", "failed"}
                  /\ outcome' = [outcome EXCEPT ![q] = call[q]]
                  /\ UNCHANGED <<row, due>>
    BY <1>2 DEF PollAnswer, Finish, server
  <1>3. ASSUME NEW q \in Req,
               \/ SubmitDevice(q) \/ DeviceAnswer(q) \/ HandleSuccess(q)
               \/ ServeCreate(q) \/ ServePoll(q) \/ Lose(q) \/ Decide(q)
               \/ Due(q)
        PROVE  UNCHANGED outcome
    BY <1>3 DEF SubmitDevice, DeviceAnswer, HandleSuccess, ServeCreate,
       ServePoll, Lose, Decide, Due
  <1>4. ASSUME NEW m \in Mode, Open(m) \/ SelectMode(m)
        PROVE  UNCHANGED outcome
    BY <1>4 DEF Open, SelectMode
  <1>5. ASSUME Close
        PROVE  UNCHANGED outcome
    BY <1>5 DEF Close
  <1> QED
    BY <1>1, <1>2, <1>3, <1>4, <1>5 DEF Next

\* A poller runs one callback: an answer that comes back after the expiry timer
\* has fired, or the timer after the answer, changes no outcome.
THEOREM FirstOutcomeStands == Spec => OneOutcome
  <1> DEFINE Kept == \A q \in Req : outcome[q] # "none" => outcome'[q] = outcome[q]
  <1>1. TypeOK /\ PollerInv /\ [Next]_vars => [Kept]_outcome
    <2> SUFFICES ASSUME TypeOK, PollerInv, Next
                 PROVE  [Kept]_outcome
      BY DEF vars
    <2> QED
      BY OutcomeWrites DEF TypeOK, PollerInv
  <1> QED
    BY <1>1, TypeCorrect, PollersHold, PTL DEF Spec, OneOutcome

\* A row that is over stays as it is, and the browser's clock does not go back.
LEMMA RowsOver ==
  ASSUME TypeOK, PollerInv, Next, NEW q \in Req
  PROVE  /\ row[q] \in {"logged", "denied", "expired"} => row'[q] = row[q]
         /\ q \in due => q \in due'
  <1>1. ASSUME NEW r \in Req,
               \/ Tick(r) \/ Expiry(r) \/ PollAnswer(r) \/ SubmitDevice(r)
               \/ DeviceAnswer(r) \/ HandleSuccess(r) \/ Lose(r)
        PROVE  UNCHANGED server
    BY <1>1 DEF Tick, Expiry, PollAnswer, SubmitDevice, DeviceAnswer,
       HandleSuccess, Lose
  <1>2. ASSUME NEW r \in Req, ServeCreate(r) \/ Decide(r) \/ Due(r)
        PROVE  /\ row[q] \in {"logged", "denied", "expired"} => row'[q] = row[q]
               /\ q \in due => q \in due'
    BY <1>2 DEF ServeCreate, Decide, Due, TypeOK, PollerInv
  <1>3. ASSUME NEW r \in Req, ServePoll(r)
        PROVE  /\ row[q] \in {"logged", "denied", "expired"} => row'[q] = row[q]
               /\ q \in due => q \in due'
    BY <1>3 DEF ServePoll, TypeOK
  <1>4. ASSUME NEW m \in Mode, Open(m) \/ SelectMode(m)
        PROVE  UNCHANGED server
    BY <1>4 DEF Open, SelectMode
  <1>5. ASSUME Close
        PROVE  UNCHANGED server
    BY <1>5 DEF Close
  <1> QED
    BY <1>1, <1>2, <1>3, <1>4, <1>5 DEF Next, server

\* The callback a poller has run is true of its request then and ever after.
THEOREM OutcomesTruthful == Spec => []OutcomeTruthful
  <1>1. Init => OutcomeTruthful
    BY DEF Init, OutcomeTruthful
  <1>2. TypeOK /\ PollerInv /\ OutcomeTruthful /\ [Next]_vars
          => OutcomeTruthful'
    <2> SUFFICES ASSUME TypeOK, PollerInv, OutcomeTruthful, Next
                 PROVE  OutcomeTruthful'
      BY DEF vars, server, OutcomeTruthful
    <2>1. CASE UNCHANGED outcome
      BY <2>1, RowsOver DEF OutcomeTruthful
    <2>2. ASSUME NEW q \in Req, q \in due, UNCHANGED <<row, due>>,
                 outcome' = [outcome EXCEPT ![q] = "expired"]
          PROVE  OutcomeTruthful'
      BY <2>2 DEF OutcomeTruthful, TypeOK
    <2>3. ASSUME NEW q \in Req, call[q] \in Answer \ {"open", "failed"},
                 outcome' = [outcome EXCEPT ![q] = call[q]],
                 UNCHANGED <<row, due>>
          PROVE  OutcomeTruthful'
      <3>1. /\ call[q] \in {"approved", "logged"} => row[q] = "logged"
            /\ call[q] \in {"denied", "expired"} => row[q] = call[q]
        BY DEF PollerInv
      <3> QED
        BY <2>3, <3>1 DEF OutcomeTruthful, TypeOK
    <2> QED
      BY <2>1, <2>2, <2>3, OutcomeWrites
  <1> QED
    BY <1>1, <1>2, TypeCorrect, PollersHold, PTL DEF Spec

-----------------------------------------------------------------------------
(* The waiting panel.                                                      *)

\* A terminal callback leaves the waiting panel only with an approved poller.
LEMMA FinishWaiting ==
  ASSUME TypeOK, WaitingIsAlive, NEW q \in Req,
         NEW out \in {"approved"} \cup Rejection, Finish(q, out),
         UNCHANGED open
  PROVE  WaitingIsAlive'
  <1>1. CASE poller[q] = "live" /\ out = "approved"
    <2> SUFFICES ASSUME open, panel = "waiting"
                 PROVE  /\ current \in Req
                        /\ poller'[current] = "live" \/ outcome'[current] = "approved"
      BY <1>1 DEF Finish, OnApproved, WaitingIsAlive
    <2>1. current \in Req
      BY DEF WaitingIsAlive
    <2>2. CASE current = q
      BY <1>1, <2>2 DEF Finish, TypeOK
    <2>3. CASE current # q
      BY <1>1, <2>1, <2>3, ZenonT(60)
         DEF Finish, OnApproved, Stop, TypeOK, WaitingIsAlive
    <2> QED
      BY <2>1, <2>2, <2>3
  <1>2. CASE poller[q] = "live" /\ out # "approved"
    BY <1>2 DEF Finish, OnRejected, WaitingIsAlive, Rejection
  <1>3. CASE poller[q] # "live"
    BY <1>3 DEF Finish, pollers, WaitingIsAlive
  <1> QED
    BY <1>1, <1>2, <1>3

\* Whenever the modal waits, the poller that will end the wait is there: no
\* order of clicks, answers and timers leaves the panel up without one.
THEOREM WaitingAlive == Spec => []WaitingIsAlive
  <1>1. Init => WaitingIsAlive
    BY DEF Init, WaitingIsAlive
  <1>2. TypeOK /\ WaitingIsAlive /\ [Next]_vars => WaitingIsAlive'
    <2> SUFFICES ASSUME TypeOK, WaitingIsAlive, [Next]_vars
                 PROVE  WaitingIsAlive'
      OBVIOUS
    <2>1. ASSUME NEW q \in Req, Tick(q)
          PROVE  WaitingIsAlive'
      <3>1. CASE q \in due
        BY <2>1, <3>1, FinishWaiting DEF Tick, Rejection
      <3>2. CASE q \notin due
        BY <2>1, <3>2 DEF Tick, WaitingIsAlive
      <3> QED
        BY <3>1, <3>2
    <2>2. ASSUME NEW q \in Req, Expiry(q)
          PROVE  WaitingIsAlive'
      BY <2>2, FinishWaiting DEF Expiry, Rejection
    <2>3. ASSUME NEW q \in Req, PollAnswer(q)
          PROVE  WaitingIsAlive'
      <3>1. CASE call[q] \in {"open", "failed"}
        BY <2>3, <3>1 DEF PollAnswer, WaitingIsAlive
      <3>2. CASE call[q] \notin {"open", "failed"}
        BY <2>3, <3>2, FinishWaiting DEF PollAnswer, Answer
      <3> QED
        BY <3>1, <3>2
    <2>4. ASSUME NEW q \in Req, DeviceAnswer(q)
          PROVE  WaitingIsAlive'
      BY <2>4 DEF DeviceAnswer, TypeOK, WaitingIsAlive, pollers
    <2>5. ASSUME NEW q \in Req, HandleSuccess(q)
          PROVE  WaitingIsAlive'
      BY <2>5 DEF HandleSuccess, WaitingIsAlive, pollers
    <2>6. ASSUME NEW q \in Req,
                 \/ SubmitDevice(q) \/ ServeCreate(q) \/ ServePoll(q)
                 \/ Lose(q) \/ Decide(q) \/ Due(q)
          PROVE  WaitingIsAlive'
      BY <2>6 DEF SubmitDevice, ServeCreate, ServePoll, Lose, Decide, Due,
         WaitingIsAlive, modal, pollers
    <2>7. ASSUME NEW m \in Mode, Open(m) \/ SelectMode(m)
          PROVE  WaitingIsAlive'
      BY <2>7 DEF Open, SelectMode, SwitchMode, WaitingIsAlive
    <2>8. ASSUME Close
          PROVE  WaitingIsAlive'
      BY <2>8 DEF Close, WaitingIsAlive
    <2>9. CASE UNCHANGED vars
      BY <2>9 DEF vars, modal, pollers, WaitingIsAlive
    <2> QED
      BY <2>1, <2>2, <2>3, <2>4, <2>5, <2>6, <2>7, <2>8, <2>9 DEF Next
  <1> QED
    BY <1>1, <1>2, TypeCorrect, PTL DEF Spec
=============================================================================
