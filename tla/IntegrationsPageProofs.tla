----------------------- MODULE IntegrationsPageProofs -----------------------
(***************************************************************************)
(* Proofs about IntegrationsPage, for any number of rows and of requests   *)
(* in flight, any cooldown and any clock: type correctness, that a         *)
(* disabled Test button has a timer that ends with its cooldown or later,  *)
(* and that the list agrees with the server once everything is answered.   *)
(***************************************************************************)
EXTENDS IntegrationsPage, TLAPS

-----------------------------------------------------------------------------
(* The inductive invariants.                                               *)

\* Neither end of a cooldown that the last drawing showed is later than the
\* row's timer.  The end that a 429 gave has a timer for every row, the end
\* that a row was answered with for those that Track has handled.
WakeInv ==
    phase # "left" =>
        \A r \in Row :
            /\ until[r] > drawn => timer[r] >= until[r]
            /\ r \notin connected /\ shownNext[r] > drawn
                 => timer[r] >= shownNext[r]

\* The rows that exist or have existed.
Known == {r \in Row : nextTest[r] # 0}

\* No row is known to the page before it is known to the server.
KnownInv ==
    /\ here \subseteq Known /\ list \subseteq Known /\ target \subseteq Known
    /\ \A c \in Call : call[c].rows \subseteq Known

\* What may be in flight in each phase of the page.
OpsIn(p) ==
    CASE p = "landing" -> {"callback", "select"}
      [] p = "list"    -> {"list", "select"}
      [] p = "error"   -> {"select"}
      [] p = "ready"   -> RowOps \cup {"select", "create"}
      [] OTHER         -> Ops

\* An answer that will put row r in the list, or take it out.
Adds(c, r) ==
    /\ call[c].step = "got" /\ call[c].answer = "row"
    /\ call[c].op \in {"select", "create"}
    /\ r \in call[c].rows

Drops(c, r) ==
    /\ call[c].step = "got" /\ call[c].answer = "done"
    /\ call[c].op = "remove"
    /\ r \in call[c].rows

\* Whatever distinguishes the loaded list from the server's rows is on its way
\* to the page, and nothing on its way will make a difference.  A created row
\* is nobody else's until its answer is there.
RowsAgree ==
    /\ \A r \in here \ list : \E c \in Call : Adds(c, r)
    /\ \A r \in list \ here : \E c \in Call : Drops(c, r)
    /\ \A c \in Call : \A r \in Row : /\ Adds(c, r) => r \in here
                                      /\ Drops(c, r) => r \notin here
    /\ \A c \in Call : \A r \in Row :
         Adds(c, r) /\ call[c].op = "create" =>
           /\ r \notin list /\ r \notin target
           /\ \A d \in InFlight : r \in call[d].rows => d = c

\* While the list is loading nothing changes the server's rows.
ListFresh ==
    \A c \in Doing({"list"}) :
        /\ call[c].answer = "list" /\ call[c].step = "got" => call[c].rows = here
        /\ \A d \in Doing({"list"}) : d = c

OpsFit == \A c \in InFlight : call[c].op \in OpsIn(phase)

AnswersFit ==
    \A c \in Call : call[c].step = "got" =>
        /\ call[c].answer = "list" => call[c].op = "list"
        /\ call[c].answer = "done" => call[c].op = "remove"

\* What has not crossed is not in flight together.
Apart ==
    \A c, d \in InFlight :
        ~(call[c].op = "select" /\ call[d].op \in {"list", "remove"})

Agreeing ==
    OpsFit /\ AnswersFit /\ Apart /\ ListFresh /\ (phase = "ready" => RowsAgree)

AgreeInv == phase # "left" /\ ~crossed /\ ~lost => Agreeing

-----------------------------------------------------------------------------
(* What the requests' operators do to the calls.                           *)

\* Call c is sent with op and rows, the others stay.
Sends(c, op, rows) ==
    /\ call[c].step = "idle"
    /\ call' \in [Call -> CallState]
    /\ call'[c].op = op /\ call'[c].rows = rows /\ call'[c].step = "sent"
    /\ \A d \in Call : d # c => call'[d] = call[d]
    /\ crossed' \in BOOLEAN
    /\ ~crossed' => /\ ~crossed
                    /\ op = "select" => Doing({"list", "remove"}) = {}
                    /\ op \in {"list", "remove"} => Doing({"select"}) = {}
    /\ UNCHANGED <<lost, connected>>

\* Call c has its answer, the others stay.
Gets(c, answer, rows) ==
    /\ call' \in [Call -> CallState]
    /\ call'[c].op = call[c].op /\ call'[c].step = "got"
    /\ call'[c].answer = answer /\ call'[c].rows = rows
    /\ \A d \in Call : d # c => call'[d] = call[d]

\* Call c is free again, the others stay.
Frees(c) ==
    /\ call' \in [Call -> CallState]
    /\ call'[c].step = "idle" /\ call'[c].rows = {}
    /\ \A d \in Call : d # c => call'[d] = call[d]

\* A call that is free is well typed.
LEMMA IdleType == Idle \in CallState
  BY DEF Idle, CallState, NoRow, Answers

\* A request takes a free call.
LEMMA RequestIs ==
  ASSUME TypeOK, NEW op \in Ops, NEW rows \in SUBSET Row, Request(op, rows)
  PROVE  \E c \in Call : Sends(c, op, rows)
  <1>0. PICK c \in Call :
        /\ call[c].step = "idle"
        /\ call' = [call EXCEPT ![c].op = op, ![c].rows = rows,
                                ![c].step = "sent"]
        /\ crossed' = \/ crossed
                      \/ op = "select" /\ Doing({"list", "remove"}) # {}
                      \/ op \in {"list", "remove"} /\ Doing({"select"}) # {}
        /\ UNCHANGED <<lost, connected>>
    BY DEF Request
  <1>1. call \in [Call -> CallState] /\ call[c] \in CallState
    BY DEF TypeOK
  <1> DEFINE v == [call[c] EXCEPT !.op = op, !.rows = rows, !.step = "sent"]
  <1>2. call' = [call EXCEPT ![c] = v]
    BY <1>0, <1>1
  <1>3. /\ v \in CallState
        /\ v.op = op /\ v.rows = rows /\ v.step = "sent"
    BY <1>1 DEF CallState
  <1> HIDE DEF v
  <1>4. /\ call' \in [Call -> CallState]
        /\ call'[c].op = op /\ call'[c].rows = rows /\ call'[c].step = "sent"
        /\ \A d \in Call : d # c => call'[d] = call[d]
    BY <1>1, <1>2, <1>3
  <1>5. /\ crossed' \in BOOLEAN
        /\ ~crossed' => /\ ~crossed
                        /\ op = "select" => Doing({"list", "remove"}) = {}
                        /\ op \in {"list", "remove"} => Doing({"select"}) = {}
    BY <1>0, Zenon
  <1> QED
    BY <1>0, <1>4, <1>5 DEF Sends

\* An answer changes the call it is for.
LEMMA AnsweredIs ==
  ASSUME TypeOK, NEW c \in Call, NEW a \in Answers, NEW rows \in SUBSET Row,
         NEW next \in [Row -> Nat], Answered(c, a, rows, next)
  PROVE  Gets(c, a, rows)
  <1>1. call \in [Call -> CallState] /\ call[c] \in CallState
    BY DEF TypeOK
  <1> DEFINE n == [r \in Row |-> IF r \in rows THEN next[r] ELSE 0]
             v == [call[c] EXCEPT !.step = "got", !.answer = a, !.rows = rows,
                                  !.next = n]
  <1>2. call' = [call EXCEPT ![c] = v]
    BY <1>1 DEF Answered
  <1>3. n \in [Row -> Nat]
    OBVIOUS
  <1> HIDE DEF n
  <1>4. /\ v \in CallState /\ v.op = call[c].op /\ v.step = "got"
        /\ v.answer = a /\ v.rows = rows
    BY <1>1, <1>3 DEF CallState
  <1> HIDE DEF v
  <1> QED
    BY <1>1, <1>2, <1>4 DEF Gets

\* The continuation of a request frees its call.
LEMMA ReceiveFrees ==
  ASSUME TypeOK, NEW c \in Call, Receive(c)
  PROVE  Frees(c)
  <1>1. call \in [Call -> CallState] /\ call' = [call EXCEPT ![c] = Idle]
    BY DEF TypeOK, Receive
  <1>2. Idle.step = "idle" /\ Idle.rows = {}
    BY DEF Idle
  <1> QED
    BY <1>1, <1>2, IdleType DEF Frees

-----------------------------------------------------------------------------
(* What the server does with a request.                                    *)

\* The server stored a credential in row r.
Renewed(r) == nextTest' = [nextTest EXCEPT ![r] = now + Cooldown]

\* Answer a with rows R to call c, and what it comes with: a read, a new row,
\* a new credential in a row, a removal.
Outcome(c, a, R) ==
    LET op == call[c].op
        own == call[c].rows \cap here
    IN \/ op = "list" /\ a = "list" /\ R = here /\ UNCHANGED <<here, nextTest>>
       \/ /\ a \in {"selection", "url", "429"} /\ R \subseteq call[c].rows
          /\ UNCHANGED <<here, nextTest>>
       \/ /\ op = "rename" /\ a = "row" /\ R \subseteq call[c].rows
          /\ UNCHANGED <<here, nextTest>>
       \/ /\ op \in {"callback", "select", "create"} /\ a = "row"
          /\ \E r \in Row : /\ nextTest[r] = 0 /\ R = {r}
                            /\ here' = here \cup {r} /\ Renewed(r)
       \/ /\ op \in {"callback", "select", "replace", "test"} /\ a = "row"
          /\ \E r \in own : R = {r} /\ here' = here /\ Renewed(r)
       \/ /\ op = "remove" /\ a = "done"
          /\ \E r \in own : /\ R = {r} /\ here' = here \ {r}
                            /\ UNCHANGED nextTest

\* What a stored credential changes.
LEMMA ConnectIs ==
  ASSUME TypeOK, NEW c \in Call, NEW r \in Row, Connect(c, r)
  PROVE  Gets(c, "row", {r}) /\ here' = here \cup {r} /\ Renewed(r)
  <1>1. nextTest' \in [Row -> Nat]
    BY PageAssumption DEF TypeOK, Connect
  <1>2. Answered(c, "row", {r}, nextTest')
    BY DEF Connect
  <1>3. Gets(c, "row", {r})
    BY <1>1, <1>2, AnsweredIs DEF Answers
  <1> QED
    BY <1>3 DEF Connect, Renewed

\* A request that is served has one of these outcomes.
LEMMA ServedIs ==
  ASSUME TypeOK, NEW c \in Call, Served(c)
  PROVE  \E a \in Answers, R \in SUBSET Row : Gets(c, a, R) /\ Outcome(c, a, R)
  <1>0. /\ call[c].rows \subseteq Row /\ here \subseteq Row
        /\ nextTest \in [Row -> Nat] /\ now \in Nat /\ NoRow \in [Row -> Nat]
    BY PageAssumption DEF TypeOK, CallState, NoRow
  <1> DEFINE Goal == \E a \in Answers, R \in SUBSET Row :
                        Gets(c, a, R) /\ Outcome(c, a, R)
  <1>1. ASSUME NEW a \in Answers, NEW R \in SUBSET Row, Gets(c, a, R),
               Outcome(c, a, R)
        PROVE  Goal
    BY <1>1
  <1> HIDE DEF Goal
  <1>2. CASE /\ call[c].op = "list" /\ Answered(c, "list", here, nextTest)
             /\ UNCHANGED server
    <2>1. Gets(c, "list", here)
      BY <1>0, <1>2, AnsweredIs DEF Answers
    <2>2. Outcome(c, "list", here)
      BY <1>2 DEF Outcome, server
    <2> QED
      BY <1>0, <1>1, <2>1, <2>2 DEF Answers
  <1>3. ASSUME NEW r \in Row, call[c].op \in {"callback", "select", "create"},
               nextTest[r] = 0, Connect(c, r)
        PROVE  Goal
    <2>1. Gets(c, "row", {r}) /\ here' = here \cup {r} /\ Renewed(r)
      BY <1>3, ConnectIs
    <2>2. Outcome(c, "row", {r})
      BY <1>3, <2>1 DEF Outcome
    <2> QED
      BY <1>1, <2>1, <2>2 DEF Answers
  <1>4. CASE /\ call[c].op = "callback" /\ Answered(c, "selection", {}, NoRow)
             /\ UNCHANGED server
    <2>1. Gets(c, "selection", {})
      BY <1>0, <1>4, AnsweredIs DEF Answers
    <2>2. Outcome(c, "selection", {})
      BY <1>4 DEF Outcome, server
    <2> QED
      BY <1>1, <2>1, <2>2 DEF Answers
  <1>5. CASE /\ call[c].op = "start" /\ Answered(c, "url", call[c].rows, NoRow)
             /\ UNCHANGED server
    <2>1. Gets(c, "url", call[c].rows)
      BY <1>0, <1>5, AnsweredIs DEF Answers
    <2>2. Outcome(c, "url", call[c].rows)
      BY <1>5 DEF Outcome, server
    <2> QED
      BY <1>0, <1>1, <2>1, <2>2 DEF Answers
  <1>6. ASSUME NEW r \in call[c].rows \cap here,
               call[c].op \in {"callback", "select", "replace", "test"},
               Connect(c, r)
        PROVE  Goal
    <2>1. Gets(c, "row", {r}) /\ here' = here \cup {r} /\ Renewed(r)
      BY <1>0, <1>6, ConnectIs
    <2>2. here' = here
      BY <2>1
    <2>3. Outcome(c, "row", {r})
      BY <1>6, <2>1, <2>2 DEF Outcome
    <2> QED
      BY <1>0, <1>1, <2>1, <2>3 DEF Answers
  <1>7. ASSUME NEW r \in call[c].rows \cap here, call[c].op = "rename",
               Answered(c, "row", {r}, nextTest), UNCHANGED server
        PROVE  Goal
    <2>1. Gets(c, "row", {r})
      BY <1>0, <1>7, AnsweredIs DEF Answers
    <2>2. Outcome(c, "row", {r})
      BY <1>7 DEF Outcome, server
    <2> QED
      BY <1>0, <1>1, <2>1, <2>2 DEF Answers
  <1>8. ASSUME NEW r \in call[c].rows \cap here, call[c].op = "remove",
               here' = here \ {r}, Answered(c, "done", {r}, NoRow),
               UNCHANGED nextTest
        PROVE  Goal
    <2>1. Gets(c, "done", {r})
      BY <1>0, <1>8, AnsweredIs DEF Answers
    <2>2. Outcome(c, "done", {r})
      BY <1>8 DEF Outcome
    <2> QED
      BY <1>0, <1>1, <2>1, <2>2 DEF Answers
  <1>9. ASSUME NEW r \in call[c].rows \cap here, now < nextTest[r],
               Answered(c, "429", {r}, [NoRow EXCEPT ![r] = nextTest[r] - now]),
               UNCHANGED server
        PROVE  Goal
    <2> DEFINE n == [NoRow EXCEPT ![r] = nextTest[r] - now]
    <2>1. n \in [Row -> Nat]
      <3>1. nextTest[r] - now \in Nat
        BY <1>0, <1>9
      <3> QED
        BY <1>0, <3>1
    <2> HIDE DEF n
    <2>2. Gets(c, "429", {r})
      BY <1>0, <1>9, <2>1, AnsweredIs DEF Answers, n
    <2>3. Outcome(c, "429", {r})
      BY <1>9 DEF Outcome, server
    <2> QED
      BY <1>0, <1>1, <2>2, <2>3 DEF Answers
  <1> QED
    BY <1>2, <1>3, <1>4, <1>5, <1>6, <1>7, <1>8, <1>9 DEF Served, Goal

-----------------------------------------------------------------------------
(* What the continuation of a request does to the rows of the page.        *)

\* schedule never takes a timer back, and covers a cooldown that goes on.
LEMMA ScheduledIs ==
  ASSUME TypeOK, NEW r \in Row, NEW e \in Nat
  PROVE  /\ Scheduled(timer, r, e) \in [Row -> Nat]
         /\ \A q \in Row : q # r => Scheduled(timer, r, e)[q] = timer[q]
         /\ Scheduled(timer, r, e)[r] >= timer[r]
         /\ e > now => Scheduled(timer, r, e)[r] >= e
  <1>1. timer \in [Row -> Nat] /\ timer[r] \in Nat /\ now \in Nat
    BY DEF TypeOK
  <1> QED
    BY <1>1 DEF Scheduled

\* What may happen to the cooldown of a row: nothing, a timer for the end it
\* was answered with, no timer but the mark of a connected row, the end of
\* both, or a timer for the end of a 429.
RowStep(r) ==
    \/ /\ until'[r] = until[r] /\ timer'[r] = timer[r]
       /\ shownNext'[r] = shownNext[r] /\ (r \in connected => r \in connected')
    \/ /\ until'[r] = until[r] /\ timer'[r] >= timer[r]
       /\ shownNext'[r] > now => timer'[r] >= shownNext'[r]
    \/ until'[r] = until[r] /\ timer'[r] = timer[r] /\ r \in connected'
    \/ until'[r] = 0 /\ shownNext'[r] = 0
    \/ /\ shownNext'[r] = shownNext[r] /\ (r \in connected => r \in connected')
       /\ timer'[r] >= timer[r]
       /\ until'[r] > now => timer'[r] >= until'[r]

RowTypes ==
    /\ list \subseteq Row /\ connected \subseteq Row
    /\ shownNext \in [Row -> Nat] /\ until \in [Row -> Nat]
    /\ timer \in [Row -> Nat]

\* The list after the answer to call c.
ListStep(c) ==
    LET a == call[c].answer
        rows == call[c].rows
        adds == a = "row" /\ call[c].op \in {"callback", "select", "create"}
    IN \/ a = "list" /\ list' = rows
       \/ adds /\ list' = list \cup rows
       \/ a = "done" /\ list' = list \ rows
       \/ a \notin {"list", "done"} /\ ~adds /\ list' = list

\* Rows that come with their cooldowns.
LEMMA TrackIs ==
  ASSUME TypeOK, NEW c \in Call, NEW newList \in SUBSET Row,
         Track(c, call[c].rows, newList)
  PROVE  RowTypes' /\ \A r \in Row : RowStep(r)
  <1>1. /\ call[c].next \in [Row -> Nat] /\ call[c].rows \subseteq Row
        /\ connected \subseteq Row
        /\ shownNext \in [Row -> Nat] /\ until \in [Row -> Nat]
        /\ timer \in [Row -> Nat] /\ now \in Nat
    BY DEF TypeOK, CallState
  <1> DEFINE sch(r) == Scheduled(timer, r, call[c].next[r])[r]
  <1>2. ASSUME NEW r \in Row
        PROVE  /\ sch(r) \in Nat /\ sch(r) >= timer[r]
               /\ call[c].next[r] > now => sch(r) >= call[c].next[r]
    BY <1>1, ScheduledIs
  <1>3. /\ shownNext' = [r \in Row |-> IF r \in call[c].rows THEN call[c].next[r]
                                       ELSE shownNext[r]]
        /\ timer' = [r \in Row |-> IF r \in call[c].rows THEN sch(r)
                                   ELSE timer[r]]
        /\ list' = newList /\ connected' = connected \ call[c].rows
        /\ until' = until
    BY DEF Track
  <1> HIDE DEF sch
  <1>4. RowTypes'
    BY <1>1, <1>2, <1>3 DEF RowTypes
  <1>5. ASSUME NEW r \in Row PROVE RowStep(r)
    <2>1. CASE r \in call[c].rows
      <3>1. /\ until'[r] = until[r] /\ timer'[r] = sch(r)
            /\ shownNext'[r] = call[c].next[r]
        BY <1>3, <2>1
      <3> QED
        BY <1>2, <3>1 DEF RowStep
    <2>2. CASE r \notin call[c].rows
      BY <1>3, <2>2 DEF RowStep
    <2> QED
      BY <2>1, <2>2
  <1> QED
    BY <1>4, <1>5

\* The row of a landing or a selection.
LEMMA UpsertIs ==
  ASSUME TypeOK, NEW c \in Call, Upsert(c)
  PROVE  RowTypes' /\ \A r \in Row : RowStep(r)
  <1>1. /\ call[c].next \in [Row -> Nat] /\ call[c].rows \subseteq Row
        /\ connected \subseteq Row /\ list \subseteq Row
        /\ shownNext \in [Row -> Nat] /\ until \in [Row -> Nat]
        /\ timer \in [Row -> Nat]
    BY DEF TypeOK, CallState
  <1>2. /\ shownNext' = [r \in Row |-> IF r \in call[c].rows THEN call[c].next[r]
                                       ELSE shownNext[r]]
        /\ list' = list \cup call[c].rows
        /\ connected' = connected \cup call[c].rows
        /\ until' = until /\ timer' = timer
    BY DEF Upsert
  <1>3. RowTypes'
    BY <1>1, <1>2 DEF RowTypes
  <1>4. ASSUME NEW r \in Row PROVE RowStep(r)
    BY <1>2 DEF RowStep
  <1> QED
    BY <1>3, <1>4

\* A removed row.
LEMMA DroppedIs ==
  ASSUME TypeOK, NEW c \in Call, Dropped(c)
  PROVE  RowTypes' /\ \A r \in Row : RowStep(r)
  <1>1. /\ connected \subseteq Row /\ list \subseteq Row
        /\ shownNext \in [Row -> Nat] /\ until \in [Row -> Nat]
        /\ timer \in [Row -> Nat]
    BY DEF TypeOK
  <1>2. RowTypes'
    BY <1>1 DEF RowTypes, Dropped
  <1>3. ASSUME NEW r \in Row PROVE RowStep(r)
    BY <1>1 DEF RowStep, Dropped
  <1> QED
    BY <1>2, <1>3

\* The end that a 429 gives.
LEMMA RetryIs ==
  ASSUME TypeOK, NEW c \in Call, NEW q \in call[c].rows, RetryCooldown(c, q)
  PROVE  RowTypes' /\ \A r \in Row : RowStep(r)
  <1>1. /\ call[c].next \in [Row -> Nat] /\ q \in Row /\ now \in Nat
        /\ connected \subseteq Row /\ list \subseteq Row
        /\ shownNext \in [Row -> Nat] /\ until \in [Row -> Nat]
        /\ timer \in [Row -> Nat]
    BY DEF TypeOK, CallState
  <1> DEFINE end == now + call[c].next[q]
  <1>2. end \in Nat
    BY <1>1
  <1>3. /\ until' = [until EXCEPT ![q] = end]
        /\ timer' = Scheduled(timer, q, end)
        /\ list' = list /\ shownNext' = shownNext /\ connected' = connected
    BY DEF RetryCooldown
  <1> HIDE DEF end
  <1>4. /\ timer' \in [Row -> Nat]
        /\ \A r \in Row : r # q => timer'[r] = timer[r]
        /\ timer'[q] >= timer[q]
        /\ end > now => timer'[q] >= end
    BY <1>1, <1>2, <1>3, ScheduledIs
  <1>5. RowTypes'
    BY <1>1, <1>2, <1>3, <1>4 DEF RowTypes
  <1>6. ASSUME NEW r \in Row PROVE RowStep(r)
    <2>1. CASE r = q
      <3>1. until'[r] = end /\ shownNext'[r] = shownNext[r]
        BY <1>1, <1>3, <2>1
      <3> QED
        BY <1>3, <1>4, <2>1, <3>1 DEF RowStep
    <2>2. CASE r # q
      BY <1>1, <1>3, <1>4, <2>2 DEF RowStep
    <2> QED
      BY <2>1, <2>2
  <1> QED
    BY <1>5, <1>6

\* The continuation of any request.
LEMMA ReceiveIs ==
  ASSUME TypeOK, NEW c \in Call, Receive(c)
  PROVE  /\ RowTypes' /\ \A r \in Row : RowStep(r)
         /\ ListStep(c)
  <1>0. call[c].rows \subseteq Row /\ list \subseteq Row
    BY DEF TypeOK, CallState
  <1>1. ASSUME UNCHANGED <<rowState, connected>>
        PROVE  RowTypes' /\ (\A r \in Row : RowStep(r)) /\ list' = list
    BY <1>1 DEF rowState, RowTypes, RowStep, TypeOK
  <1>2. CASE call[c].answer = "list" /\ Track(c, call[c].rows, call[c].rows)
    <2>1. list' = call[c].rows
      BY <1>2 DEF Track
    <2> QED
      BY <1>0, <1>2, <2>1, TrackIs DEF ListStep
  <1>3. CASE /\ call[c].op \in {"callback", "select"}
             /\ call[c].answer = "row" /\ Upsert(c)
    <2>1. list' = list \cup call[c].rows
      BY <1>3 DEF Upsert
    <2> QED
      BY <1>3, <2>1, UpsertIs DEF ListStep
  <1>4. CASE /\ call[c].answer = "row" /\ call[c].op = "create"
             /\ Track(c, call[c].rows, list \cup call[c].rows)
    <2>1. list' = list \cup call[c].rows
      BY <1>4 DEF Track
    <2> QED
      BY <1>0, <1>4, <2>1, TrackIs DEF ListStep
  <1>5. CASE /\ call[c].answer = "row" /\ call[c].op \in RowOps
             /\ Track(c, call[c].rows, list)
    <2>1. list' = list
      BY <1>5 DEF Track
    <2> QED
      BY <1>0, <1>5, <2>1, TrackIs DEF ListStep, RowOps
  <1>6. CASE call[c].answer = "done" /\ Dropped(c)
    <2>1. list' = list \ call[c].rows
      BY <1>6 DEF Dropped
    <2> QED
      BY <1>6, <2>1, DroppedIs DEF ListStep
  <1>7. CASE /\ call[c].answer = "429"
             /\ \E r \in call[c].rows : RetryCooldown(c, r)
    <2>1. list' = list
      BY <1>7 DEF RetryCooldown
    <2> QED
      BY <1>7, <2>1, RetryIs DEF ListStep
  <1>8. CASE /\ call[c].answer \in {"selection", "error", "expired", "url"}
             /\ UNCHANGED <<rowState, connected>>
    BY <1>1, <1>8 DEF ListStep
  <1> QED
    BY <1>2, <1>3, <1>4, <1>5, <1>6, <1>7, <1>8 DEF Receive, ShowResult

-----------------------------------------------------------------------------
(* Type correctness.                                                       *)

\* The page sends one request: what the five callbacks that do so share.
Asks(c, op, rows) ==
    /\ Sends(c, op, rows)
    /\ drawn' = now
    /\ UNCHANGED <<now, here, nextTest, target, list, shownNext, until, timer>>

\* The callbacks that send a request.
LEMMA AskIs ==
  ASSUME TypeOK
  PROVE  /\ CompleteLanding => \E c \in Call : Asks(c, "callback", target)
         /\ Load => \E c \in Call : Asks(c, "list", {})
         /\ \A r \in Row : RowAction(r) => \E c \in Call, op \in RowOps :
                                              Asks(c, op, {r})
         /\ Create => \E c \in Call, op \in {"create", "start"} : Asks(c, op, {})
         /\ Select => \E c \in Call : Asks(c, "select", target)
  <1>0. target \subseteq Row
    BY DEF TypeOK
  <1> USE DEF Ops, RowOps, server, rowState
  <1>1. CompleteLanding => \E c \in Call : Asks(c, "callback", target)
    BY <1>0, RequestIs DEF CompleteLanding, Asks
  <1>2. Load => \E c \in Call : Asks(c, "list", {})
    BY RequestIs DEF Load, Asks
  <1>3. ASSUME NEW r \in Row, RowAction(r)
        PROVE  \E c \in Call, op \in RowOps : Asks(c, op, {r})
    <2>1. PICK op \in RowOps : Request(op, {r})
      BY <1>3 DEF RowAction
    <2>2. PICK c \in Call : Sends(c, op, {r})
      BY <2>1, RequestIs
    <2> QED
      BY <1>3, <2>2 DEF RowAction, Asks
  <1>4. ASSUME Create
        PROVE  \E c \in Call, op \in {"create", "start"} : Asks(c, op, {})
    <2>1. PICK op \in {"create", "start"} : Request(op, {})
      BY <1>4 DEF Create
    <2>2. PICK c \in Call : Sends(c, op, {})
      BY <2>1, RequestIs
    <2> QED
      BY <1>4, <2>2 DEF Create, Asks
  <1>5. Select => \E c \in Call : Asks(c, "select", target)
    BY <1>0, RequestIs DEF Select, Asks
  <1> QED
    BY <1>1, <1>2, <1>3, <1>4, <1>5

\* The page's callbacks that send a request.
Asking == \/ CompleteLanding \/ Load \/ Create \/ Select
          \/ \E r \in Row : RowAction(r)

\* Any of them.
LEMMA AskingIs ==
  ASSUME TypeOK, Asking
  PROVE  \E c \in Call, op \in Ops, rows \in SUBSET Row : Asks(c, op, rows)
  <1>0. target \in SUBSET Row /\ {} \in SUBSET Row
        /\ \A r \in Row : {r} \in SUBSET Row
    BY DEF TypeOK
  <1> QED
    BY <1>0, AskIs DEF Asking, Ops, RowOps

\* A request fails.
LEMMA FailIs ==
  ASSUME TypeOK, NEW c \in Call, Fail(c)
  PROVE  /\ \E a \in {"error", "expired"} : Gets(c, a, call[c].rows)
         /\ lost' \in BOOLEAN
         /\ ~lost' => ~lost /\ call[c].step = "sent"
         /\ call[c].step \in {"sent", "got"}
         /\ UNCHANGED <<now, here, nextTest, phase, landing, target, selection,
                        list, shownNext, until, timer, drawn, crossed, connected>>
  <1>1. PICK a \in {"error", "expired"} : Answered(c, a, call[c].rows, NoRow)
    BY DEF Fail
  <1>2. NoRow \in [Row -> Nat] /\ call[c].rows \in SUBSET Row /\ a \in Answers
    BY DEF TypeOK, CallState, NoRow, Answers
  <1>3. Gets(c, a, call[c].rows)
    BY <1>1, <1>2, AnsweredIs
  <1>4. /\ lost' \in BOOLEAN
        /\ ~lost' => ~lost /\ call[c].step = "sent"
        /\ call[c].step \in {"sent", "got"}
    <2>1. \/ call[c].step = "sent" /\ lost' = lost
          \/ call[c].step = "got" /\ lost' = TRUE
      BY DEF Fail
    <2>2. lost \in BOOLEAN
      BY DEF TypeOK
    <2>3. lost' \in BOOLEAN /\ call[c].step \in {"sent", "got"}
      BY <2>1, <2>2
    <2>4. ~lost' => ~lost /\ call[c].step = "sent"
      BY <2>1, Zenon
    <2> QED
      BY <2>3, <2>4
  <1> QED
    BY <1>3, <1>4 DEF Fail, server, rowState

\* The server's tables after a request.
LEMMA OutcomeType ==
  ASSUME TypeOK, NEW c \in Call, NEW a, NEW R, Outcome(c, a, R)
  PROVE  /\ here' \subseteq Row
         /\ nextTest' \in [Row -> 0..(MaxNow + Cooldown)]
  <1>1. /\ call[c].rows \subseteq Row /\ here \subseteq Row
        /\ nextTest \in [Row -> 0..(MaxNow + Cooldown)]
        /\ now + Cooldown \in 0..(MaxNow + Cooldown)
    BY PageAssumption DEF TypeOK, CallState
  <1>2. ASSUME NEW r \in Row, Renewed(r)
        PROVE  nextTest' \in [Row -> 0..(MaxNow + Cooldown)]
    BY <1>1, <1>2 DEF Renewed
  <1> QED
    BY <1>1, <1>2 DEF Outcome

\* The first states are well typed.
LEMMA InitType == Init => TypeOK
  <1> SUFFICES ASSUME Init PROVE TypeOK
    OBVIOUS
  <1>1. here \subseteq Row /\ target \subseteq Row
    BY DEF Init
  <1>2. nextTest \in [Row -> 0..(MaxNow + Cooldown)]
    BY PageAssumption DEF Init
  <1>3. call \in [Call -> CallState]
    BY IdleType DEF Init
  <1>4. /\ shownNext \in [Row -> Nat] /\ until \in [Row -> Nat]
        /\ timer \in [Row -> Nat]
    BY DEF Init, NoRow
  <1>5. now \in 0..MaxNow /\ drawn \in 0..now
    BY PageAssumption DEF Init
  <1>6. /\ phase \in {"landing", "list", "ready", "error", "left"}
        /\ landing \in Landings /\ selection \in BOOLEAN
        /\ list \subseteq Row /\ connected \subseteq Row
        /\ crossed \in BOOLEAN /\ lost \in BOOLEAN
    BY DEF Init
  <1> QED
    BY <1>1, <1>2, <1>3, <1>4, <1>5, <1>6 DEF TypeOK

\* Every step keeps the types.
LEMMA NextType == TypeOK /\ [Next]_vars => TypeOK'
  <1> SUFFICES ASSUME TypeOK, [Next]_vars PROVE TypeOK'
    OBVIOUS
  <1>0. /\ now \in 0..MaxNow /\ now \in Nat /\ drawn \in 0..now
        /\ now \in 0..now
    BY PageAssumption DEF TypeOK
  <1>1. ASSUME Asking PROVE TypeOK'
    <2>1. PICK c \in Call, op \in Ops, rows \in SUBSET Row : Asks(c, op, rows)
      BY <1>1, AskingIs
    <2>2. /\ call' \in [Call -> CallState] /\ crossed' \in BOOLEAN
          /\ lost' \in BOOLEAN /\ connected' \subseteq Row
      BY <2>1 DEF Asks, Sends, TypeOK
    <2>3. /\ phase' \in {"landing", "list", "ready", "error", "left"}
          /\ landing' \in Landings /\ selection' \in BOOLEAN
      BY <1>1 DEF Asking, CompleteLanding, Load, Create, Select, RowAction,
         TypeOK, Landings
    <2> QED
      BY <1>0, <2>1, <2>2, <2>3 DEF Asks, TypeOK
  <1>2. ASSUME Retry \/ CancelSelection PROVE TypeOK'
    BY <1>0, <1>2 DEF Retry, CancelSelection, TypeOK, server, rowState, history
  <1>3. CASE Leave
    BY <1>0, <1>3 DEF Leave, TypeOK, server, history, NoRow
  <1>4. CASE Tick
    <2>1. now' \in 0..MaxNow /\ drawn' \in 0..now'
      BY <1>0, <1>4, PageAssumption DEF Tick
    <2> QED
      BY <1>4, <2>1 DEF Tick, TypeOK, server, rowState, history
  <1>5. ASSUME NEW r \in Row, TimerFires(r) PROVE TypeOK'
    BY <1>0, <1>5 DEF TimerFires, TypeOK, server, history
  <1>6. ASSUME NEW c \in Call, Serve(c) PROVE TypeOK'
    <2>1. PICK a \in Answers, R \in SUBSET Row : Gets(c, a, R) /\ Outcome(c, a, R)
      BY <1>6, ServedIs DEF Serve
    <2>2. /\ call' \in [Call -> CallState] /\ here' \subseteq Row
          /\ nextTest' \in [Row -> 0..(MaxNow + Cooldown)]
      BY <2>1, OutcomeType DEF Gets
    <2> QED
      BY <1>6, <2>2 DEF Serve, TypeOK, rowState, history
  <1>7. ASSUME NEW c \in Call, Fail(c) PROVE TypeOK'
    BY <1>7, FailIs DEF Gets, TypeOK
  <1>8. ASSUME NEW c \in Call, Receive(c) PROVE TypeOK'
    <2>1. call' \in [Call -> CallState] /\ RowTypes'
      BY <1>8, ReceiveFrees, ReceiveIs DEF Frees
    <2>2. phase' \in {"landing", "list", "ready", "error", "left"}
      BY <1>8 DEF Receive, TypeOK
    <2>3. selection' \in BOOLEAN
      BY <1>8, Zenon DEF Receive
    <2>4. /\ drawn' = now
          /\ UNCHANGED <<now, here, nextTest, landing, target, crossed, lost>>
      BY <1>8 DEF Receive, server
    <2> QED
      BY <1>0, <2>1, <2>2, <2>3, <2>4 DEF TypeOK, RowTypes
  <1>9. CASE UNCHANGED vars
    BY <1>9 DEF vars, TypeOK, server, rowState, history
  <1> QED
    BY <1>1, <1>2, <1>3, <1>4, <1>5, <1>6, <1>7, <1>8, <1>9 DEF Next, Asking

\* Type correctness of the page: its rows, timers and requests keep their
\* types, whatever is answered when.
THEOREM TypeCorrect == Spec => []TypeOK
  BY InitType, NextType, PTL DEF Spec

-----------------------------------------------------------------------------
(* A disabled button has a timer.                                          *)

\* The page is not opened again once it was left.
LEMMA LeftStays ==
  ASSUME [Next]_vars, phase' # "left"
  PROVE  phase # "left"
  <1>1. ASSUME NEW c \in Call, Receive(c) PROVE phase # "left"
    BY <1>1 DEF Receive
  <1>2. ASSUME NEW c \in Call, Serve(c) \/ Fail(c) PROVE phase # "left"
    BY <1>2 DEF Serve, Fail
  <1>3. ASSUME NEW r \in Row, TimerFires(r) \/ RowAction(r) PROVE phase # "left"
    BY <1>3 DEF TimerFires, RowAction
  <1> QED
    BY <1>1, <1>2, <1>3 DEF Next, CompleteLanding, Load, Retry, Create, Select,
       CancelSelection, Leave, Tick, vars

\* Every step keeps the timers long enough.
LEMMA WakeStep == TypeOK /\ WakeInv /\ [Next]_vars => WakeInv'
  <1> SUFFICES ASSUME TypeOK, WakeInv, [Next]_vars, phase' # "left",
                      NEW r \in Row
               PROVE  /\ until'[r] > drawn' => timer'[r] >= until'[r]
                      /\ r \notin connected' /\ shownNext'[r] > drawn'
                           => timer'[r] >= shownNext'[r]
    BY DEF WakeInv
  <1> DEFINE Wakes == /\ until'[r] > drawn' => timer'[r] >= until'[r]
                      /\ r \notin connected' /\ shownNext'[r] > drawn'
                           => timer'[r] >= shownNext'[r]
  <1>0. /\ now \in Nat /\ drawn \in Nat /\ drawn <= now
        /\ until[r] \in Nat /\ timer[r] \in Nat /\ shownNext[r] \in Nat
    BY PageAssumption DEF TypeOK
  <1>1. /\ until[r] > drawn => timer[r] >= until[r]
        /\ r \notin connected /\ shownNext[r] > drawn => timer[r] >= shownNext[r]
    BY LeftStays DEF WakeInv
  <1>2. /\ TypeOK' /\ drawn' \in Nat
        /\ until'[r] \in Nat /\ timer'[r] \in Nat /\ shownNext'[r] \in Nat
    <2>1. TypeOK'
      BY NextType
    <2> QED
      BY <2>1, PageAssumption DEF TypeOK
  <1>3. ASSUME UNCHANGED <<until, timer, shownNext, connected>>,
               drawn' \in {drawn, now}
        PROVE  Wakes
    BY <1>0, <1>1, <1>3
  <1>4. ASSUME Asking PROVE Wakes
    BY <1>3, <1>4, AskingIs DEF Asks, Sends
  <1>5. CASE Retry \/ CancelSelection \/ Tick
    BY <1>3, <1>5 DEF Retry, CancelSelection, Tick, rowState, history
  <1>6. ASSUME NEW c \in Call, Serve(c) \/ Fail(c) PROVE Wakes
    BY <1>3, <1>6 DEF Serve, Fail, rowState, history
  <1>7. ASSUME NEW q \in Row, TimerFires(q) PROVE Wakes
    <2>1. /\ timer[q] <= now /\ drawn' = now
          /\ shownNext' = shownNext /\ connected' = connected
          /\ q = r => until'[r] = 0
          /\ q # r => until'[r] = until[r] /\ timer'[r] = timer[r]
      BY <1>7 DEF TimerFires, TypeOK, history
    <2> QED
      BY <1>0, <1>1, <2>1
  <1>8. ASSUME NEW c \in Call, Receive(c) PROVE Wakes
    <2>1. RowStep(r)
      BY <1>8, ReceiveIs
    <2>2. drawn' = now
      BY <1>8 DEF Receive
    <2> QED
      BY <1>0, <1>1, <1>2, <2>1, <2>2 DEF RowStep
  <1>9. CASE UNCHANGED vars
    BY <1>3, <1>9 DEF vars, rowState, history
  <1>10. ~Leave
    BY DEF Leave
  <1> QED
    BY <1>4, <1>5, <1>6, <1>7, <1>8, <1>9, <1>10 DEF Next, Asking

\* A Test button that was drawn disabled has a timer that ends with its
\* cooldown or later, whatever answers, 429s and timers came in between; but
\* for rows that a landing or a selection has just put in the list.
THEOREM TrackedButtonsWake == Spec => []TrackedButtonWakes
  <1>1. Init => WakeInv
    BY DEF Init, WakeInv, NoRow
  <1>2. TypeOK /\ WakeInv => TrackedButtonWakes
    BY PageAssumption DEF TypeOK, WakeInv, TrackedButtonWakes, EndsAt, Later
  <1> QED
    BY <1>1, <1>2, WakeStep, TypeCorrect, PTL DEF Spec

-----------------------------------------------------------------------------
(* The rows that are known.                                                *)

\* What a served request makes known.
LEMMA KnownGrows ==
  ASSUME TypeOK, KnownInv, NEW c \in Call, NEW a, NEW R \in SUBSET Row,
         Outcome(c, a, R)
  PROVE  Known \subseteq Known' /\ R \subseteq Known' /\ here' \subseteq Known'
  <1>0. /\ here \subseteq Known /\ call[c].rows \subseteq Known
        /\ nextTest \in [Row -> Nat]
    BY PageAssumption DEF KnownInv, TypeOK
  <1>1. ASSUME NEW r \in Row, Renewed(r) PROVE Known' = Known \cup {r}
    <2>1. now + Cooldown # 0
      BY PageAssumption DEF TypeOK
    <2> QED
      BY <1>0, <1>1, <2>1 DEF Renewed, Known
  <1>2. UNCHANGED nextTest => Known' = Known
    BY DEF Known
  <1>3. Known \subseteq Row
    BY DEF Known
  <1> HIDE DEF Known
  <1> QED
    BY <1>0, <1>1, <1>2, <1>3 DEF Outcome

\* Every step keeps the page's rows known.
LEMMA KnownStep == TypeOK /\ KnownInv /\ [Next]_vars => KnownInv'
  <1> SUFFICES ASSUME TypeOK, KnownInv, [Next]_vars PROVE KnownInv'
    OBVIOUS
  <1>1. ASSUME NEW c \in Call, NEW op, NEW rows, rows \subseteq Known,
               Asks(c, op, rows)
        PROVE  KnownInv'
    <2>1. Known' = Known
      BY <1>1 DEF Asks, Known
    <2> QED
      BY <1>1, <2>1 DEF Asks, Sends, KnownInv
  <1>2. target \subseteq Known /\ \A r \in list : {r} \subseteq Known
    BY DEF KnownInv
  <1>3. ASSUME Asking PROVE KnownInv'
    <2>1. CASE CompleteLanding \/ Load \/ Create \/ Select
      BY <1>1, <1>2, <2>1, AskIs
    <2>2. ASSUME NEW r \in Row, RowAction(r) PROVE KnownInv'
      <3>1. {r} \subseteq Known
        BY <1>2, <2>2 DEF RowAction
      <3> QED
        BY <1>1, <2>2, <3>1, AskIs
    <2> QED
      BY <1>3, <2>1, <2>2 DEF Asking
  <1>4. ASSUME UNCHANGED <<here, nextTest, target, list, call>>
        PROVE  KnownInv'
    BY <1>4 DEF KnownInv, Known
  <1>5. CASE Retry \/ CancelSelection \/ Leave \/ Tick
    BY <1>4, <1>5 DEF Retry, CancelSelection, Leave, Tick, server, rowState
  <1>6. ASSUME NEW r \in Row, TimerFires(r) PROVE KnownInv'
    BY <1>4, <1>6 DEF TimerFires, server
  <1>7. ASSUME NEW c \in Call, Serve(c) PROVE KnownInv'
    <2>1. PICK a \in Answers, R \in SUBSET Row : Gets(c, a, R) /\ Outcome(c, a, R)
      BY <1>7, ServedIs DEF Serve
    <2>2. Known \subseteq Known' /\ R \subseteq Known' /\ here' \subseteq Known'
      BY <2>1, KnownGrows
    <2>3. UNCHANGED <<list, target>>
      BY <1>7 DEF Serve, rowState
    <2> HIDE DEF Known
    <2> QED
      BY <2>1, <2>2, <2>3 DEF KnownInv, Gets
  <1>8. ASSUME NEW c \in Call, Fail(c) PROVE KnownInv'
    <2>1. Known' = Known
      BY <1>8, FailIs DEF Known
    <2> QED
      BY <1>8, <2>1, FailIs DEF KnownInv, Gets
  <1>9. ASSUME NEW c \in Call, Receive(c) PROVE KnownInv'
    <2>1. UNCHANGED <<here, nextTest, target>> /\ Frees(c) /\ ListStep(c)
      BY <1>9, ReceiveFrees, ReceiveIs DEF Receive, server
    <2>2. Known' = Known
      BY <2>1 DEF Known
    <2>3. list' \subseteq list \cup call[c].rows
      BY <2>1 DEF ListStep
    <2>4. list' \subseteq Known
      BY <2>3 DEF KnownInv
    <2> QED
      BY <2>1, <2>2, <2>4 DEF KnownInv, Frees
  <1>10. CASE UNCHANGED vars
    BY <1>4, <1>10 DEF vars, server, rowState
  <1> QED
    BY <1>3, <1>5, <1>6, <1>7, <1>8, <1>9, <1>10 DEF Next, Asking

-----------------------------------------------------------------------------
(* The list agrees with the server.                                        *)

\* The operations of each phase.
LEMMA PhaseOps ==
  /\ OpsIn("landing") = {"callback", "select"}
  /\ OpsIn("list") = {"list", "select"}
  /\ OpsIn("error") = {"select"}
  /\ OpsIn("ready") = {"rename", "replace", "remove", "test", "start",
                       "select", "create"}
  BY DEF OpsIn, RowOps

\* The list is only asked for in its phase, alone.
LEMMA ListPhase ==
  ASSUME TypeOK, Agreeing, phase # "left", NEW c \in Call,
         call[c].step # "idle", call[c].op = "list"
  PROVE  phase = "list" /\ InFlight = {c}
  <1>1. call[c].op \in OpsIn(phase)
    BY DEF Agreeing, OpsFit, InFlight
  <1>2. phase \in {"landing", "list", "ready", "error"}
    BY DEF TypeOK
  <1>3. phase = "list"
    BY <1>1, <1>2, PhaseOps
  <1>4. ASSUME NEW d \in InFlight PROVE d = c
    <2>1. call[d].op \in {"list", "select"}
      BY <1>3, <1>4, PhaseOps DEF Agreeing, OpsFit
    <2>2. call[d].op # "select"
      BY <1>4 DEF Agreeing, Apart, InFlight
    <2> QED
      BY <1>4, <2>1, <2>2 DEF Agreeing, ListFresh, Doing, InFlight
  <1> QED
    BY <1>3, <1>4 DEF InFlight

\* A request is sent.
LEMMA AskAgrees ==
  ASSUME TypeOK, Agreeing, NEW c \in Call, NEW op, NEW rows, Asks(c, op, rows),
         ~crossed',
         \A d \in InFlight : call[d].op \in OpsIn(phase'), op \in OpsIn(phase'),
         op = "list" => Doing({"list"}) = {},
         phase' = "ready" => phase = "ready",
         phase = "ready" => \A r \in rows, d \in Call :
                               ~(Adds(d, r) /\ call[d].op = "create")
  PROVE  Agreeing'
  <1>1. /\ call[c].step = "idle" /\ call'[c].step = "sent"
        /\ call'[c].op = op /\ call'[c].rows = rows
        /\ \A d \in Call : d # c => call'[d] = call[d]
        /\ UNCHANGED <<here, list, target>>
        /\ op = "select" => Doing({"list", "remove"}) = {}
        /\ op \in {"list", "remove"} => Doing({"select"}) = {}
    BY DEF Asks, Sends
  <1>2. OpsFit'
    BY <1>1 DEF OpsFit, InFlight
  <1>3. AnswersFit'
    BY <1>1 DEF Agreeing, AnswersFit
  <1>4. Apart'
    <2> SUFFICES ASSUME NEW d \in Call, NEW e \in Call,
                        call'[d].step # "idle", call'[e].step # "idle",
                        call'[d].op = "select", call'[e].op \in {"list", "remove"}
                 PROVE  FALSE
      BY DEF Apart, InFlight
    <2>1. CASE d # c /\ e # c
      BY <1>1, <2>1 DEF Agreeing, Apart, InFlight
    <2>2. CASE d = c /\ e # c
      BY <1>1, <2>2 DEF Doing, InFlight
    <2>3. CASE d # c /\ e = c
      BY <1>1, <2>3 DEF Doing, InFlight
    <2>4. CASE d = c /\ e = c
      BY <1>1, <2>4
    <2> QED
      BY <2>1, <2>2, <2>3, <2>4
  <1>5. ListFresh'
    <2>1. \A d \in Call : call'[d].step = "got" => d # c /\ call'[d] = call[d]
      BY <1>1
    <2>2. ASSUME NEW d \in Call, NEW e \in Call, d # e,
                 call'[d].step # "idle", call'[e].step # "idle",
                 call'[d].op = "list", call'[e].op = "list"
          PROVE  FALSE
      <3>1. CASE d # c /\ e # c
        BY <1>1, <2>2, <3>1 DEF Agreeing, ListFresh, Doing, InFlight
      <3>2. CASE d = c \/ e = c
        BY <1>1, <2>2, <3>2 DEF Doing, InFlight
      <3> QED
        BY <3>1, <3>2
    <2>3. ASSUME NEW d \in Call, call'[d].op = "list", call'[d].step = "got",
                 call'[d].answer = "list"
          PROVE  call'[d].rows = here'
      BY <1>1, <2>1, <2>3 DEF Agreeing, ListFresh, Doing, InFlight
    <2> QED
      BY <2>2, <2>3 DEF ListFresh, Doing, InFlight
  <1>6. ASSUME phase' = "ready" PROVE RowsAgree'
    <2>1. RowsAgree /\ \A r \in rows, d \in Call :
                          ~(Adds(d, r) /\ call[d].op = "create")
      BY <1>6 DEF Agreeing
    <2>2. \A d \in Call : \A r : /\ Adds(d, r)' <=> Adds(d, r)
                                 /\ Drops(d, r)' <=> Drops(d, r)
      BY <1>1 DEF Adds, Drops
    <2>3. ASSUME NEW d \in Call, NEW r \in Row, Adds(d, r)',
                 call'[d].op = "create",
                 NEW e \in Call, call'[e].step # "idle", r \in call'[e].rows
          PROVE  e = d
      <3>1. Adds(d, r) /\ d # c /\ call[d].op = "create"
        BY <1>1, <2>2, <2>3 DEF Adds
      <3>2. CASE e = c
        BY <1>1, <2>1, <2>3, <3>1, <3>2
      <3>3. CASE e # c
        BY <1>1, <2>1, <2>3, <3>1, <3>3 DEF RowsAgree, InFlight
      <3> QED
        BY <3>2, <3>3
    <2>4. ASSUME NEW d \in Call, NEW r \in Row, Adds(d, r)',
                 call'[d].op = "create"
          PROVE  r \notin list' /\ r \notin target'
      <3>1. Adds(d, r) /\ call[d].op = "create"
        BY <1>1, <2>2, <2>4 DEF Adds
      <3> QED
        BY <1>1, <2>1, <3>1 DEF RowsAgree
    <2>5. /\ \A r \in here' \ list' : \E d \in Call : Adds(d, r)'
          /\ \A r \in list' \ here' : \E d \in Call : Drops(d, r)'
          /\ \A d \in Call : \A r \in Row : /\ Adds(d, r)' => r \in here'
                                            /\ Drops(d, r)' => r \notin here'
      BY <1>1, <2>1, <2>2 DEF RowsAgree
    <2> QED
      BY <2>3, <2>4, <2>5 DEF RowsAgree, InFlight
  <1> QED
    BY <1>2, <1>3, <1>4, <1>5, <1>6 DEF Agreeing

\* A request is served: only then does the server change.
LEMMA ServeAgrees ==
  ASSUME TypeOK, KnownInv, Agreeing, phase # "left",
         NEW c \in Call, call[c].step = "sent",
         NEW a \in Answers, NEW R \in SUBSET Row, Gets(c, a, R),
         Outcome(c, a, R), UNCHANGED <<phase, list, target>>
  PROVE  Agreeing'
  <1>1. /\ call'[c].op = call[c].op /\ call'[c].step = "got"
        /\ call'[c].answer = a /\ call'[c].rows = R
        /\ \A d \in Call : d # c => call'[d] = call[d]
    BY DEF Gets
  <1>2. /\ InFlight' = InFlight /\ c \in InFlight
        /\ \A d \in Call : call'[d].op = call[d].op
    BY <1>1 DEF InFlight
  <1>3. /\ a = "list" => call[c].op = "list" /\ R = here /\ UNCHANGED here
        /\ a = "done" => call[c].op = "remove"
    BY DEF Outcome
  <1>4. OpsFit'
    BY <1>2 DEF Agreeing, OpsFit, InFlight
  <1>5. AnswersFit'
    BY <1>1, <1>3 DEF Agreeing, AnswersFit
  <1>6. Apart'
    BY <1>2 DEF Agreeing, Apart, InFlight
  <1>7. ListFresh'
    <2>1. ASSUME NEW d \in Call, call[d].step # "idle", call[d].op = "list"
          PROVE  d = c
      <3>1. phase = "list"
        BY <2>1, ListPhase
      <3>2. call[c].op \in {"list", "select"}
        BY <1>2, <3>1, PhaseOps DEF Agreeing, OpsFit
      <3> QED
        BY <1>2, <2>1, <3>1, <3>2
           DEF Agreeing, ListFresh, Apart, Doing, InFlight
    <2> QED
      BY <1>1, <1>2, <1>3, <2>1 DEF ListFresh, Doing, InFlight
  <1>8. ASSUME phase' = "ready" PROVE RowsAgree'
    <2>0. RowsAgree /\ call[c].op \in OpsIn("ready")
      BY <1>2, <1>8 DEF Agreeing, OpsFit
    <2>1. \A d \in Call : d # c => \A r : /\ Adds(d, r)' <=> Adds(d, r)
                                          /\ Drops(d, r)' <=> Drops(d, r)
      BY <1>1 DEF Adds, Drops
    <2>2. \A r : /\ ~Adds(c, r) /\ ~Drops(c, r)
                 /\ Adds(c, r)' <=> /\ a = "row" /\ r \in R
                                    /\ call[c].op \in {"select", "create"}
                 /\ Drops(c, r)' <=> /\ a = "done" /\ r \in R
                                     /\ call[c].op = "remove"
      BY <1>1 DEF Adds, Drops
    \* A created row that waits for its answer is nobody else's.
    <2>3. ASSUME NEW d \in Call, d # c, NEW r \in Row, Adds(d, r),
                 call[d].op = "create"
          PROVE  /\ r \notin list /\ r \notin target
                 /\ r \notin call[c].rows
                 /\ \A e \in InFlight : r \in call[e].rows => e = d
      BY <1>2, <2>0, <2>3 DEF RowsAgree
    <2>4. ASSUME /\ \A r \in Row : Adds(c, r)' /\ call[c].op = "create" =>
                       /\ r \notin list /\ r \notin target
                       /\ \A e \in InFlight : e # c => r \notin call[e].rows,
                 \A d \in Call : \A r \in R :
                     d # c /\ Adds(d, r) /\ call[d].op = "create" =>
                         r \in call[c].rows
          PROVE  \A d \in Call : \A r \in Row :
                   Adds(d, r)' /\ call'[d].op = "create" =>
                     /\ r \notin list' /\ r \notin target'
                     /\ \A e \in InFlight' : r \in call'[e].rows => e = d
      <3> SUFFICES ASSUME NEW d \in Call, NEW r \in Row, Adds(d, r)',
                          call'[d].op = "create"
                   PROVE  /\ r \notin list /\ r \notin target
                          /\ \A e \in InFlight : r \in call'[e].rows => e = d
        BY <1>2
      <3>1. CASE d = c
        BY <1>1, <1>2, <2>4, <3>1 DEF InFlight
      <3>2. CASE d # c
        <4>1. Adds(d, r) /\ call[d].op = "create"
          BY <1>2, <2>1, <3>2
        <4>2. r \notin R
          BY <2>3, <2>4, <3>2, <4>1
        <4> QED
          BY <1>1, <2>3, <3>2, <4>1, <4>2 DEF InFlight
      <3> QED
        BY <3>1, <3>2
    <2>5. CASE /\ here' = here /\ R \subseteq call[c].rows
               /\ \A r : ~Drops(c, r)'
               /\ call[c].op # "create"
               /\ \A r : Adds(c, r)' => r \in here
      <3>1. \A d \in Call : \A r \in Row :
              Adds(d, r)' /\ call'[d].op = "create" =>
                /\ r \notin list' /\ r \notin target'
                /\ \A e \in InFlight' : r \in call'[e].rows => e = d
        BY <2>4, <2>5
      <3>2. /\ \A r \in here' \ list' : \E d \in Call : Adds(d, r)'
            /\ \A r \in list' \ here' : \E d \in Call : Drops(d, r)'
        BY <2>0, <2>1, <2>2, <2>5 DEF RowsAgree
      <3>3. \A d \in Call : \A r \in Row : /\ Adds(d, r)' => r \in here'
                                           /\ Drops(d, r)' => r \notin here'
        BY <2>0, <2>1, <2>5 DEF RowsAgree
      <3> QED
        BY <3>1, <3>2, <3>3 DEF RowsAgree
    <2>6. ASSUME call[c].op \in {"select", "create"}, a = "row",
                 NEW r \in Row, nextTest[r] = 0, R = {r}, here' = here \cup {r}
          PROVE  RowsAgree'
      <3>0. /\ r \notin list /\ r \notin target
            /\ \A d \in Call : r \notin call[d].rows
        BY <2>6 DEF KnownInv, Known
      <3>1. \A d \in Call : \A x \in Row :
              Adds(d, x)' /\ call'[d].op = "create" =>
                /\ x \notin list' /\ x \notin target'
                /\ \A e \in InFlight' : x \in call'[e].rows => e = d
        <4>1. \A x \in Row : Adds(c, x)' /\ call[c].op = "create" =>
                /\ x \notin list /\ x \notin target
                /\ \A e \in InFlight : e # c => x \notin call[e].rows
          BY <2>2, <2>6, <3>0 DEF InFlight
        <4>2. \A d \in Call : \A x \in R :
                d # c /\ Adds(d, x) /\ call[d].op = "create" =>
                    x \in call[c].rows
          BY <2>6, <3>0 DEF Adds
        <4> QED
          BY <2>4, <4>1, <4>2
      <3>2. \A x \in here' \ list' : \E d \in Call : Adds(d, x)'
        BY <2>0, <2>1, <2>2, <2>6 DEF RowsAgree
      <3>3. \A x \in list' \ here' : \E d \in Call : Drops(d, x)'
        BY <2>0, <2>1, <2>2, <2>6 DEF RowsAgree
      <3>4. \A d \in Call : \A x \in Row : Adds(d, x)' => x \in here'
        BY <2>0, <2>1, <2>2, <2>6 DEF RowsAgree
      <3>5. \A d \in Call : \A x \in Row : Drops(d, x)' => x \notin here'
        <4> SUFFICES ASSUME NEW d \in Call, NEW x \in Row, Drops(d, x)'
                     PROVE  x \notin here'
          OBVIOUS
        <4>1. d # c /\ Drops(d, x)
          BY <2>1, <2>2, <2>6
        <4>2. x # r
          BY <3>0, <4>1 DEF Drops
        <4> QED
          BY <2>0, <2>6, <4>1, <4>2 DEF RowsAgree
      <3> QED
        BY <3>1, <3>2, <3>3, <3>4, <3>5 DEF RowsAgree
    <2>7. ASSUME call[c].op = "remove", a = "done",
                 NEW r \in call[c].rows \cap here, R = {r}, here' = here \ {r}
          PROVE  RowsAgree'
      <3>1. \A d \in Call : \A x \in Row :
              Adds(d, x)' /\ call'[d].op = "create" =>
                /\ x \notin list' /\ x \notin target'
                /\ \A e \in InFlight' : x \in call'[e].rows => e = d
        BY <2>4, <2>7
      <3>2. \A x \in here' \ list' : \E d \in Call : Adds(d, x)'
        BY <2>0, <2>1, <2>2, <2>7 DEF RowsAgree
      <3>3. \A x \in list' \ here' : \E d \in Call : Drops(d, x)'
        BY <2>0, <2>1, <2>2, <2>7 DEF RowsAgree
      <3>4. \A d \in Call : \A x \in Row : Adds(d, x)' => x \in here'
        <4> SUFFICES ASSUME NEW d \in Call, NEW x \in Row, Adds(d, x)'
                     PROVE  x \in here'
          OBVIOUS
        <4>1. d # c /\ Adds(d, x)
          BY <2>1, <2>2, <2>7
        <4>2. CASE call[d].op = "create"
          BY <2>0, <2>3, <2>7, <4>1, <4>2 DEF RowsAgree
        <4>3. CASE call[d].op = "select"
          BY <1>2, <2>7, <4>1, <4>3 DEF Agreeing, Apart, Adds, InFlight
        <4> QED
          BY <4>1, <4>2, <4>3 DEF Adds
      <3>5. \A d \in Call : \A x \in Row : Drops(d, x)' => x \notin here'
        BY <2>0, <2>1, <2>2, <2>7 DEF RowsAgree
      <3> QED
        BY <3>1, <3>2, <3>3, <3>4, <3>5 DEF RowsAgree
    <2>8. CASE /\ a \in {"selection", "url", "429"} /\ R \subseteq call[c].rows
               /\ here' = here
      <3>1. CASE call[c].op # "create"
        BY <2>2, <2>5, <2>8, <3>1
      <3>2. CASE call[c].op = "create"
        BY <2>0, <2>1, <2>2, <2>4, <2>8, <3>2 DEF RowsAgree
      <3> QED
        BY <3>1, <3>2
    <2>9. CASE /\ call[c].op = "rename" /\ a = "row" /\ R \subseteq call[c].rows
               /\ here' = here
      BY <2>2, <2>5, <2>9
    <2>10. ASSUME call[c].op \in {"select", "replace", "test"}, a = "row",
                  NEW r \in call[c].rows \cap here, R = {r}, here' = here
           PROVE  RowsAgree'
      BY <2>2, <2>5, <2>10
    <2>11. call[c].op \notin {"list", "callback"}
      BY <2>0, PhaseOps
    <2> QED
      BY <2>6, <2>7, <2>8, <2>9, <2>10, <2>11 DEF Outcome
  <1> QED
    BY <1>4, <1>5, <1>6, <1>7, <1>8 DEF Agreeing

\* A request fails before it was served.
LEMMA FailAgrees ==
  ASSUME TypeOK, Agreeing, NEW c \in Call, call[c].step = "sent",
         NEW a \in {"error", "expired"}, Gets(c, a, call[c].rows),
         UNCHANGED <<phase, here, list, target>>
  PROVE  Agreeing'
  <1>1. /\ call'[c].op = call[c].op /\ call'[c].step = "got"
        /\ call'[c].answer = a /\ call'[c].rows = call[c].rows
        /\ \A d \in Call : d # c => call'[d] = call[d]
    BY DEF Gets
  <1>2. /\ InFlight' = InFlight
        /\ \A d \in Call : call'[d].op = call[d].op /\ call'[d].rows = call[d].rows
    BY <1>1 DEF InFlight
  <1>3. \A d \in Call, r \in Row : /\ Adds(d, r)' <=> Adds(d, r)
                                   /\ Drops(d, r)' <=> Drops(d, r)
    BY <1>1 DEF Adds, Drops
  <1>4. OpsFit' /\ Apart'
    BY <1>2 DEF Agreeing, OpsFit, Apart, InFlight
  <1>5. AnswersFit'
    BY <1>1 DEF Agreeing, AnswersFit
  <1>6. ListFresh'
    BY <1>1, <1>2 DEF Agreeing, ListFresh, Doing, InFlight
  <1>7. ASSUME phase' = "ready" PROVE RowsAgree'
    <2>1. RowsAgree
      BY <1>7 DEF Agreeing
    <2>2. here \subseteq Row /\ list \subseteq Row
      BY DEF TypeOK
    <2>3. /\ \A r \in here' \ list' : \E d \in Call : Adds(d, r)'
          /\ \A r \in list' \ here' : \E d \in Call : Drops(d, r)'
          /\ \A d \in Call : \A r \in Row : /\ Adds(d, r)' => r \in here'
                                            /\ Drops(d, r)' => r \notin here'
      BY <1>3, <2>1, <2>2 DEF RowsAgree
    <2>4. \A d \in Call : \A r \in Row :
            Adds(d, r)' /\ call'[d].op = "create" =>
              /\ r \notin list' /\ r \notin target'
              /\ \A e \in InFlight' : r \in call'[e].rows => e = d
      BY <1>2, <1>3, <2>1 DEF RowsAgree, InFlight
    <2> QED
      BY <2>3, <2>4 DEF RowsAgree
  <1> QED
    BY <1>4, <1>5, <1>6, <1>7 DEF Agreeing

\* The page takes an answer in.
LEMMA ReceiveAgrees ==
  ASSUME TypeOK, Agreeing, phase # "left", phase' # "left",
         NEW c \in Call, Receive(c)
  PROVE  Agreeing'
  <1>1. /\ call[c].step = "got" /\ UNCHANGED <<here, target>>
        /\ Frees(c) /\ ListStep(c)
    BY ReceiveFrees, ReceiveIs DEF Receive, server
  <1>2. /\ c \in InFlight /\ InFlight' = InFlight \ {c}
        /\ \A d \in Call : d # c => call'[d] = call[d]
        /\ call'[c].step = "idle"
    BY <1>1 DEF Frees, InFlight
  <1>3. \/ call[c].answer = "list" /\ phase' = "ready"
        \/ call[c].op = "list" /\ phase' = "error"
        \/ call[c].answer # "list" /\ phase' = phase
    BY DEF Receive, Navigates
  <1>4. ASSUME call[c].op = "list" PROVE phase = "list" /\ InFlight' = {}
    BY <1>1, <1>2, <1>4, ListPhase
  <1>5. call[c].answer = "list" => call[c].op = "list"
    BY <1>1 DEF Agreeing, AnswersFit
  <1>6. OpsFit'
    <2>1. CASE InFlight' = {}
      BY <2>1 DEF OpsFit
    <2>2. CASE phase' = phase
      BY <1>2, <2>2 DEF Agreeing, OpsFit, InFlight
    <2> QED
      BY <1>3, <1>4, <1>5, <2>1, <2>2
  <1>7. AnswersFit'
    BY <1>2 DEF Agreeing, AnswersFit
  <1>8. Apart'
    BY <1>2 DEF Agreeing, Apart, InFlight
  <1>9. ListFresh'
    BY <1>1, <1>2 DEF Agreeing, ListFresh, Doing, InFlight
  <1>10. \A r : ~Adds(c, r)' /\ ~Drops(c, r)'
    BY <1>2 DEF Adds, Drops
  <1>11. \A d \in Call : d # c => \A r : /\ Adds(d, r)' <=> Adds(d, r)
                                         /\ Drops(d, r)' <=> Drops(d, r)
    BY <1>2 DEF Adds, Drops
  <1>12. CASE phase' = "ready" /\ call[c].answer = "list"
    <2>1. list' = here'
      BY <1>1, <1>5, <1>12 DEF ListStep, Agreeing, ListFresh, Doing, InFlight
    <2>2. \A d \in Call, r \in Row : ~Adds(d, r)' /\ ~Drops(d, r)'
      BY <1>4, <1>5, <1>12 DEF Adds, Drops, InFlight
    <2>3. RowsAgree'
      BY <2>1, <2>2 DEF RowsAgree
    <2> QED
      BY <1>6, <1>7, <1>8, <1>9, <2>3 DEF Agreeing
  <1>13. CASE phase' = "ready" /\ call[c].answer # "list"
    <2>0. phase = "ready" /\ RowsAgree /\ call[c].op \in OpsIn("ready")
      BY <1>2, <1>3, <1>13 DEF Agreeing, OpsFit
    <2>1. call[c].op # "callback"
      BY <2>0, PhaseOps
    <2>2. call[c].rows \subseteq Row /\ here \subseteq Row /\ list \subseteq Row
      BY DEF TypeOK, CallState
    <2>3. \/ /\ list' = list \cup call[c].rows
             /\ \A r \in Row : ~Drops(c, r) /\ (Adds(c, r) <=> r \in call[c].rows)
          \/ /\ list' = list \ call[c].rows
             /\ \A r \in Row : ~Adds(c, r) /\ (Drops(c, r) <=> r \in call[c].rows)
          \/ /\ list' = list
             /\ \A r \in Row : ~Adds(c, r) /\ ~Drops(c, r)
      BY <1>1, <1>13, <2>1 DEF ListStep, Adds, Drops, Agreeing, AnswersFit
    <2>4. \A r \in here' \ list' : \E d \in Call : Adds(d, r)'
      BY <1>1, <1>11, <2>0, <2>2, <2>3 DEF RowsAgree
    <2>5. \A r \in list' \ here' : \E d \in Call : Drops(d, r)'
      BY <1>1, <1>11, <2>0, <2>2, <2>3 DEF RowsAgree
    <2>6. \A d \in Call : \A r \in Row : /\ Adds(d, r)' => r \in here'
                                         /\ Drops(d, r)' => r \notin here'
      BY <1>1, <1>10, <1>11, <2>0 DEF RowsAgree
    <2>7. ASSUME NEW d \in Call, NEW r \in Row, Adds(d, r)',
                 call'[d].op = "create"
          PROVE  /\ r \notin list' /\ r \notin target'
                 /\ \A e \in InFlight' : r \in call'[e].rows => e = d
      <3>1. d # c /\ Adds(d, r) /\ call[d].op = "create"
        BY <1>2, <1>10, <1>11, <2>7
      <3>2. /\ r \notin list /\ r \notin target
            /\ \A e \in InFlight : r \in call[e].rows => e = d
        BY <2>0, <3>1 DEF RowsAgree
      <3>3. r \notin call[c].rows
        BY <1>2, <3>1, <3>2
      <3>4. r \notin list'
        BY <2>3, <3>2, <3>3
      <3> QED
        BY <1>1, <1>2, <3>2, <3>4 DEF InFlight
    <2>8. RowsAgree'
      BY <2>4, <2>5, <2>6, <2>7 DEF RowsAgree
    <2> QED
      BY <1>6, <1>7, <1>8, <1>9, <2>8 DEF Agreeing
  <1> QED
    BY <1>6, <1>7, <1>8, <1>9, <1>12, <1>13 DEF Agreeing

\* The page, the list and the calls stay, or the page tries to load again.
LEMMA QuietAgrees ==
  ASSUME TypeOK, Agreeing, UNCHANGED <<here, list, target, call>>,
         phase' = phase \/ (phase = "error" /\ phase' = "landing")
  PROVE  Agreeing'
  <1>1. OpsFit'
    BY PhaseOps DEF Agreeing, OpsFit, InFlight
  <1>2. AnswersFit' /\ Apart' /\ ListFresh'
    BY DEF Agreeing, AnswersFit, Apart, ListFresh, Doing, InFlight
  <1>3. ASSUME phase' = "ready" PROVE RowsAgree'
    BY <1>3 DEF Agreeing, RowsAgree, Adds, Drops, InFlight
  <1> QED
    BY <1>1, <1>2, <1>3 DEF Agreeing

\* What crossed or was lost stays so.
LEMMA HistoryStays ==
  ASSUME TypeOK, [Next]_vars, ~crossed', ~lost'
  PROVE  ~crossed /\ ~lost
  <1>1. ASSUME UNCHANGED <<crossed, lost>> PROVE ~crossed /\ ~lost
    BY <1>1
  <1>2. ASSUME Asking PROVE ~crossed /\ ~lost
    <2>1. PICK c \in Call, op \in Ops, rows \in SUBSET Row : Asks(c, op, rows)
      BY <1>2, AskingIs
    <2>2. (~crossed' => ~crossed) /\ lost' = lost
      BY <2>1 DEF Asks, Sends
    <2> QED
      BY <2>2
  <1>3. CASE Retry \/ CancelSelection \/ Leave \/ Tick
    BY <1>1, <1>3 DEF Retry, CancelSelection, Leave, Tick, history
  <1>4. ASSUME NEW r \in Row, TimerFires(r) PROVE ~crossed /\ ~lost
    BY <1>1, <1>4 DEF TimerFires, history
  <1>5. ASSUME NEW c \in Call, Serve(c) PROVE ~crossed /\ ~lost
    BY <1>1, <1>5 DEF Serve, history
  <1>6. ASSUME NEW c \in Call, Receive(c) PROVE ~crossed /\ ~lost
    BY <1>1, <1>6 DEF Receive
  <1>7. ASSUME NEW c \in Call, Fail(c) PROVE ~crossed /\ ~lost
    <2>1. (~lost' => ~lost) /\ crossed' = crossed
      BY <1>7, FailIs
    <2> QED
      BY <2>1
  <1>8. CASE UNCHANGED vars
    BY <1>1, <1>8 DEF vars, history
  <1> QED
    BY <1>2, <1>3, <1>4, <1>5, <1>6, <1>7, <1>8 DEF Next, Asking

\* Every step keeps the agreement.
LEMMA AgreeStep == TypeOK /\ KnownInv /\ AgreeInv /\ [Next]_vars => AgreeInv'
  <1> SUFFICES ASSUME TypeOK, KnownInv, AgreeInv, [Next]_vars,
                      phase' # "left", ~crossed', ~lost'
               PROVE  Agreeing'
    BY DEF AgreeInv
  <1>1. Agreeing /\ phase # "left"
    BY LeftStays, HistoryStays DEF AgreeInv
  <1>2. \A d \in InFlight : call[d].op \in OpsIn(phase)
    BY <1>1 DEF Agreeing, OpsFit
  \* No created row that waits for its answer is shown or redirected for.
  <1>3. ASSUME phase = "ready", NEW r \in list \cup target, NEW d \in Call
        PROVE  ~(Adds(d, r) /\ call[d].op = "create")
    BY <1>1, <1>3 DEF Agreeing, RowsAgree, TypeOK
  <1>4. CASE CompleteLanding
    <2>1. PICK c \in Call : Asks(c, "callback", target)
      BY <1>4, AskIs
    <2>2. phase = "landing" /\ phase' = "landing"
      BY <1>4 DEF CompleteLanding
    <2> QED
      BY <1>1, <1>2, <2>1, <2>2, PhaseOps, AskAgrees
  <1>5. CASE Load
    <2>1. PICK c \in Call : Asks(c, "list", {})
      BY <1>5, AskIs
    <2>2. /\ phase = "landing" /\ phase' = "list"
          /\ Doing({"callback", "list"}) = {}
      BY <1>5 DEF Load
    <2>3. Doing({"list"}) = {} /\ \A d \in InFlight : call[d].op = "select"
      BY <1>2, <2>2, PhaseOps DEF Doing
    <2>4. \A d \in InFlight : call[d].op \in OpsIn(phase')
      BY <2>2, <2>3, PhaseOps
    <2> QED
      BY <1>1, <2>1, <2>2, <2>3, <2>4, PhaseOps, AskAgrees
  <1>6. CASE Create
    <2>1. PICK c \in Call, op \in {"create", "start"} : Asks(c, op, {})
      BY <1>6, AskIs
    <2>2. phase = "ready" /\ phase' = "ready"
      BY <1>6 DEF Create
    <2>3. op \in OpsIn(phase') /\ op # "list"
      BY <2>2, PhaseOps
    <2> QED
      BY <1>1, <1>2, <2>1, <2>2, <2>3, AskAgrees
  <1>7. CASE Select
    <2>1. PICK c \in Call : Asks(c, "select", target)
      BY <1>7, AskIs
    <2>2. phase' = phase
      BY <1>7 DEF Select
    <2>3. "select" \in OpsIn(phase)
      BY <1>1, PhaseOps DEF TypeOK
    <2> QED
      BY <1>1, <1>2, <1>3, <2>1, <2>2, <2>3, AskAgrees
  <1>8. ASSUME NEW r \in Row, RowAction(r) PROVE Agreeing'
    <2>1. PICK c \in Call, op \in RowOps : Asks(c, op, {r})
      BY <1>8, AskIs
    <2>2. phase = "ready" /\ phase' = "ready" /\ r \in list
      BY <1>8 DEF RowAction
    <2>3. op \in OpsIn(phase') /\ op # "list"
      BY <2>1, <2>2, PhaseOps DEF RowOps
    <2> QED
      BY <1>1, <1>2, <1>3, <2>1, <2>2, <2>3, AskAgrees
  <1>9. CASE Retry \/ CancelSelection \/ Tick \/ UNCHANGED vars
    BY <1>1, <1>9, QuietAgrees DEF Retry, CancelSelection, Tick, vars, server,
       rowState
  <1>10. ASSUME NEW r \in Row, TimerFires(r) PROVE Agreeing'
    BY <1>1, <1>10, QuietAgrees DEF TimerFires, server
  <1>11. ASSUME NEW c \in Call, Serve(c) PROVE Agreeing'
    <2>1. PICK a \in Answers, R \in SUBSET Row : Gets(c, a, R) /\ Outcome(c, a, R)
      BY <1>11, ServedIs DEF Serve
    <2>2. call[c].step = "sent" /\ UNCHANGED <<phase, list, target>>
      BY <1>11 DEF Serve, rowState
    <2> QED
      BY <1>1, <2>1, <2>2, ServeAgrees
  <1>12. ASSUME NEW c \in Call, Fail(c) PROVE Agreeing'
    <2>1. PICK a \in {"error", "expired"} : Gets(c, a, call[c].rows)
      BY <1>12, FailIs
    <2>2. call[c].step = "sent" /\ UNCHANGED <<phase, here, list, target>>
      BY <1>12, FailIs
    <2> QED
      BY <1>1, <2>1, <2>2, FailAgrees
  <1>13. ASSUME NEW c \in Call, Receive(c) PROVE Agreeing'
    BY <1>1, <1>13, ReceiveAgrees
  <1>14. ~Leave
    BY DEF Leave
  <1> QED
    BY <1>4, <1>5, <1>6, <1>7, <1>8, <1>9, <1>10, <1>11, <1>12, <1>13, <1>14
       DEF Next

\* Once nothing is in flight the loaded page shows exactly the user's rows,
\* in whatever order the answers came, unless a selection crossed the list or
\* a removal, or an answer was lost.
THEOREM ListsAgree == Spec => []ListAgrees
  <1>1. Init => KnownInv
    <2> SUFFICES ASSUME Init PROVE KnownInv
      OBVIOUS
    <2>1. Known = here
      BY PageAssumption DEF Init, Known
    <2>2. target \subseteq here /\ list = {}
      BY DEF Init
    <2>3. \A c \in Call : call[c].rows = {}
      BY DEF Init, Idle
    <2> QED
      BY <2>1, <2>2, <2>3 DEF KnownInv
  <1>2. Init => AgreeInv
    <2> SUFFICES ASSUME Init PROVE Agreeing
      BY DEF AgreeInv
    <2>1. InFlight = {} /\ \A c \in Call : call[c].step = "idle"
      BY DEF Init, InFlight, Idle
    <2>2. phase = "landing"
      BY DEF Init
    <2> QED
      BY <2>1, <2>2 DEF Agreeing, OpsFit, AnswersFit, Apart, ListFresh, Doing
  <1>3. TypeOK /\ AgreeInv => ListAgrees
    <2> SUFFICES ASSUME AgreeInv, phase = "ready", InFlight = {}, ~crossed, ~lost
                 PROVE  list = here
      BY DEF ListAgrees
    <2>1. RowsAgree
      BY DEF AgreeInv, Agreeing
    <2>2. \A c \in Call : \A r : ~Adds(c, r) /\ ~Drops(c, r)
      BY DEF Adds, Drops, InFlight
    <2> QED
      BY <2>1, <2>2 DEF RowsAgree
  <1> QED
    BY <1>1, <1>2, <1>3, KnownStep, AgreeStep, TypeCorrect, PTL DEF Spec
=============================================================================
