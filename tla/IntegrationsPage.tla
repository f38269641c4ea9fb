-------------------------- MODULE IntegrationsPage --------------------------
(***************************************************************************)
(* The Integrations page: its controller, the timers that re-enable the    *)
(* Test buttons, and the two redirect flows' landings, over calls that are *)
(* answered late and out of order.                                         *)
(*                                                                         *)
(* An action is one callback of the page or one request served.  The page  *)
(* is drawn again whenever a callback sets its state, so a button shows    *)
(* what was true at the time of the last drawing.  The list of types is    *)
(* loaded with the integrations and is one call with it.  A row is its     *)
(* nextTestAt and what the page adds to it; labels, credentials and        *)
(* messages are only shown and are left out, as is the form's state.  The  *)
(* browser's clock is the server's.  made counts requests for the bound;   *)
(* crossed, lost and connected are history.                                *)
(***************************************************************************)
EXTENDS Naturals, FiniteSets

CONSTANTS
    Row,        \* pool of integrations
    Call,       \* pool of requests in flight
    MaxRequests,\* bound of the requests the page makes
    Cooldown,   \* KERGHAN_INTEGRATIONS_TEST_COOLDOWN, in clock ticks
    MaxNow      \* bound of the clock

ASSUME PageAssumption == /\ Cooldown \in Nat \ {0}
                         /\ MaxRequests \in Nat /\ MaxNow \in Nat

VARIABLES
    now,
    here,       \* rows of the server
    nextTest,   \* when the server lets each be tested again; 0 before it exists
    phase,      \* what the page shows
    landing,    \* the captured landing, until it is taken
    target,     \* the row the redirect flow reconnects, none to create one
    selection,  \* the page offers a choice of installations
    list,       \* rows shown
    shownNext,  \* nextTestAt of each, as last answered
    until,      \* cooldownUntil of each, from a 429
    timer,      \* when the timer of each ends; 0 without one
    drawn,      \* time of the last drawing
    call,       \* state of each request
    made,       \* number of requests made
    crossed, lost, connected

server == <<here, nextTest>>
rowState == <<list, shownNext, until, timer>>
history == <<made, crossed, lost, connected>>
vars == <<now, server, phase, landing, target, selection, rowState, drawn,
          call, history>>

NoRow == [r \in Row |-> 0]
Idle == [op |-> "none", rows |-> {}, step |-> "idle", answer |-> "none",
         next |-> NoRow]

\* Operations on one row.
RowOps == {"rename", "replace", "remove", "test", "start"}
Ops == RowOps \cup {"list", "callback", "select", "create"}

\* A landing that was captured: GitHub's code and state, or only a notice (the
\* authorization was cancelled, requested of an owner, or failed).
Landings == {"none", "notice", "callback"}

InFlight == {c \in Call : call[c].step # "idle"}
Doing(ops) == {c \in InFlight : call[c].op \in ops}

Later(a, b) == IF a >= b THEN a ELSE b

\* Cooldown.endsAt of a shown row.
EndsAt(r) == Later(shownNext[r], until[r])

Answers == {"none", "list", "row", "selection", "url", "done", "429",
            "error", "expired"}

CallState == [op: Ops \cup {"none"}, rows: SUBSET Row,
              step: {"idle", "sent", "got"}, answer: Answers,
              next: [Row -> Nat]]

TypeOK ==
    /\ now \in 0..MaxNow /\ drawn \in 0..now
    /\ here \subseteq Row /\ list \subseteq Row /\ connected \subseteq Row
    /\ nextTest \in [Row -> 0..(MaxNow + Cooldown)]
    /\ phase \in {"landing", "list", "ready", "error", "left"}
    /\ landing \in Landings /\ target \subseteq Row
    /\ selection \in BOOLEAN
    /\ shownNext \in [Row -> Nat]
    /\ until \in [Row -> Nat]
    /\ timer \in [Row -> Nat]
    /\ call \in [Call -> CallState]
    /\ crossed \in BOOLEAN /\ lost \in BOOLEAN

\* The page is opened from the menu, or GitHub sent the browser back to it.
Init ==
    /\ now = 0
    /\ here \in SUBSET Row
    /\ nextTest = [r \in Row |-> IF r \in here THEN Cooldown ELSE 0]
    /\ phase = "landing"
    /\ landing \in Landings
    /\ target = {} \/ (landing = "callback" /\ \E r \in here : target = {r})
    /\ selection = FALSE
    /\ list = {} /\ shownNext = NoRow /\ until = NoRow /\ timer = NoRow
    /\ drawn = 0
    /\ call = [c \in Call |-> Idle]
    /\ made = 0 /\ crossed = FALSE /\ lost = FALSE /\ connected = {}

-----------------------------------------------------------------------------
(* CooldownTimers.                                                         *)

\* Mutant: a row that has a timer keeps it.
ScheduledOnce(t, r, endsAt) ==
    IF endsAt <= now \/ t[r] # 0 THEN t ELSE [t EXCEPT ![r] = endsAt]

\* schedule: a cooldown that is over needs no timer, and a timer that ends
\* later is kept.
Scheduled(t, r, endsAt) ==
    IF endsAt <= now \/ (t[r] # 0 /\ t[r] >= endsAt)
      THEN t
      ELSE [t EXCEPT ![r] = endsAt]

\* The timer of a row ends: the controller forgets the row's 429.
TimerFires(r) ==
    /\ timer[r] # 0 /\ timer[r] <= now
    /\ timer' = [timer EXCEPT ![r] = 0]
    /\ until' = [until EXCEPT ![r] = 0]
    /\ drawn' = now
    /\ UNCHANGED <<now, server, phase, landing, target, selection, list, shownNext,
                   call, history>>

-----------------------------------------------------------------------------
(* Requests.                                                               *)

\* An idle request of the pool carries op.  A list and a selection that are
\* in flight together, or a selection and the removal of a row, may be
\* answered in either order.
Request(op, rows) ==
    \E c \in Call :
      /\ call[c].step = "idle"
      /\ made < MaxRequests
      /\ made' = made + 1
      /\ call' = [call EXCEPT ![c].op = op, ![c].rows = rows,
                              ![c].step = "sent"]
      /\ crossed' = \/ crossed
                    \/ op = "select" /\ Doing({"list", "remove"}) # {}
                    \/ op \in {"list", "remove"} /\ Doing({"select"}) # {}
      /\ UNCHANGED <<lost, connected>>

Answered(c, answer, rows, next) ==
    call' = [call EXCEPT ![c].step = "got", ![c].answer = answer,
                         ![c].rows = rows,
                         ![c].next = [r \in Row |-> IF r \in rows THEN next[r]
                                                    ELSE 0]]

\* The server creates row r, or stores a new credential in it: both count as
\* a test of it.
Connect(c, r) ==
    /\ here' = here \cup {r}
    /\ nextTest' = [nextTest EXCEPT ![r] = now + Cooldown]
    /\ Answered(c, "row", {r}, nextTest')

\* One request on the server.  A removed row is not found.
Served(c) ==
    LET op == call[c].op
    IN \/ /\ op = "list"
          /\ Answered(c, "list", here, nextTest)
          /\ UNCHANGED server
       \/ /\ op \in {"callback", "select", "create"}
          /\ call[c].rows = {}
          /\ \E r \in Row : nextTest[r] = 0 /\ Connect(c, r)
       \/ /\ op = "callback"
          /\ Answered(c, "selection", {}, NoRow)
          /\ UNCHANGED server
       \/ /\ op = "start" /\ call[c].rows \subseteq here
          /\ Answered(c, "url", call[c].rows, NoRow)
          /\ UNCHANGED server
       \/ \E r \in call[c].rows \cap here :
            \/ op \in {"callback", "select", "replace"} /\ Connect(c, r)
            \/ /\ op = "rename"
               /\ Answered(c, "row", {r}, nextTest)
               /\ UNCHANGED server
            \/ /\ op = "remove"
               /\ here' = here \ {r}
               /\ Answered(c, "done", {r}, NoRow)
               /\ UNCHANGED nextTest
            \/ op = "test" /\ now >= nextTest[r] /\ Connect(c, r)
            \/ /\ op = "test" /\ now < nextTest[r]
               /\ Answered(c, "429", {r},
                           [NoRow EXCEPT ![r] = nextTest[r] - now])
               /\ UNCHANGED server

Serve(c) ==
    /\ call[c].step = "sent"
    /\ Served(c)
    /\ UNCHANGED <<now, phase, landing, target, selection, rowState, drawn, history>>

\* The request fails, before or after the server did its work, or the session
\* expires before it.
Fail(c) ==
    /\ \/ call[c].step = "sent" /\ UNCHANGED lost
       \/ /\ call[c].step = "got"
          /\ call[c].answer \in {"row", "done", "selection"}
          /\ lost' = TRUE
    /\ \E answer \in {"error", "expired"} :
          /\ answer = "expired" => call[c].step = "sent"
          /\ Answered(c, answer, call[c].rows, NoRow)
    /\ UNCHANGED <<now, server, phase, landing, target, selection, rowState, drawn,
                   made, crossed, connected>>

-----------------------------------------------------------------------------
(* The page.                                                               *)

\* completeLanding takes the landing, posts a callback's values and has load
\* wait for the answer.
CompleteLanding ==
    /\ phase = "landing"
    /\ landing = "callback"
    /\ landing' = "none"
    /\ Request("callback", target)
    /\ drawn' = now
    /\ UNCHANGED <<now, server, phase, target, selection, rowState>>

\* load asks for the list once there is no landing to complete.
Load ==
    /\ phase = "landing"
    /\ landing # "callback" /\ Doing({"callback", "list"}) = {}
    /\ landing' = "none"
    /\ Request("list", {})
    /\ phase' = "list"
    /\ drawn' = now
    /\ UNCHANGED <<now, server, target, selection, rowState>>

Retry ==
    /\ phase = "error"
    /\ phase' = "landing"
    /\ drawn' = now
    /\ UNCHANGED <<now, server, landing, target, selection, rowState, call, history>>

\* Rename, replace the credential of, remove, test or reconnect a shown row;
\* Test is clicked only when its button was drawn enabled.
RowAction(r) ==
    /\ phase = "ready"
    /\ r \in list
    /\ \E op \in RowOps : /\ op = "test" => EndsAt(r) <= drawn
                          /\ Request(op, {r})
    /\ drawn' = now
    /\ UNCHANGED <<now, server, phase, landing, target, selection, rowState>>

\* The add form creates a row, or starts the redirect flow that will.
Create ==
    /\ phase = "ready"
    /\ \E op \in {"create", "start"} : Request(op, {})
    /\ drawn' = now
    /\ UNCHANGED <<now, server, phase, landing, target, selection, rowState>>

\* selectInstallation clears the selection first.  It is offered above the
\* list, loaded or not.
Select ==
    /\ phase # "left"
    /\ selection
    /\ selection' = FALSE
    /\ Request("select", target)
    /\ drawn' = now
    /\ UNCHANGED <<now, server, phase, landing, target, rowState>>

\* onCancelSelection.
CancelSelection ==
    /\ phase # "left"
    /\ selection
    /\ selection' = FALSE
    /\ drawn' = now
    /\ UNCHANGED <<now, server, phase, landing, target, rowState, call, history>>

\* setIntegrations with the rows an answer brings, each with its cooldown.
Track(c, rows, newList) ==
    /\ list' = newList
    /\ shownNext' = [r \in Row |-> IF r \in rows THEN call[c].next[r]
                                   ELSE shownNext[r]]
    /\ timer' = [r \in Row |->
                   IF r \in rows THEN Scheduled(timer, r, call[c].next[r])[r]
                   ELSE timer[r]]
    /\ connected' = connected \ rows
    /\ UNCHANGED until

\* Mutant: only a row that is shown already is replaced.
UpsertShown(c) ==
    /\ shownNext' = [r \in Row |-> IF r \in call[c].rows THEN call[c].next[r]
                                   ELSE shownNext[r]]
    /\ connected' = connected \cup call[c].rows
    /\ UNCHANGED <<list, until, timer>>

\* upsert: the row of a landing or a selection is added or replaced, and its
\* cooldown gets no timer.
Upsert(c) ==
    /\ list' = list \cup call[c].rows
    /\ shownNext' = [r \in Row |-> IF r \in call[c].rows THEN call[c].next[r]
                                   ELSE shownNext[r]]
    /\ connected' = connected \cup call[c].rows
    /\ UNCHANGED <<until, timer>>

\* showResult: the row of a landing or a selection, or another selection.
ShowResult(c) ==
    \/ call[c].answer = "row" /\ Upsert(c)
    \/ call[c].answer = "selection" /\ UNCHANGED <<rowState, connected>>

\* start: the answer sends the browser away to GitHub.
Navigates(c) == call[c].answer = "url"

\* remove drops the row, its timer and its state.
Dropped(c) ==
    /\ list' = list \ call[c].rows
    /\ timer' = [r \in Row |-> IF r \in call[c].rows THEN 0 ELSE timer[r]]
    /\ until' = [r \in Row |-> IF r \in call[c].rows THEN 0 ELSE until[r]]
    /\ shownNext' = [r \in Row |-> IF r \in call[c].rows THEN 0
                                   ELSE shownNext[r]]
    /\ connected' = connected \ call[c].rows

\* #startRetryCooldown, from the answer's Retry-After.
RetryCooldown(c, r) ==
    LET end == now + call[c].next[r]
    IN /\ until' = [until EXCEPT ![r] = end]
       /\ timer' = Scheduled(timer, r, end)
       /\ UNCHANGED <<list, shownNext, connected>>

\* The continuation of a request.  An expired session leaves everything as it
\* is, the list's included; the landing's continuation then asks for the list.
Receive(c) ==
    /\ call[c].step = "got"
    /\ call' = [call EXCEPT ![c] = Idle]
    /\ LET op == call[c].op
           answer == call[c].answer
       IN /\ \/ answer = "list" /\ Track(c, call[c].rows, call[c].rows)
             \/ op \in {"callback", "select"} /\ ShowResult(c)
             \/ /\ answer = "row" /\ op = "create"
                /\ Track(c, call[c].rows, list \cup call[c].rows)
             \/ /\ answer = "row" /\ op \in RowOps
                /\ Track(c, call[c].rows, list)
             \/ answer = "done" /\ Dropped(c)
             \/ /\ answer = "429"
                /\ \E r \in call[c].rows : RetryCooldown(c, r)
             \/ /\ answer \in {"error", "expired", "url"}
                /\ UNCHANGED <<rowState, connected>>
          /\ phase' = IF phase = "left" THEN "left" ELSE
                     CASE answer = "list" -> "ready"
                       [] op = "list" /\ answer = "error" -> "error"
                       [] Navigates(c) -> "left"
                       [] OTHER -> phase
          /\ selection' = (selection \/ (answer = "selection"
                                         /\ phase # "left"))
    /\ drawn' = now
    /\ UNCHANGED <<now, server, landing, target, made, crossed, lost>>

\* dispose, when the user leaves the page.
Leave ==
    /\ phase # "left"
    /\ phase' = "left"
    /\ timer' = NoRow
    /\ selection' = FALSE
    /\ UNCHANGED <<now, server, landing, target, list, shownNext, until, drawn, call,
                   history>>

Tick ==
    /\ now < MaxNow
    /\ now' = now + 1
    /\ UNCHANGED <<server, phase, landing, target, selection, rowState, drawn, call,
                   history>>

Next ==
    \/ CompleteLanding \/ Load \/ Retry \/ Create \/ Select \/ CancelSelection
    \/ Leave
    \/ Tick
    \/ \E r \in Row : TimerFires(r) \/ RowAction(r)
    \/ \E c \in Call : Serve(c) \/ Fail(c) \/ Receive(c)

Spec == Init /\ [][Next]_vars

-----------------------------------------------------------------------------
(* Properties.                                                             *)

\* "One timer per integration row, firing when the row's Test cooldown ends
\* so the page can re-render and re-enable the button on its own": a button
\* drawn disabled has a timer that ends with its cooldown or later.
ButtonWakes ==
    \A r \in list : phase = "ready" /\ EndsAt(r) > drawn
                      => timer[r] >= EndsAt(r)

\* The same of every row but those a landing or a selection has just put in
\* the list.
TrackedButtonWakes ==
    \A r \in list \ connected : phase = "ready" /\ EndsAt(r) > drawn
                                  => timer[r] >= EndsAt(r)

\* Once nothing is in flight the loaded page shows exactly the user's rows,
\* unless a selection crossed the list or a removal, or an answer was lost.
ListAgrees ==
    phase = "ready" /\ InFlight = {} /\ ~crossed /\ ~lost => list = here
=============================================================================
