----------------------------- MODULE DeviceLogin ----------------------------
(***************************************************************************)
(* The browser's side of login by authorization: the login modal           *)
(* (LoginModalController, useLoginModal) and the poller it starts for each *)
(* request (AuthorizationRequestPoller), against a server that answers     *)
(* slowly, out of order or not at all.                                     *)
(*                                                                         *)
(* JavaScript runs one callback at a time, so an action is one callback: a *)
(* click, a timer, the continuation of an awaited call.  The server's      *)
(* handlers are one step each here (AuthorizationRequests has their        *)
(* statements).  A request of the pool Req has at most one poller, which   *)
(* carries its name.  The other modes of the modal (password, register,    *)
(* recover, set-new-password) are one, whose form makes one call and is    *)
(* left out; so is the submit error, which is only shown.  outcome is      *)
(* history: the callback that each poller has run.                         *)
(***************************************************************************)
EXTENDS Naturals

CONSTANTS
    Req,        \* pool of authorization requests
    None        \* no poller

ASSUME PollerAssumption == None \notin Req

VARIABLES
    open,       \* the modal is shown
    mode,       \* its mode
    panel,      \* its result panel
    row,        \* the server's status of each request
    due,        \* requests whose expiresAt has passed on the browser's clock
    call,       \* the HTTP call in flight for each request
    poller,     \* state of each request's poller
    tick,       \* pollers with an armed tick timer
    timer,      \* pollers with an armed expiry timer
    current,    \* the controller's poller
    closing,    \* #handleSuccess runs that await the status re-check
    outcome

modal == <<open, mode, panel>>
server == <<row, due>>
pollers == <<poller, tick, timer, current>>
vars == <<modal, server, call, pollers, closing, outcome>>

Mode == {"device", "other"}

\* The fourth rejection, notFound, answers a 404, which this server never gives
\* to the poller of a request it has created; it takes the same path.
Rejection == {"denied", "expired", "logged"}

Panel == {"none", "waiting"} \cup Rejection

\* What a poll call can resolve or throw; "failed" is any error.
Answer == {"open", "approved", "failed"} \cup Rejection

Call == {"none", "create", "created", "refused", "poll"} \cup Answer

\* What each variable may hold.
TypeOK ==
    /\ open \in BOOLEAN /\ mode \in Mode /\ panel \in Panel
    /\ row \in [Req -> {"none", "open", "approved", "denied", "logged",
                        "expired"}]
    /\ due \subseteq Req
    /\ call \in [Req -> Call]
    /\ poller \in [Req -> {"none", "live", "stopped"}]
    /\ tick \subseteq Req /\ timer \subseteq Req
    /\ current \in Req \cup {None}
    /\ closing \subseteq Req
    /\ outcome \in [Req -> {"none", "approved"} \cup Rejection]

Init ==
    /\ open = FALSE /\ mode = "other" /\ panel = "none"
    /\ row = [q \in Req |-> "none"]
    /\ due = {}
    /\ call = [q \in Req |-> "none"]
    /\ poller = [q \in Req |-> "none"]
    /\ tick = {} /\ timer = {}
    /\ current = None
    /\ closing = {}
    /\ outcome = [q \in Req |-> "none"]

-----------------------------------------------------------------------------
(* AuthorizationRequestPoller.                                             *)

\* stop of the pollers in S: no timer is left and the flag is set.
Stop(S) ==
    /\ poller' = [q \in Req |-> IF q \in S THEN "stopped" ELSE poller[q]]
    /\ tick' = tick \ S
    /\ timer' = timer \ S

\* LoginModalController#stopPoller.
StopPoller == Stop({current}) /\ current' = None

\* onApproved: start #handleSuccess.
OnApproved(q) ==
    /\ Stop({q})
    /\ closing' = closing \cup {q}
    /\ UNCHANGED <<current, panel>>

\* Mutant: #handleDeviceRejection shows no panel.
OnRejectedNoPanel(q, reason) ==
    /\ Stop({q, current})
    /\ current' = None
    /\ UNCHANGED <<closing, panel>>

\* onRejected: #handleDeviceRejection shows the panel of the reason and stops
\* the controller's poller, which need not be this one.
OnRejected(q, reason) ==
    /\ Stop({q, current})
    /\ current' = None
    /\ panel' = reason
    /\ UNCHANGED closing

\* #finish: stop and one callback, and nothing after a stop.
Finish(q, out) ==
    IF poller[q] = "live"
      THEN /\ outcome' = [outcome EXCEPT ![q] = out]
           /\ IF out = "approved" THEN OnApproved(q) ELSE OnRejected(q, out)
      ELSE UNCHANGED <<pollers, outcome, closing, panel>>

\* The tick timer: past expiresAt it rejects without a call, otherwise polls.
\* (It returns if the poller is stopped, but stop has then cleared it.)
Tick(q) ==
    /\ q \in tick
    /\ IF q \in due
         THEN Finish(q, "expired") /\ UNCHANGED call
         ELSE /\ call' = [call EXCEPT ![q] = "poll"]
              /\ tick' = tick \ {q}
              /\ UNCHANGED <<poller, timer, current, outcome, closing, panel>>
    /\ UNCHANGED <<open, mode, server>>

\* Mutant: the timer does not wait for expiresAt.
ExpiryEarly(q) ==
    /\ q \in timer
    /\ Finish(q, "expired")
    /\ UNCHANGED <<open, mode, server, call>>

\* The expiry timer, armed for the moment expiresAt passes.
Expiry(q) ==
    /\ q \in timer
    /\ q \in due
    /\ Finish(q, "expired")
    /\ UNCHANGED <<open, mode, server, call>>

\* Mutant: the next tick is scheduled after a stop, too.
RescheduleStopped(q) == tick' = tick \cup {q}

\* #reschedule.
Reschedule(q) == tick' = IF poller[q] = "live" THEN tick \cup {q} ELSE tick

\* dispatchPollResult and handlePollError.
PollAnswer(q) ==
    /\ call[q] \in Answer
    /\ call' = [call EXCEPT ![q] = "none"]
    /\ IF call[q] \in {"open", "failed"}
         THEN /\ Reschedule(q)
              /\ UNCHANGED <<poller, timer, current, outcome, closing, panel>>
         ELSE Finish(q, call[q])
    /\ UNCHANGED <<open, mode, server>>

-----------------------------------------------------------------------------
(* LoginModalController and the events of useLoginModal.                   *)

\* switchMode: stop the poller and drop the panel.
SwitchMode(m) ==
    /\ StopPoller
    /\ mode' = m
    /\ panel' = "none"

\* LoginModalEvents.open, from the header, a route or an expired session.
Open(m) ==
    /\ SwitchMode(m)
    /\ open' = TRUE
    /\ UNCHANGED <<server, call, closing, outcome>>

\* A tab of the form, or the button of a rejection's panel.
SelectMode(m) ==
    /\ open
    /\ \/ panel = "none"
       \/ panel \in Rejection /\ m = "device"
    /\ SwitchMode(m)
    /\ UNCHANGED <<open, server, call, closing, outcome>>

\* LoginModalEvents.close, and the cleanup of the effect.
Close ==
    /\ open
    /\ open' = FALSE
    /\ StopPoller
    /\ UNCHANGED <<mode, panel, server, call, closing, outcome>>

\* The form is on screen, and its button is never disabled.
CanSubmit == open /\ panel = "none" /\ mode = "device"

\* #submitDevice: the call.
SubmitDevice(q) ==
    /\ CanSubmit
    /\ row[q] = "none" /\ call[q] = "none"
    /\ call' = [call EXCEPT ![q] = "create"]
    /\ UNCHANGED <<open, mode, panel, server, pollers, closing, outcome>>

\* Mutant: start does not arm the expiry timer.
StartNoExpiry(q) == tick' = tick \cup {q} /\ UNCHANGED timer

\* start: schedule the first tick and arm the expiry timer.
Start(q) == tick' = tick \cup {q} /\ timer' = timer \cup {q}

\* #submitDevice: the answer starts a poller, in whatever mode the modal is.
DeviceAnswer(q) ==
    /\ \/ /\ call[q] = "created"
          /\ panel' = "waiting"
          /\ poller' = [poller EXCEPT ![q] = "live"]
          /\ Start(q)
          /\ current' = q
       \/ /\ call[q] = "refused"
          /\ UNCHANGED <<panel, pollers>>
    /\ call' = [call EXCEPT ![q] = "none"]
    /\ UNCHANGED <<open, mode, server, closing, outcome>>

\* #handleSuccess: after the status re-check it closes the modal, whose event
\* stops the controller's poller; a failing re-check is only shown.
HandleSuccess(q) ==
    /\ q \in closing
    /\ closing' = closing \ {q}
    /\ \/ /\ open' = FALSE
          /\ StopPoller
       \/ UNCHANGED <<open, pollers>>
    /\ UNCHANGED <<mode, panel, server, call, outcome>>

-----------------------------------------------------------------------------
(* The server, the network and the clocks.                                 *)

\* create, or its refusal.  A row whose answer is lost is nobody's, so that loss
\* is a refusal here.
ServeCreate(q) ==
    /\ call[q] = "create"
    /\ \/ /\ row' = [row EXCEPT ![q] = "open"]
          /\ call' = [call EXCEPT ![q] = "created"]
       \/ /\ call' = [call EXCEPT ![q] = "refused"]
          /\ UNCHANGED row
    /\ UNCHANGED <<modal, due, pollers, closing, outcome>>

\* poll: an open row may have expired on the server's clock, an approved one is
\* claimed (and denied, if its user has been), every other one answers its
\* status.
ServePoll(q) ==
    /\ call[q] = "poll"
    /\ \E st \in CASE row[q] = "open" -> {"open", "expired"}
                   [] row[q] = "approved" -> {"logged", "denied"}
                   [] OTHER -> {row[q]} :
         /\ row' = [row EXCEPT ![q] = st]
         /\ call' = [call EXCEPT ![q] =
                       IF row[q] = "approved" /\ st = "logged"
                         THEN "approved" ELSE st]
    /\ UNCHANGED <<modal, due, pollers, closing, outcome>>

\* A poll or its answer is lost.
Lose(q) ==
    /\ call[q] \in ({"poll"} \cup Answer) \ {"failed"}
    /\ call' = [call EXCEPT ![q] = "failed"]
    /\ UNCHANGED <<modal, server, pollers, closing, outcome>>

\* The approving device decides.
Decide(q) ==
    /\ row[q] = "open"
    /\ \E st \in {"approved", "denied"} : row' = [row EXCEPT ![q] = st]
    /\ UNCHANGED <<modal, due, call, pollers, closing, outcome>>

\* expiresAt passes on the browser's clock, which is not the server's.  Only a
\* live poller reads it.
Due(q) ==
    /\ poller[q] = "live" /\ q \notin due
    /\ due' = due \cup {q}
    /\ UNCHANGED <<modal, row, call, pollers, closing, outcome>>

-----------------------------------------------------------------------------

Next ==
    \/ \E q \in Req :
         \/ Tick(q) \/ Expiry(q) \/ PollAnswer(q)
         \/ SubmitDevice(q) \/ DeviceAnswer(q) \/ HandleSuccess(q)
         \/ ServeCreate(q) \/ ServePoll(q) \/ Lose(q) \/ Decide(q)
         \/ Due(q)
    \/ \E m \in Mode : Open(m) \/ SelectMode(m)
    \/ Close

\* The browser's clock goes on and its timers fire.  Nothing is assumed of the
\* server, the network or the user.
Fairness == \A q \in Req : WF_vars(Due(q)) /\ WF_vars(Expiry(q))

Spec == Init /\ [][Next]_vars /\ Fairness

-----------------------------------------------------------------------------
(* Properties.                                                             *)

\* #finish: a poller runs one callback, the first; a late answer to a poll in
\* flight when the expiry timer fired changes nothing.
OneOutcome ==
    [][\A q \in Req : outcome[q] # "none" => outcome'[q] = outcome[q]]_outcome

\* stop: a stopped poller has no armed timer, not even through a tick that was
\* in flight when it was stopped.
StoppedIsSilent ==
    \A q \in Req : poller[q] = "stopped" => q \notin tick \cup timer

\* The callback tells the truth about the request: it was approved and this
\* poller's poll has minted the session, it was denied, it is over for this
\* browser, or a poll whose answer was lost has logged it.
OutcomeTruthful ==
    \A q \in Req :
        /\ outcome[q] = "approved" => row[q] = "logged"
        /\ outcome[q] = "denied" => row[q] = "denied"
        /\ outcome[q] = "logged" => row[q] = "logged"
        /\ outcome[q] = "expired" => q \in due \/ row[q] = "expired"

\* The waiting panel is never left behind: while it is shown the controller has
\* a poller, which is live or was approved (#handleSuccess then closes the
\* modal, unless the status re-check fails).
WaitingIsAlive ==
    (open /\ panel = "waiting") =>
        /\ current \in Req
        /\ poller[current] = "live" \/ outcome[current] = "approved"

\* How timers, pollers, calls and rows go together: only a live poller has a
\* timer, only a stopped one has run a callback, a creation in flight has no
\* poller yet, and an answer on its way back is still what the row says.
PollerInv ==
    /\ \A q \in tick \cup timer : poller[q] = "live"
    /\ current \in Req => poller[current] # "none"
    /\ \A q \in Req :
         /\ outcome[q] # "none" => poller[q] = "stopped"
         /\ row[q] = "none" => poller[q] = "none"
         /\ call[q] = "create" => row[q] = "none"
         /\ call[q] = "created" => row[q] # "none" /\ poller[q] = "none"
         /\ call[q] \in {"approved", "logged"} => row[q] = "logged"
         /\ call[q] \in {"denied", "expired"} => row[q] = call[q]

\* start: every poller ends, even if the server never answers its poll.
PollerEnds == \A q \in Req : poller[q] = "live" ~> poller[q] = "stopped"

\* useLoginModal: a device request in flight leaves no live timer once the
\* modal goes away.
NoTimerOnceClosed == ~open => tick \cup timer = {}
=============================================================================
