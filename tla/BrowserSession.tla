--------------------------- MODULE BrowserSession ---------------------------
(***************************************************************************)
(* The browser's side of a session: ApiClient's send, refresh and retry,   *)
(* the cookies the answers set or clear, and what the header shows         *)
(* (HeaderController, AuthStatus, AuthEvents), against the auth routes.    *)
(*                                                                         *)
(* JavaScript runs one callback at a time, so an action is one callback,   *)
(* or one step of a route on the server.  Only the refresh route has two   *)
(* (it reads the row, then rotates it on a condition); the others write    *)
(* once.  A call of the pool Call is used once.  A request carries the     *)
(* cookies of the moment it is sent, and an answer's cookies replace the   *)
(* jar's when it arrives, in whatever order that is; a request or an       *)
(* answer may be lost.  The logged_in hint is set and cleared with the     *)
(* refresh_token cookie, with the same age, so it is "jar.refresh # 0".    *)
(* There is one user.  Automatic login is off (AuthSessions has it), and a *)
(* denied account is a session ended elsewhere.  replayed, overlap, lost   *)
(* and crossed are history.                                                *)
(***************************************************************************)
EXTENDS Naturals, Sequences, FiniteSets

CONSTANTS
    Call,       \* pool of calls the pages make
    Ops         \* the operations they choose from

ASSUME OpsAssumption == Ops \subseteq {"read", "check", "recheck", "login",
                                       "logoff"}

VARIABLES
    account,    \* the user's status
    rows,       \* refresh_tokens rows, by id: session and state
    jar,        \* cookies: the access token's session, the refresh token
    legacy,     \* refresh token an older build left in localStorage
    call,       \* state of each call
    mounted,    \* the header has started its checkStatus
    shown,      \* what the header shows
    asked,      \* the login modal was opened since the last sign-in
    replayed, overlap, lost, crossed

server == <<account, rows>>
browser == <<jar, legacy, mounted, shown, asked>>
history == <<replayed, overlap, lost, crossed>>
vars == <<server, browser, call, history>>

Empty == [access |-> 0, refresh |-> 0]

\* What an answer does to the cookies: nothing, or it sets these.
Keep == [set |-> FALSE, to |-> Empty]
Clear == [set |-> TRUE, to |-> Empty]

New == [op |-> "none", step |-> "new", carry |-> Empty, code |-> "none",
        cookies |-> Keep, retried |-> FALSE, rotations |-> 0]

Live(t) == t \in DOMAIN rows /\ rows[t].state = "active"

\* JwtGuard: the access token's session is active and its user is approved.
Admitted(access) ==
    /\ account = "active"
    /\ \E t \in DOMAIN rows : Live(t) /\ rows[t].session = access

\* Calls whose refresh is on its way to the server, there, or on its way back.
Refreshing == {c \in Call : call[c].step \in {"refresh", "reading",
                                               "refreshed"}}

InFlight == {c \in Call : call[c].step \notin {"new", "done"}}

Cookies == [access : 0..Len(rows), refresh : 0..Len(rows)]

CallState ==
    [op        : {"none", "read", "status", "login", "logoff", "migrate"},
     step      : {"new", "sent", "got", "refresh", "reading", "refreshed",
                  "done"},
     carry     : Cookies,
     code      : {"none", "ok", "401", "out", "pending", "in"},
     cookies   : [set : BOOLEAN, to : Cookies],
     retried   : BOOLEAN,
     rotations : Nat]

TypeOK ==
    /\ account \in {"pending", "active"}
    /\ rows \in Seq([session : Nat, state : {"active", "rotated", "ended"}])
    /\ \A t \in DOMAIN rows : rows[t].session \in DOMAIN rows
    /\ jar \in Cookies
    /\ legacy \in 0..Len(rows)
    /\ call \in [Call -> CallState]
    /\ mounted \in BOOLEAN
    /\ shown \in {"out", "pending", "in"}
    /\ asked \in BOOLEAN
    /\ replayed \in BOOLEAN /\ overlap \in BOOLEAN
    /\ lost \in BOOLEAN /\ crossed \in BOOLEAN

\* A page load: with the session of an earlier visit, with a token that an
\* older build left, or with neither.
Init ==
    /\ account \in {"pending", "active"}
    /\ \/ /\ rows = <<[session |-> 1, state |-> "active"]>>
          /\ \/ jar = [access |-> 1, refresh |-> 1] /\ legacy = 0
             \/ jar = Empty /\ legacy = 1
       \/ rows = <<>> /\ jar = Empty /\ legacy = 0
    /\ call = [c \in Call |-> New]
    /\ mounted = FALSE
    /\ shown = (IF jar.refresh = 0 THEN "out" ELSE "in")
    /\ asked = FALSE
    /\ replayed = FALSE /\ overlap = FALSE /\ lost = FALSE /\ crossed = FALSE

-----------------------------------------------------------------------------
(* The server.                                                             *)

Answer(c, code, cookies) ==
    call' = [call EXCEPT ![c].step = "got", ![c].carry = Empty,
                         ![c].code = code, ![c].cookies = cookies]

\* Mutant: the renewed refresh token is not put in its cookie.
SetAccessOnly(t, session) ==
    [set |-> TRUE, to |-> [access |-> session, refresh |-> jar.refresh]]

\* setSessionCookies for token t.
SetSession(t, session) ==
    [set |-> TRUE, to |-> [access |-> session, refresh |-> t]]

\* Any route behind JwtGuard.
ServeRead(c) ==
    /\ Answer(c, IF Admitted(call[c].carry.access) THEN "ok" ELSE "401", Keep)
    /\ UNCHANGED rows

\* POST status.json: the answer of a pending user keeps the cookies.
ServeStatus(c) ==
    /\ IF ~Live(call[c].carry.refresh) THEN Answer(c, "out", Clear)
       ELSE IF account = "pending" THEN Answer(c, "pending", Keep)
       ELSE Answer(c, "in", Keep)
    /\ UNCHANGED rows

\* POST login.json: a wrong password is a 401 too.
ServeLogin(c) ==
    LET t == Len(rows) + 1
    IN \/ /\ rows' = Append(rows, [session |-> t, state |-> "active"])
          /\ Answer(c, "ok", SetSession(t, t))
       \/ Answer(c, "401", Keep) /\ UNCHANGED rows

\* DELETE logoff.json: end the row if nothing ended it before.
ServeLogoff(c) ==
    /\ rows' = IF Live(call[c].carry.refresh)
                 THEN [rows EXCEPT ![call[c].carry.refresh].state = "ended"]
                 ELSE rows
    /\ Answer(c, "ok", Clear)

Serve(c) ==
    /\ call[c].step = "sent"
    /\ CASE call[c].op = "read"   -> ServeRead(c)
         [] call[c].op = "status" -> ServeStatus(c)
         [] call[c].op = "login"  -> ServeLogin(c)
         [] call[c].op = "logoff" -> ServeLogoff(c)
    /\ UNCHANGED <<account, browser, history>>

Refuse(c) ==
    call' = [call EXCEPT ![c].step = "refreshed", ![c].code = "401",
                         ![c].cookies = Clear]

\* AuthService#refresh up to its write: a rotated token that comes back ends
\* every session of the user.
ReadToken(c) ==
    /\ call[c].step = "refresh"
    /\ LET t == call[c].carry.refresh
       IN IF Live(t)
            THEN /\ call' = [call EXCEPT ![c].step = "reading"]
                 /\ UNCHANGED <<rows, replayed>>
          ELSE IF t \in DOMAIN rows /\ rows[t].state = "rotated"
            THEN /\ Refuse(c)
                 /\ rows' = [s \in DOMAIN rows |->
                               IF Live(s) THEN [rows[s] EXCEPT !.state = "ended"]
                               ELSE rows[s]]
                 /\ replayed' = TRUE
          ELSE Refuse(c) /\ UNCHANGED <<rows, replayed>>
    /\ UNCHANGED <<account, browser, overlap, lost, crossed>>

\* The conditional update of the row, and the next token of its session.
Rotate(c) ==
    /\ call[c].step = "reading"
    /\ LET t == call[c].carry.refresh
           next == Len(rows) + 1
       IN IF Live(t)
            THEN /\ rows' = Append([rows EXCEPT ![t].state = "rotated"],
                                   [session |-> rows[t].session,
                                    state |-> "active"])
                 /\ call' = [call EXCEPT
                               ![c].step = "refreshed", ![c].code = "ok",
                               ![c].cookies = SetSession(next, rows[t].session),
                               ![c].rotations = @ + 1]
            ELSE Refuse(c) /\ UNCHANGED rows
    /\ UNCHANGED <<account, browser, history>>

\* An administrator approves the account.
Approve ==
    /\ account = "pending"
    /\ account' = "active"
    /\ UNCHANGED <<rows, browser, call, history>>

\* The session is revoked from another device, by an administrator, or with a
\* new password.
EndElsewhere(t) ==
    /\ Live(t)
    /\ rows' = [rows EXCEPT ![t].state = "ended"]
    /\ UNCHANGED <<account, browser, call, history>>

-----------------------------------------------------------------------------
(* The browser.                                                            *)

\* The access token and its cookie last as long as each other.
AccessExpires ==
    /\ jar.access # 0
    /\ jar' = [jar EXCEPT !.access = 0]
    /\ UNCHANGED <<server, legacy, mounted, shown, asked, call, history>>

\* request of one operation, with cookies of jar j.
Request(c, op, j) ==
    call' = [call EXCEPT ![c].op = op, ![c].step = "sent", ![c].carry = j,
                         ![c].code = "none", ![c].cookies = Keep]

\* The refresh request of call c, presenting token t.
RequestRefresh(c, op, t) ==
    /\ call' = [call EXCEPT ![c].op = op, ![c].step = "refresh",
                            ![c].carry = [access |-> 0, refresh |-> t],
                            ![c].code = "none", ![c].cookies = Keep]
    /\ overlap' = (overlap \/ \E d \in Refreshing : call[d].carry.refresh = t)

Finish(c) ==
    call' = [call EXCEPT ![c] = [New EXCEPT !.step = "done",
                                            !.rotations = call[c].rotations]]

\* A sign-in, a sign-out or a migration shares its time with another call, or
\* two status checks with each other.
Crosses(op) ==
    LET Signs == {"login", "logoff", "migrate"}
    IN crossed' = \/ crossed
                  \/ \E d \in InFlight : \/ {op, call[d].op} \cap Signs # {}
                                         \/ {op, call[d].op} = {"status"}

\* A page calls a route.
Read(c) ==
    /\ "read" \in Ops
    /\ call[c].step = "new"
    /\ Request(c, "read", jar)
    /\ Crosses("read")
    /\ UNCHANGED <<server, browser, replayed, overlap, lost>>

\* The modal signs in.  It opens from the header of a signed-out user, and
\* over any page when a session expired.
Login(c) ==
    /\ "login" \in Ops
    /\ call[c].step = "new"
    /\ mounted /\ (shown = "out" \/ asked)
    /\ Request(c, "login", jar)
    /\ Crosses("login")
    /\ UNCHANGED <<server, browser, replayed, overlap, lost>>

\* handleLogout takes the legacy token whatever comes of the call.
Logoff(c) ==
    /\ "logoff" \in Ops
    /\ call[c].step = "new"
    /\ mounted /\ shown # "out"
    /\ Request(c, "logoff", jar)
    /\ legacy' = 0
    /\ Crosses("logoff")
    /\ UNCHANGED <<server, jar, mounted, shown, asked, replayed, overlap, lost>>

\* checkAgain of the awaiting-approval view: its button and every focus.
Recheck(c) ==
    /\ "recheck" \in Ops
    /\ call[c].step = "new"
    /\ shown = "pending"
    /\ Request(c, "status", jar)
    /\ Crosses("status")
    /\ UNCHANGED <<server, browser, replayed, overlap, lost>>

\* The rest of checkStatus: without the hint no call is made.
Confirm(c, j) ==
    IF j.refresh = 0
      THEN Finish(c) /\ shown' = "out"
      ELSE Request(c, "status", j) /\ UNCHANGED shown

\* checkStatus, once, when the header is mounted: first a legacy token is moved to
\* the cookie, which the route prefers when there is one.
CheckStatus(c) ==
    /\ "check" \in Ops
    /\ call[c].step = "new"
    /\ ~mounted
    /\ mounted' = TRUE
    /\ legacy' = 0
    /\ IF legacy = 0
         THEN Confirm(c, jar) /\ Crosses("status") /\ UNCHANGED overlap
         ELSE /\ RequestRefresh(c, "migrate",
                   IF jar.refresh # 0 THEN jar.refresh ELSE legacy)
              /\ Crosses("migrate")
              /\ UNCHANGED shown
    /\ UNCHANGED <<server, jar, asked, replayed, lost>>

Stored(c) == IF call[c].cookies.set THEN call[c].cookies.to ELSE jar

\* Mutant: an expired session opens nothing.
SessionExpiredSilently(c) ==
    /\ Finish(c)
    /\ shown' = IF call[c].op = "logoff" THEN "out" ELSE shown
    /\ UNCHANGED asked

\* sessionExpired: the modal opens and the call resolves to nothing.  Only
\* handleLogout goes on as if it had succeeded.
SessionExpired(c) ==
    /\ Finish(c)
    /\ asked' = TRUE
    /\ shown' = IF call[c].op = "logoff" THEN "out" ELSE shown

\* What the caller of a successful call does with it.
Succeed(c, j) ==
    CASE call[c].op = "status" ->
           Finish(c) /\ shown' = call[c].code /\ UNCHANGED asked
      [] call[c].op = "logoff" ->
           Finish(c) /\ shown' = "out" /\ UNCHANGED asked
      [] call[c].op = "login" ->
           Request(c, "status", j) /\ asked' = FALSE /\ UNCHANGED shown
      [] OTHER -> Finish(c) /\ UNCHANGED <<shown, asked>>

\* Mutant: a 401 is not looked at twice; a call is retried as a new one.
ReceiveAlwaysRefreshes(c) ==
    /\ call[c].step = "got"
    /\ jar' = Stored(c)
    /\ IF call[c].code # "401" THEN Succeed(c, jar') /\ UNCHANGED overlap
       ELSE IF jar'.refresh = 0
         THEN SessionExpired(c) /\ UNCHANGED overlap
       ELSE /\ RequestRefresh(c, call[c].op, jar'.refresh)
            /\ UNCHANGED <<shown, asked>>
    /\ UNCHANGED <<server, legacy, mounted, replayed, lost, crossed>>

\* sendJson when its answer arrives, and handleUnauthorized on a 401.
Receive(c) ==
    /\ call[c].step = "got"
    /\ jar' = Stored(c)
    /\ IF call[c].code # "401" THEN Succeed(c, jar') /\ UNCHANGED overlap
       ELSE IF call[c].retried \/ jar'.refresh = 0
         THEN SessionExpired(c) /\ UNCHANGED overlap
       ELSE /\ RequestRefresh(c, call[c].op, jar'.refresh)
            /\ UNCHANGED <<shown, asked>>
    /\ UNCHANGED <<server, legacy, mounted, replayed, lost, crossed>>

\* handleUnauthorized when the refresh is answered: retry the request once.
\* The migration ignores the answer and goes on.
ReceiveRefresh(c) ==
    /\ call[c].step = "refreshed"
    /\ jar' = Stored(c)
    /\ IF call[c].op = "migrate" THEN Confirm(c, jar') /\ UNCHANGED asked
       ELSE IF call[c].code = "ok"
         THEN /\ call' = [call EXCEPT ![c].step = "sent", ![c].carry = jar',
                                      ![c].retried = TRUE,
                                      ![c].cookies = Keep]
              /\ UNCHANGED <<shown, asked>>
       ELSE SessionExpired(c)
    /\ UNCHANGED <<server, legacy, mounted, history>>

\* fetch rejects: the request, or the answer, is lost, and the error reaches
\* the caller (a migration goes on).
Lose(c) ==
    /\ call[c].step \in {"sent", "got", "refresh", "refreshed"}
    /\ lost' = (lost \/ call[c].cookies.to.refresh # 0)
    /\ IF call[c].op = "migrate" THEN Confirm(c, jar)
       ELSE Finish(c) /\ UNCHANGED shown
    /\ UNCHANGED <<server, jar, legacy, mounted, asked, replayed, overlap,
                   crossed>>

-----------------------------------------------------------------------------
Next ==
    \/ \E c \in Call : \/ Read(c)
                       \/ Login(c)
                       \/ Logoff(c)
                       \/ Recheck(c)
                       \/ CheckStatus(c)
                       \/ Serve(c)
                       \/ ReadToken(c)
                       \/ Rotate(c)
                       \/ Receive(c)
                       \/ ReceiveRefresh(c)
                       \/ Lose(c)
    \/ Approve
    \/ \E t \in DOMAIN rows : EndElsewhere(t)
    \/ AccessExpires

Spec == Init /\ [][Next]_vars

-----------------------------------------------------------------------------
(* Properties.                                                             *)

\* A session that works is not taken for a stolen one: the refresh route finds
\* a replay only if two refreshes carried the same token at the same time, or
\* if an answer that carried a new one was lost.
ReplayExplained == replayed => overlap \/ lost

\* A call rotates the refresh token at most once, whatever the server answers
\* its retry: an account that waits for approval is refused each time.
OneRotationPerCall == \A c \in Call : call[c].rotations <= 1

\* The header never goes on showing a signed-in user who has no cookie left
\* without the login modal having opened, unless a sign-in or a sign-out
\* crossed another call on the way, or a status check another one.
NoSilentSignOut == shown = "in" /\ ~crossed => jar.refresh # 0 \/ asked

\* "Transparently recovers from an expired access token": a session of an
\* approved account that no one ended, and whose answers all arrive, is never
\* lost to the client's own refreshes.
TransparentRecovery == replayed => lost \/ account = "pending"
=============================================================================
