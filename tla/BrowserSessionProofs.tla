------------------------ MODULE BrowserSessionProofs ------------------------
(***************************************************************************)
(* Proofs about BrowserSession, for any number of calls: type correctness, *)
(* that a call rotates the refresh token at most once, that the refresh    *)
(* route finds a replay only after an overlap or a lost answer, and that   *)
(* the header does not silently show a user who has been signed out.       *)
(***************************************************************************)
EXTENDS BrowserSession, SequenceTheorems, TLAPS

-----------------------------------------------------------------------------
(* The inductive invariants.                                               *)

Row == [session : Nat, state : {"active", "rotated", "ended"}]

\* What call x, taken alone, has at each of its steps: the answers a route can
\* give and the cookies that come with them, and a rotation only behind it
\* when it will not ask for another one.
CallHolds(x) ==
    /\ x.step \in {"sent", "got"} => x.op \in {"read", "status", "login", "logoff"}
    /\ x.step \in {"refresh", "reading", "refreshed"} =>
         x.op \in {"read", "login", "migrate"}
    /\ x.step \notin {"got", "refreshed"} => x.cookies = Keep
    /\ x.step = "got" =>
         \/ x.op = "read" /\ x.code \in {"ok", "401"} /\ x.cookies = Keep
         \/ x.op = "status" /\ x.code = "out" /\ x.cookies = Clear
         \/ x.op = "status" /\ x.code \in {"pending", "in"} /\ x.cookies = Keep
         \/ x.op = "login" /\ x.code = "401" /\ x.cookies = Keep
         \/ /\ x.op = "login" /\ x.code = "ok"
            /\ x.cookies.set /\ x.cookies.to.refresh # 0
         \/ x.op = "logoff" /\ x.code = "ok" /\ x.cookies = Clear
    /\ x.step = "refreshed" =>
         \/ x.code = "ok" /\ x.cookies.set /\ x.cookies.to.refresh # 0
         \/ x.code = "401" /\ x.cookies = Clear
    /\ x.rotations <= 1
    /\ x.step \in {"new", "refresh", "reading"} => x.rotations = 0
    /\ x.step \in {"sent", "got"} /\ x.op # "status" /\ ~x.retried => x.rotations = 0

CallInv == TypeOK /\ \A c \in Call : CallHolds(call[c])

\* The token in the answer that call c waits for, if any.
Held(c) == call[c].cookies.to.refresh

\* As long as no refreshes overlap and no new token is lost, a token is in one
\* place: in an answer, in the jar or in localStorage.  Only the one refresh
\* that carries it may know it besides, and a rotated token is in the jar only
\* until the answer with its successor arrives.
OneBearer ==
    \A c, d \in Refreshing : c # d => call[c].carry.refresh # call[d].carry.refresh

OneAnswer == \A c, d \in Call : c # d /\ Held(c) # 0 => Held(c) # Held(d)

AnswersNew ==
    \A c \in Call : Held(c) # 0 =>
        /\ Held(c) # jar.refresh /\ Held(c) # legacy
        /\ \A d \in Refreshing : call[d].carry.refresh # Held(c)

LegacyApart ==
    legacy # 0 => /\ legacy # jar.refresh
                  /\ \A d \in Refreshing : call[d].carry.refresh # legacy

Rotated(t) == t \in DOMAIN rows /\ rows[t].state = "rotated"

\* The answer with the successor of t is on its way.
Succeeded(t) == \E d \in Call : /\ call[d].step = "refreshed"
                               /\ call[d].carry.refresh = t /\ Held(d) # 0

RotatedGone ==
    \A t \in 1..Len(rows) : Rotated(t) =>
        /\ legacy # t /\ (jar.refresh = t => Succeeded(t))
        /\ \A c \in Call : /\ Held(c) # t
                           /\ call[c].step \in {"refresh", "reading"} =>
                                call[c].carry.refresh # t

Untangled == ~replayed /\ OneBearer /\ OneAnswer /\ AnswersNew /\ LegacyApart
             /\ RotatedGone

TokenInv == overlap \/ lost \/ Untangled

\* While no sign-in, sign-out or migration has shared its time with another
\* call, and no status check with another one: such a call is alone, and what
\* the header shows or is about to show as a user has a cookie or a modal.
SignedInv ==
    \/ crossed
    \/ /\ \A c, d \in InFlight : c # d =>
            /\ call[c].op \notin {"login", "logoff", "migrate"}
            /\ call[c].op = "status" => call[d].op # "status"
       /\ shown = "in" => jar.refresh # 0 \/ asked
       /\ \A c \in Call :
            /\ call[c].op = "status"
            /\ \/ call[c].step = "sent" /\ call[c].carry.refresh # 0
               \/ call[c].step = "got" /\ call[c].code # "out"
            => jar.refresh # 0 \/ asked

Inv == CallInv /\ TokenInv /\ SignedInv

-----------------------------------------------------------------------------
(* What the steps do to rows and to a call.                                *)

\* CallState over cookies of K.
StateOver(K) ==
    [op        : {"none", "read", "status", "login", "logoff", "migrate"},
     step      : {"new", "sent", "got", "refresh", "reading", "refreshed",
                  "done"},
     carry     : K,
     code      : {"none", "ok", "401", "out", "pending", "in"},
     cookies   : [set : BOOLEAN, to : K],
     retried   : BOOLEAN,
     rotations : Nat]

\* Call c, and no other, changes: this is what it has afterwards.
Becomes(c, op, step, carry, code, cookies, retried, rotations) ==
    /\ call' = [d \in Call |-> call'[d]]
    /\ \A d \in Call \ {c} : call'[d] = call[d]
    /\ call'[c].op = op /\ call'[c].step = step /\ call'[c].carry = carry
    /\ call'[c].code = code /\ call'[c].cookies = cookies
    /\ call'[c].retried = retried /\ call'[c].rotations = rotations
    /\ \A K : /\ Cookies \subseteq K /\ carry \in K /\ step \in {"sent", "got",
                    "refresh", "reading", "refreshed", "done"}
              /\ cookies \in [set : BOOLEAN, to : K] /\ rotations \in Nat
              /\ op \in {"none", "read", "status", "login", "logoff", "migrate"}
              /\ code \in {"none", "ok", "401", "out", "pending", "in"}
              => call'[c] \in StateOver(K)

\* What rows are.
LEMMA RowsType ==
  ASSUME TypeOK
  PROVE  /\ Len(rows) \in Nat
         /\ DOMAIN rows = 1..Len(rows)
         /\ \A t \in 1..Len(rows) : rows[t] \in Row /\ rows[t].session \in 1..Len(rows)
  <1>1. rows \in Seq(Row)
    BY DEF TypeOK, Row
  <1> QED
    BY <1>1, LenProperties, ElementOfSeq DEF TypeOK

LEMMA CallType ==
  ASSUME TypeOK, NEW c \in Call
  PROVE  call[c] \in CallState
  BY DEF TypeOK

LEMMA AnswerBecomes ==
  ASSUME TypeOK, NEW c \in Call, NEW code, NEW ck, Answer(c, code, ck)
  PROVE  Becomes(c, call[c].op, "got",
                 Empty, code, ck,
                 call[c].retried, call[c].rotations)
  <1> DEFINE y == [call[c] EXCEPT !.step = "got", !.carry = Empty, !.code = code,
                              !.cookies = ck]
  <1>1. call \in [Call -> CallState] /\ call[c] \in CallState
    BY DEF TypeOK
  <1>2. /\ call' = [d \in Call |-> call'[d]]
        /\ \A d \in Call \ {c} : call'[d] = call[d]
        /\ call'[c] = y
    BY <1>1 DEF Answer
  <1>3. /\ y.op = call[c].op /\ y.step = "got" /\ y.carry = Empty
        /\ y.code = code /\ y.cookies = ck
        /\ y.retried = call[c].retried /\ y.rotations = call[c].rotations
    BY <1>1 DEF CallState
  <1>4. ASSUME NEW K,
               Cookies \subseteq K,
               Empty \in K,
               ck \in [set : BOOLEAN, to : K],
               code \in {"none", "ok", "401", "out", "pending", "in"}
        PROVE  y \in StateOver(K)
    <2>1. call[c] \in StateOver(K)
      BY <1>1, <1>4 DEF CallState, StateOver
    <2> QED
      BY <2>1, <1>4, ZenonT(60) DEF StateOver
  <1> QED
    BY <1>2, <1>3, <1>4 DEF Becomes

LEMMA RefuseBecomes ==
  ASSUME TypeOK, NEW c \in Call, Refuse(c)
  PROVE  Becomes(c, call[c].op, "refreshed",
                 call[c].carry, "401", Clear,
                 call[c].retried, call[c].rotations)
  <1> DEFINE y == [call[c] EXCEPT !.step = "refreshed", !.code = "401",
                              !.cookies = Clear]
  <1>1. call \in [Call -> CallState] /\ call[c] \in CallState
    BY DEF TypeOK
  <1>2. /\ call' = [d \in Call |-> call'[d]]
        /\ \A d \in Call \ {c} : call'[d] = call[d]
        /\ call'[c] = y
    BY <1>1 DEF Refuse
  <1>3. /\ y.op = call[c].op /\ y.step = "refreshed" /\ y.carry = call[c].carry
        /\ y.code = "401" /\ y.cookies = Clear
        /\ y.retried = call[c].retried /\ y.rotations = call[c].rotations
    BY <1>1 DEF CallState
  <1>4. ASSUME NEW K,
               Cookies \subseteq K,
               Clear \in [set : BOOLEAN, to : K],
               "401" \in {"none", "ok", "401", "out", "pending", "in"}
        PROVE  y \in StateOver(K)
    <2>1. call[c] \in StateOver(K)
      BY <1>1, <1>4 DEF CallState, StateOver
    <2> QED
      BY <2>1, <1>4 DEF StateOver
  <1> QED
    BY <1>2, <1>3, <1>4 DEF Becomes

LEMMA RequestBecomes ==
  ASSUME TypeOK, NEW c \in Call, NEW op, NEW j, Request(c, op, j)
  PROVE  Becomes(c, op, "sent",
                 j, "none", Keep,
                 call[c].retried, call[c].rotations)
  <1> DEFINE y == [call[c] EXCEPT !.op = op, !.step = "sent", !.carry = j,
                              !.code = "none", !.cookies = Keep]
  <1>1. call \in [Call -> CallState] /\ call[c] \in CallState
    BY DEF TypeOK
  <1>2. /\ call' = [d \in Call |-> call'[d]]
        /\ \A d \in Call \ {c} : call'[d] = call[d]
        /\ call'[c] = y
    BY <1>1 DEF Request
  <1>3. /\ y.op = op /\ y.step = "sent" /\ y.carry = j
        /\ y.code = "none" /\ y.cookies = Keep
        /\ y.retried = call[c].retried /\ y.rotations = call[c].rotations
    BY <1>1 DEF CallState
  <1>4. ASSUME NEW K,
               Cookies \subseteq K,
               j \in K,
               Keep \in [set : BOOLEAN, to : K],
               "none" \in {"none", "ok", "401", "out", "pending", "in"},
               op \in {"none", "read", "status", "login", "logoff", "migrate"}
        PROVE  y \in StateOver(K)
    <2>1. call[c] \in StateOver(K)
      BY <1>1, <1>4 DEF CallState, StateOver
    <2> QED
      BY <2>1, <1>4, ZenonT(60) DEF StateOver
  <1> QED
    BY <1>2, <1>3, <1>4 DEF Becomes

LEMMA RequestRefreshBecomes ==
  ASSUME TypeOK, NEW c \in Call, NEW op, NEW t, RequestRefresh(c, op, t)
  PROVE  Becomes(c, op, "refresh",
                 [access |-> 0, refresh |-> t], "none", Keep,
                 call[c].retried, call[c].rotations)
  <1> DEFINE y == [call[c] EXCEPT !.op = op, !.step = "refresh",
                              !.carry = [access |-> 0, refresh |-> t],
                              !.code = "none", !.cookies = Keep]
  <1>1. call \in [Call -> CallState] /\ call[c] \in CallState
    BY DEF TypeOK
  <1>2. /\ call' = [d \in Call |-> call'[d]]
        /\ \A d \in Call \ {c} : call'[d] = call[d]
        /\ call'[c] = y
    BY <1>1 DEF RequestRefresh
  <1>3. /\ y.op = op /\ y.step = "refresh" /\ y.carry = [access |-> 0, refresh |-> t]
        /\ y.code = "none" /\ y.cookies = Keep
        /\ y.retried = call[c].retried /\ y.rotations = call[c].rotations
    BY <1>1 DEF CallState
  <1>4. ASSUME NEW K,
               Cookies \subseteq K,
               [access |-> 0, refresh |-> t] \in K,
               Keep \in [set : BOOLEAN, to : K],
               "none" \in {"none", "ok", "401", "out", "pending", "in"},
               op \in {"none", "read", "status", "login", "logoff", "migrate"}
        PROVE  y \in StateOver(K)
    <2>1. call[c] \in StateOver(K)
      BY <1>1, <1>4 DEF CallState, StateOver
    <2> QED
      BY <2>1, <1>4, ZenonT(60) DEF StateOver
  <1> QED
    BY <1>2, <1>3, <1>4 DEF Becomes

LEMMA FinishBecomes ==
  ASSUME TypeOK, NEW c \in Call, Finish(c)
  PROVE  Becomes(c, "none", "done", Empty, "none", Keep, FALSE,
                 call[c].rotations)
  BY DEF Finish, New, TypeOK, Becomes, CallState, StateOver

LEMMA RetryBecomes ==
  ASSUME TypeOK, NEW c \in Call, NEW j,
         call' = [call EXCEPT ![c].step = "sent", ![c].carry = j,
                              ![c].retried = TRUE, ![c].cookies = Keep]
  PROVE  Becomes(c, call[c].op, "sent",
                 j, call[c].code, Keep,
                 TRUE, call[c].rotations)
  <1> DEFINE y == [call[c] EXCEPT !.step = "sent", !.carry = j,
                              !.retried = TRUE, !.cookies = Keep]
  <1>1. call \in [Call -> CallState] /\ call[c] \in CallState
    BY DEF TypeOK
  <1>2. /\ call' = [d \in Call |-> call'[d]]
        /\ \A d \in Call \ {c} : call'[d] = call[d]
        /\ call'[c] = y
    BY <1>1
  <1>3. /\ y.op = call[c].op /\ y.step = "sent" /\ y.carry = j
        /\ y.code = call[c].code /\ y.cookies = Keep
        /\ y.retried = TRUE /\ y.rotations = call[c].rotations
    BY <1>1 DEF CallState
  <1>4. ASSUME NEW K,
               Cookies \subseteq K,
               j \in K,
               Keep \in [set : BOOLEAN, to : K]
        PROVE  y \in StateOver(K)
    <2>1. call[c] \in StateOver(K)
      BY <1>1, <1>4 DEF CallState, StateOver
    <2> QED
      BY <2>1, <1>4 DEF StateOver
  <1> QED
    BY <1>2, <1>3, <1>4 DEF Becomes

LEMMA ReadingBecomes ==
  ASSUME TypeOK, NEW c \in Call, call' = [call EXCEPT ![c].step = "reading"]
  PROVE  Becomes(c, call[c].op, "reading",
                 call[c].carry, call[c].code, call[c].cookies,
                 call[c].retried, call[c].rotations)
  <1> DEFINE y == [call[c] EXCEPT !.step = "reading"]
  <1>1. call \in [Call -> CallState] /\ call[c] \in CallState
    BY DEF TypeOK
  <1>2. /\ call' = [d \in Call |-> call'[d]]
        /\ \A d \in Call \ {c} : call'[d] = call[d]
        /\ call'[c] = y
    BY <1>1
  <1>3. /\ y.op = call[c].op /\ y.step = "reading" /\ y.carry = call[c].carry
        /\ y.code = call[c].code /\ y.cookies = call[c].cookies
        /\ y.retried = call[c].retried /\ y.rotations = call[c].rotations
    BY <1>1 DEF CallState
  <1>4. ASSUME NEW K,
               Cookies \subseteq K
        PROVE  y \in StateOver(K)
    <2>1. call[c] \in StateOver(K)
      BY <1>1, <1>4 DEF CallState, StateOver
    <2> QED
      BY <2>1, <1>4 DEF StateOver
  <1> QED
    BY <1>2, <1>3, <1>4 DEF Becomes

LEMMA RotatedBecomes ==
  ASSUME TypeOK, NEW c \in Call, NEW ck,
         call' = [call EXCEPT ![c].step = "refreshed", ![c].code = "ok",
                              ![c].cookies = ck, ![c].rotations = @ + 1]
  PROVE  Becomes(c, call[c].op, "refreshed",
                 call[c].carry, "ok", ck,
                 call[c].retried, call[c].rotations + 1)
  <1> DEFINE y == [call[c] EXCEPT !.step = "refreshed", !.code = "ok",
                              !.cookies = ck,
                              !.rotations = call[c].rotations + 1]
  <1>1. call \in [Call -> CallState] /\ call[c] \in CallState
    BY DEF TypeOK
  <1>2. /\ call' = [d \in Call |-> call'[d]]
        /\ \A d \in Call \ {c} : call'[d] = call[d]
        /\ call'[c] = y
    BY <1>1
  <1>3. /\ y.op = call[c].op /\ y.step = "refreshed" /\ y.carry = call[c].carry
        /\ y.code = "ok" /\ y.cookies = ck
        /\ y.retried = call[c].retried /\ y.rotations = call[c].rotations + 1
    BY <1>1 DEF CallState
  <1>4. ASSUME NEW K,
               Cookies \subseteq K,
               ck \in [set : BOOLEAN, to : K],
               "ok" \in {"none", "ok", "401", "out", "pending", "in"},
               call[c].rotations + 1 \in Nat
        PROVE  y \in StateOver(K)
    <2>1. call[c] \in StateOver(K)
      BY <1>1, <1>4 DEF CallState, StateOver
    <2> QED
      BY <2>1, <1>4 DEF StateOver
  <1> QED
    BY <1>2, <1>3, <1>4, ZenonT(60) DEF Becomes

\* Rows stay, are added at the end and keep their sessions; a rotated row
\* stays rotated, and none is rotated but t.
RowsGrow(t) ==
    /\ rows' \in Seq(Row)
    /\ Len(rows') \in Nat /\ Len(rows) <= Len(rows')
    /\ \A s \in 1..Len(rows') : rows'[s].session \in 1..Len(rows')
    /\ \A s \in 1..Len(rows') : rows'[s].state = "rotated" =>
         s = t \/ (s \in 1..Len(rows) /\ rows[s].state = "rotated")

LEMMA RowsStay ==
  ASSUME TypeOK, rows' = rows
  PROVE  RowsGrow(0)
  <1>1. rows \in Seq(Row)
    BY DEF TypeOK, Row
  <1>2. /\ Len(rows) \in Nat
        /\ \A s \in 1..Len(rows) : rows[s].session \in 1..Len(rows)
    BY RowsType
  <1> QED
    BY <1>1, <1>2 DEF RowsGrow

LEMMA RowsEnd ==
  ASSUME TypeOK, NEW t \in 1..Len(rows),
         rows' = [rows EXCEPT ![t].state = "ended"]
  PROVE  RowsGrow(0)
  <1> DEFINE e == [rows[t] EXCEPT !.state = "ended"]
  <1>1. e \in Row /\ e.session = rows[t].session /\ e.state = "ended"
    BY RowsType DEF Row
  <1>2. rows' = [rows EXCEPT ![t] = e]
    BY DEF TypeOK
  <1> HIDE DEF e
  <1>3. rows \in Seq(Row)
    BY DEF TypeOK, Row
  <1>4. /\ rows' \in Seq(Row) /\ Len(rows') = Len(rows)
        /\ \A s \in 1..Len(rows) : rows'[s] = IF s = t THEN e ELSE rows[s]
    BY <1>1, <1>2, <1>3, ExceptSeq
  <1> QED
    BY <1>1, <1>4, RowsType DEF RowsGrow

LEMMA RowsAllEnd ==
  ASSUME TypeOK,
         rows' = [s \in DOMAIN rows |->
                    IF Live(s) THEN [rows[s] EXCEPT !.state = "ended"] ELSE rows[s]]
  PROVE  RowsGrow(0)
  <1>1. \A s \in 1..Len(rows) : /\ rows'[s] \in Row
                                /\ rows'[s].session = rows[s].session
                                /\ rows'[s].state = "rotated" => rows[s].state = "rotated"
    BY RowsType DEF Row
  <1>2. rows' \in [1..Len(rows) -> Row]
    BY <1>1, RowsType
  <1>3. rows' \in Seq(Row)
    BY <1>2, RowsType, SeqDef
  <1>4. Len(rows') = Len(rows)
    BY <1>2, <1>3, RowsType, LenProperties
  <1> QED
    BY <1>1, <1>3, <1>4, RowsType DEF RowsGrow

LEMMA RowsAppend ==
  ASSUME TypeOK, rows' = Append(rows, [session |-> Len(rows) + 1, state |-> "active"])
  PROVE  RowsGrow(0) /\ Len(rows') = Len(rows) + 1
  <1> DEFINE e == [session |-> Len(rows) + 1, state |-> "active"]
  <1>1. e \in Row /\ e.session = Len(rows) + 1 /\ e.state = "active"
    BY RowsType DEF Row
  <1>2. rows' = Append(rows, e)
    OBVIOUS
  <1> HIDE DEF e
  <1>3. rows \in Seq(Row)
    BY DEF TypeOK, Row
  <1>4. /\ rows' \in Seq(Row) /\ Len(rows') = Len(rows) + 1
        /\ \A s \in 1..Len(rows) : rows'[s] = rows[s]
        /\ rows'[Len(rows) + 1] = e
    BY <1>1, <1>2, <1>3, AppendProperties
  <1> QED
    BY <1>1, <1>4, RowsType DEF RowsGrow

LEMMA AppendRow ==
  ASSUME NEW r \in Seq(Row), NEW e \in Row
  PROVE  /\ Append(r, e) \in Seq(Row) /\ Len(Append(r, e)) = Len(r) + 1
         /\ \A s \in 1..Len(r) : Append(r, e)[s] = r[s]
         /\ Append(r, e)[Len(r) + 1] = e
  BY AppendProperties

LEMMA OneMore ==
  ASSUME NEW n \in Nat, NEW s \in 1..(n + 1)
  PROVE  s \in 1..n \/ s = n + 1
  OBVIOUS

LEMMA RowsRotate ==
  ASSUME TypeOK, NEW t \in 1..Len(rows),
         rows' = Append([rows EXCEPT ![t].state = "rotated"],
                        [session |-> rows[t].session, state |-> "active"])
  PROVE  RowsGrow(t) /\ Len(rows') = Len(rows) + 1
  <1> DEFINE o == [rows[t] EXCEPT !.state = "rotated"]
             e == [session |-> rows[t].session, state |-> "active"]
             r == [rows EXCEPT ![t] = o]
  <1>1. /\ o \in Row /\ o.session = rows[t].session
        /\ e \in Row /\ e.session = rows[t].session /\ e.state = "active"
    BY RowsType DEF Row
  <1>2. rows' = Append(r, e)
    BY DEF TypeOK
  <1> HIDE DEF e, o
  <1>3. rows \in Seq(Row)
    BY DEF TypeOK, Row
  <1>4. /\ r \in Seq(Row) /\ Len(r) = Len(rows)
        /\ \A s \in 1..Len(rows) : r[s] = IF s = t THEN o ELSE rows[s]
    BY <1>1, <1>3, ExceptSeq
  <1> HIDE DEF r
  <1>5. /\ Append(r, e) \in Seq(Row) /\ Len(Append(r, e)) = Len(r) + 1
        /\ \A s \in 1..Len(r) : Append(r, e)[s] = r[s]
        /\ Append(r, e)[Len(r) + 1] = e
    <2>1. r \in Seq(Row) /\ e \in Row
      BY <1>1, <1>4
    <2> QED
      BY <2>1, AppendRow
  <1>6. /\ rows' \in Seq(Row) /\ Len(rows') = Len(rows) + 1
        /\ \A s \in 1..Len(rows) : rows'[s] = r[s]
        /\ rows'[Len(rows) + 1] = e
    BY <1>2, <1>4, <1>5
  <1>7. Len(rows) \in Nat /\ Len(rows') \in Nat /\ Len(rows) <= Len(rows')
    BY <1>6, RowsType
  <1>8. ASSUME NEW s \in 1..Len(rows')
        PROVE  /\ rows'[s].session \in 1..Len(rows')
               /\ rows'[s].state = "rotated" =>
                    s = t \/ (s \in 1..Len(rows) /\ rows[s].state = "rotated")
    <2>1. CASE s = Len(rows) + 1
      BY <1>1, <1>6, <1>7, <2>1, RowsType
    <2>2. CASE s = t
      <3>1. rows'[t] = o
        BY <1>4, <1>6
      <3>2. rows[t].session \in 1..Len(rows)
        BY RowsType
      <3>3. o.session \in 1..Len(rows')
        BY <1>1, <1>7, <3>2
      <3> QED
        BY <2>2, <3>1, <3>3
    <2>3. CASE s \in 1..Len(rows) /\ s # t
      BY <1>4, <1>6, <1>7, <2>3, RowsType
    <2>4. s \in 1..Len(rows) \/ s = Len(rows) + 1
      <3>1. Len(rows) \in Nat /\ s \in 1..(Len(rows) + 1)
        BY <1>6, <1>7
      <3> QED
        BY <3>1, OneMore
    <2> QED
      BY <2>1, <2>2, <2>3, <2>4
  <1> QED
    BY <1>6, <1>7, <1>8 DEF RowsGrow

-----------------------------------------------------------------------------
(* Types, and what a call has at each of its steps.                        *)

LEMMA CookiesGrow ==
  ASSUME TypeOK, Len(rows') \in Nat, Len(rows) <= Len(rows')
  PROVE  /\ Cookies \subseteq Cookies' /\ StateOver(Cookies) \subseteq StateOver(Cookies')
         /\ CallState = StateOver(Cookies) /\ CallState' = StateOver(Cookies')
         /\ Empty \in Cookies /\ Keep \in [set : BOOLEAN, to : Cookies]
         /\ Clear \in [set : BOOLEAN, to : Cookies]
  <1>1. 0..Len(rows) \subseteq 0..Len(rows') /\ 0 \in 0..Len(rows)
    BY RowsType
  <1>2. Cookies \subseteq Cookies' /\ Empty \in Cookies
    BY <1>1 DEF Cookies, Empty
  <1>3. StateOver(Cookies) \subseteq StateOver(Cookies')
    BY <1>2 DEF StateOver
  <1>4. CallState = StateOver(Cookies) /\ CallState' = StateOver(Cookies')
    BY DEF CallState, StateOver
  <1> QED
    BY <1>2, <1>3, <1>4 DEF Keep, Clear

\* A step that changes one call to something well typed.
LEMMA CallGoes ==
  ASSUME CallInv, NEW t, RowsGrow(t), NEW c \in Call,
         NEW op, NEW step, NEW carry, NEW code, NEW ck, NEW r, NEW n,
         Becomes(c, op, step, carry, code, ck, r, n),
         op \in {"none", "read", "status", "login", "logoff", "migrate"},
         step \in {"sent", "got", "refresh", "reading", "refreshed", "done"},
         carry \in Cookies', code \in {"none", "ok", "401", "out", "pending", "in"},
         ck \in [set : BOOLEAN, to : Cookies'], n \in Nat,
         account' \in {"pending", "active"}, jar' \in Cookies',
         legacy' \in 0..Len(rows'), mounted' \in BOOLEAN, asked' \in BOOLEAN,
         shown' \in {"out", "pending", "in"}, replayed' \in BOOLEAN,
         overlap' \in BOOLEAN, lost' \in BOOLEAN, crossed' \in BOOLEAN,
         CallHolds(call'[c])
  PROVE  CallInv'
  <1>1. Len(rows') \in Nat /\ Len(rows) <= Len(rows')
    BY DEF RowsGrow
  <1>2. TypeOK /\ \A d \in Call : CallHolds(call[d])
    BY DEF CallInv
  <1>3. call'[c] \in StateOver(Cookies')
    BY <1>1, <1>2, CookiesGrow DEF Becomes
  <1>4. \A d \in Call : call'[d] \in StateOver(Cookies')
    BY <1>1, <1>2, <1>3, CookiesGrow, CallType DEF Becomes
  <1>5. call' \in [Call -> StateOver(Cookies')]
    BY <1>4 DEF Becomes
  <1>6. call' \in [Call -> CallState']
    BY <1>1, <1>2, <1>5, CookiesGrow
  <1>7. DOMAIN rows' = 1..Len(rows')
    BY LenProperties DEF RowsGrow
  <1>8. TypeOK'
    BY <1>6, <1>7 DEF TypeOK, RowsGrow, Row
  <1>9. \A d \in Call : CallHolds(call'[d])
    BY <1>2 DEF Becomes
  <1> QED
    BY <1>8, <1>9 DEF CallInv

\* The same for steps that change no call.
LEMMA CallsStay ==
  ASSUME CallInv, RowsGrow(0), call' = call,
         account' \in {"pending", "active"}, jar' \in Cookies',
         UNCHANGED <<legacy, mounted, shown, asked, history>>
  PROVE  CallInv'
  <1>1. Len(rows') \in Nat /\ Len(rows) <= Len(rows')
    BY DEF RowsGrow
  <1>2. TypeOK /\ \A d \in Call : CallHolds(call[d])
    BY DEF CallInv
  <1>3. \A d \in Call : call[d] \in StateOver(Cookies')
    BY <1>1, <1>2, CookiesGrow, CallType
  <1>4. call' \in [Call -> CallState']
    BY <1>1, <1>2, <1>3, CookiesGrow DEF TypeOK
  <1>5. DOMAIN rows' = 1..Len(rows')
    BY LenProperties DEF RowsGrow
  <1>6. legacy' \in 0..Len(rows')
    BY <1>1, <1>2, RowsType DEF TypeOK
  <1>7. TypeOK'
    BY <1>2, <1>4, <1>5, <1>6 DEF TypeOK, RowsGrow, Row, history
  <1> QED
    BY <1>2, <1>7 DEF CallInv

\* A token's row and session are cookies that a call can carry.
LEMMA SetSessionType ==
  ASSUME Len(rows') \in Nat, NEW t \in 0..Len(rows'), NEW s \in 0..Len(rows')
  PROVE  SetSession(t, s) \in [set : BOOLEAN, to : Cookies']
  BY DEF SetSession, Cookies

\* The fields that a route of the server leaves alone.
LEMMA ServerTypes ==
  ASSUME TypeOK, Len(rows') \in Nat, Len(rows) <= Len(rows'),
         UNCHANGED <<account, browser, overlap, lost, crossed>>
  PROVE  /\ account' \in {"pending", "active"} /\ jar' \in Cookies'
         /\ legacy' \in 0..Len(rows') /\ mounted' \in BOOLEAN /\ asked' \in BOOLEAN
         /\ shown' \in {"out", "pending", "in"}
         /\ overlap' \in BOOLEAN /\ lost' \in BOOLEAN /\ crossed' \in BOOLEAN
         /\ jar' = jar /\ legacy' = legacy /\ shown' = shown /\ asked' = asked
  <1>1. Cookies \subseteq Cookies' /\ 0..Len(rows) \subseteq 0..Len(rows')
    BY CookiesGrow, RowsType
  <1> QED
    BY <1>1 DEF TypeOK, browser

LEMMA AnswerKeeps ==
  ASSUME CallInv, RowsGrow(0), NEW c \in Call, NEW code, NEW ck,
         call[c].step = "sent", Answer(c, code, ck),
         code \in {"ok", "401", "out", "pending", "in"},
         ck \in [set : BOOLEAN, to : Cookies'],
         \/ call[c].op = "read" /\ code \in {"ok", "401"} /\ ck = Keep
         \/ call[c].op = "status" /\ code = "out" /\ ck = Clear
         \/ call[c].op = "status" /\ code \in {"pending", "in"} /\ ck = Keep
         \/ call[c].op = "login" /\ code = "401" /\ ck = Keep
         \/ call[c].op = "login" /\ code = "ok" /\ ck.set /\ ck.to.refresh # 0
         \/ call[c].op = "logoff" /\ code = "ok" /\ ck = Clear,
         UNCHANGED <<account, browser, history>>
  PROVE  CallInv'
  <1> DEFINE o == call[c].op
             r == call[c].retried
             n == call[c].rotations
  <1>0. TypeOK /\ CallHolds(call[c]) /\ call[c] \in CallState
    BY CallType DEF CallInv
  <1>1. Becomes(c, o, "got", Empty, code, ck, r, n)
    BY <1>0, AnswerBecomes
  <1>2. Len(rows') \in Nat /\ Len(rows) <= Len(rows')
    BY DEF RowsGrow
  <1>3. Empty \in Cookies' /\ n \in Nat /\ o \in {"read", "status", "login", "logoff"}
    BY <1>0, <1>2, CookiesGrow DEF CallHolds, CallState
  <1>4. CallHolds(call'[c])
    BY <1>0, <1>1 DEF CallHolds, Becomes
  <1>5. UNCHANGED <<account, browser, overlap, lost, crossed>> /\ replayed' \in BOOLEAN
    BY <1>0 DEF history, TypeOK
  <1> HIDE DEF o, r, n
  <1> QED
    BY <1>0, <1>1, <1>2, <1>3, <1>4, <1>5, ServerTypes, CallGoes

LEMMA ServeKeeps ==
  ASSUME CallInv, NEW c \in Call, Serve(c)
  PROVE  CallInv' /\ RowsGrow(0)
  <1>0. TypeOK /\ CallHolds(call[c]) /\ call[c].step = "sent"
        /\ UNCHANGED <<account, browser, history>>
    BY DEF CallInv, Serve
  <1>1. CASE call[c].op = "read"
    <2>1. /\ Answer(c, IF Admitted(call[c].carry.access) THEN "ok" ELSE "401", Keep)
          /\ rows' = rows
      BY <1>1 DEF Serve, ServeRead
    <2>2. RowsGrow(0) /\ Keep \in [set : BOOLEAN, to : Cookies']
      BY <1>0, <2>1, RowsStay, CookiesGrow DEF RowsGrow
    <2>3. (IF Admitted(call[c].carry.access) THEN "ok" ELSE "401") \in {"ok", "401"}
      OBVIOUS
    <2> QED
      BY <1>0, <1>1, <2>1, <2>2, <2>3, AnswerKeeps
  <1>2. CASE call[c].op = "status"
    <2>1. /\ \/ Answer(c, "out", Clear)
             \/ Answer(c, "pending", Keep)
             \/ Answer(c, "in", Keep)
          /\ rows' = rows
      BY <1>2 DEF Serve, ServeStatus
    <2>2. /\ RowsGrow(0)
          /\ Keep \in [set : BOOLEAN, to : Cookies']
          /\ Clear \in [set : BOOLEAN, to : Cookies']
      BY <1>0, <2>1, RowsStay, CookiesGrow DEF RowsGrow
    <2> QED
      BY <1>0, <1>2, <2>1, <2>2, AnswerKeeps
  <1>3. CASE call[c].op = "login"
    <2> DEFINE t == Len(rows) + 1
    <2>1. \/ /\ rows' = Append(rows, [session |-> t, state |-> "active"])
             /\ Answer(c, "ok", SetSession(t, t))
          \/ Answer(c, "401", Keep) /\ rows' = rows
      BY <1>3 DEF Serve, ServeLogin
    <2>2. CASE /\ rows' = Append(rows, [session |-> t, state |-> "active"])
               /\ Answer(c, "ok", SetSession(t, t))
      <3>1. RowsGrow(0) /\ Len(rows') = t
        BY <1>0, <2>2, RowsAppend
      <3>2. t \in 0..Len(rows') /\ t # 0 /\ Len(rows') \in Nat
        BY <1>0, <3>1, RowsType
      <3>3. SetSession(t, t) \in [set : BOOLEAN, to : Cookies']
        BY <3>2, SetSessionType
      <3>4. SetSession(t, t).set /\ SetSession(t, t).to.refresh # 0
        BY <3>2 DEF SetSession
      <3> QED
        BY <1>0, <1>3, <2>2, <3>1, <3>3, <3>4, AnswerKeeps
    <2>3. CASE Answer(c, "401", Keep) /\ rows' = rows
      <3>1. RowsGrow(0) /\ Keep \in [set : BOOLEAN, to : Cookies']
        BY <1>0, <2>3, RowsStay, CookiesGrow DEF RowsGrow
      <3> QED
        BY <1>0, <1>3, <2>3, <3>1, AnswerKeeps
    <2> QED
      BY <2>1, <2>2, <2>3
  <1>4. CASE call[c].op = "logoff"
    <2>1. /\ Answer(c, "ok", Clear)
          /\ rows' = IF Live(call[c].carry.refresh)
                       THEN [rows EXCEPT ![call[c].carry.refresh].state = "ended"]
                       ELSE rows
      BY <1>4, SMTT(40) DEF Serve, ServeLogoff
    <2>2. RowsGrow(0)
      BY <1>0, <2>1, RowsStay, RowsEnd, RowsType DEF Live
    <2>3. Clear \in [set : BOOLEAN, to : Cookies']
      BY <1>0, <2>2, CookiesGrow DEF RowsGrow
    <2> QED
      BY <1>0, <1>4, <2>1, <2>2, <2>3, AnswerKeeps
  <1> QED
    BY <1>0, <1>1, <1>2, <1>3, <1>4 DEF CallHolds

LEMMA ReadTokenKeeps ==
  ASSUME CallInv, NEW c \in Call, ReadToken(c)
  PROVE  CallInv' /\ RowsGrow(0)
  <1> DEFINE o == call[c].op
             k == call[c].carry
             r == call[c].retried
             n == call[c].rotations
  <1>0. /\ TypeOK /\ CallHolds(call[c]) /\ call[c] \in CallState
        /\ call[c].step = "refresh"
        /\ UNCHANGED <<account, browser, overlap, lost, crossed>>
    BY CallType DEF CallInv, ReadToken
  <1>1. RowsGrow(0)
    BY <1>0, RowsStay, RowsAllEnd DEF ReadToken
  <1>2. Len(rows') \in Nat /\ Len(rows) <= Len(rows') /\ replayed' \in BOOLEAN
    BY <1>0, <1>1 DEF RowsGrow, ReadToken, TypeOK
  <1>3. /\ k \in Cookies' /\ n \in Nat /\ o \in {"read", "login", "migrate"}
        /\ call[c].code \in {"none", "ok", "401", "out", "pending", "in"}
        /\ call[c].cookies \in [set : BOOLEAN, to : Cookies']
        /\ Clear \in [set : BOOLEAN, to : Cookies']
    BY <1>0, <1>2, CookiesGrow DEF CallHolds, CallState
  <1>4. \/ Becomes(c, o, "reading", k, call[c].code, call[c].cookies, r, n)
        \/ Becomes(c, o, "refreshed", k, "401", Clear, r, n)
    BY <1>0, ReadingBecomes, RefuseBecomes DEF ReadToken
  <1>5. CallHolds(call'[c])
    BY <1>0, <1>4 DEF CallHolds, Becomes
  <1> HIDE DEF o, k, r, n
  <1> QED
    BY <1>0, <1>1, <1>2, <1>3, <1>4, <1>5, ServerTypes, CallGoes

LEMMA RotateKeeps ==
  ASSUME CallInv, NEW c \in Call, Rotate(c)
  PROVE  CallInv' /\ RowsGrow(call[c].carry.refresh)
  <1> DEFINE o == call[c].op
             k == call[c].carry
             r == call[c].retried
             n == call[c].rotations
             t == call[c].carry.refresh
             next == Len(rows) + 1
  <1>0. /\ TypeOK /\ CallHolds(call[c]) /\ call[c] \in CallState
        /\ call[c].step = "reading"
        /\ UNCHANGED <<account, browser, overlap, lost, crossed>>
        /\ replayed' \in BOOLEAN
    BY CallType DEF CallInv, Rotate, history, TypeOK
  <1>a. k \in Cookies /\ n \in Nat /\ n = 0 /\ o \in {"read", "login", "migrate"}
    BY <1>0 DEF CallHolds, CallState
  <1>1. CASE Live(t)
    <2>1. /\ rows' = Append([rows EXCEPT ![t].state = "rotated"],
                            [session |-> rows[t].session, state |-> "active"])
          /\ call' = [call EXCEPT
                        ![c].step = "refreshed", ![c].code = "ok",
                        ![c].cookies = SetSession(next, rows[t].session),
                        ![c].rotations = @ + 1]
      BY <1>1 DEF Rotate
    <2>2. t \in 1..Len(rows)
      BY <1>0, <1>1, RowsType DEF Live
    <2>3. RowsGrow(t) /\ Len(rows') = next
      BY <1>0, <2>1, <2>2, RowsRotate
    <2>4. /\ Len(rows') \in Nat /\ Len(rows) <= Len(rows')
          /\ next \in 0..Len(rows') /\ next # 0
          /\ rows[t].session \in 0..Len(rows')
      BY <1>0, <2>2, <2>3, RowsType
    <2> DEFINE ck == SetSession(next, rows[t].session)
    <2>5. ck \in [set : BOOLEAN, to : Cookies'] /\ ck.set /\ ck.to.refresh # 0
      <3>1. ck \in [set : BOOLEAN, to : Cookies']
        BY <2>4, SetSessionType, SMTT(40)
      <3> QED
        BY <2>4, <3>1 DEF SetSession
    <2>6. Becomes(c, o, "refreshed", k, "ok", ck, r, n + 1)
      BY <1>0, <2>1, RotatedBecomes, ZenonT(60)
    <2>7. CallHolds(call'[c])
      <3>1. /\ call'[c].op = o /\ call'[c].step = "refreshed"
            /\ call'[c].code = "ok" /\ call'[c].cookies = ck
            /\ call'[c].rotations = n + 1
        BY <2>6 DEF Becomes
      <3> HIDE DEF o, k, r, n, ck
      <3>2. n + 1 <= 1
        BY <1>a
      <3> QED
        BY <1>a, <2>5, <3>1, <3>2 DEF CallHolds
    <2>8. k \in Cookies'
      BY <1>0, <1>a, <2>4, CookiesGrow
    <2> HIDE DEF o, k, r, n, ck
    <2> QED
      BY <1>0, <1>a, <2>3, <2>4, <2>5, <2>6, <2>7, <2>8, ServerTypes,
         CallGoes, SMTT(40)
  <1>2. CASE ~Live(t)
    <2>1. Refuse(c) /\ rows' = rows
      BY <1>2 DEF Rotate
    <2>2. RowsGrow(0) /\ RowsGrow(t)
      BY <1>0, <2>1, RowsStay DEF RowsGrow
    <2>3. /\ Len(rows') \in Nat /\ Len(rows) <= Len(rows')
      BY <2>2 DEF RowsGrow
    <2>4. k \in Cookies' /\ Clear \in [set : BOOLEAN, to : Cookies']
      BY <1>0, <1>a, <2>3, CookiesGrow
    <2>5. Becomes(c, o, "refreshed", k, "401", Clear, r, n)
      BY <1>0, <2>1, RefuseBecomes
    <2>6. CallHolds(call'[c])
      BY <1>0, <1>a, <2>5 DEF CallHolds, Becomes
    <2> HIDE DEF o, k, r, n
    <2> QED
      BY <1>0, <1>a, <2>2, <2>3, <2>4, <2>5, <2>6, ServerTypes, CallGoes
  <1> QED
    BY <1>1, <1>2

\* What a callback of the page leaves behind, apart from the calls.
PageTyped ==
    /\ UNCHANGED server
    /\ jar' \in Cookies /\ legacy' \in 0..Len(rows)
    /\ mounted' \in BOOLEAN /\ asked' \in BOOLEAN
    /\ shown' \in {"out", "pending", "in"}
    /\ replayed' \in BOOLEAN /\ overlap' \in BOOLEAN
    /\ lost' \in BOOLEAN /\ crossed' \in BOOLEAN

LEMMA PageServer ==
  ASSUME CallInv, PageTyped
  PROVE  /\ RowsGrow(0) /\ Len(rows') \in Nat /\ Len(rows) <= Len(rows')
         /\ Cookies' = Cookies /\ account' \in {"pending", "active"}
         /\ Empty \in Cookies /\ Keep \in [set : BOOLEAN, to : Cookies]
         /\ jar' \in Cookies' /\ legacy' \in 0..Len(rows')
  <1>1. rows' = rows /\ account' = account /\ TypeOK
    BY DEF PageTyped, server, CallInv
  <1>2. RowsGrow(0) /\ Len(rows') \in Nat /\ Len(rows) <= Len(rows')
    BY <1>1, RowsStay, RowsType
  <1> QED
    BY <1>1, <1>2, CookiesGrow DEF PageTyped, Cookies, TypeOK

LEMMA RequestKeeps ==
  ASSUME CallInv, PageTyped, NEW c \in Call, NEW op, NEW j,
         Request(c, op, j), j \in Cookies,
         op \in {"read", "status", "login", "logoff"},
         op = "status" \/ call[c].rotations = 0
  PROVE  CallInv'
  <1> DEFINE r == call[c].retried
             n == call[c].rotations
  <1>0. TypeOK /\ CallHolds(call[c]) /\ call[c] \in CallState
    BY CallType DEF CallInv
  <1>1. Becomes(c, op, "sent", j, "none", Keep, r, n)
    BY <1>0, RequestBecomes
  <1>2. n \in Nat /\ CallHolds(call'[c])
    BY <1>0, <1>1 DEF CallHolds, CallState, Becomes
  <1> HIDE DEF r, n
  <1>3. j \in Cookies' /\ Keep \in [set : BOOLEAN, to : Cookies']
    BY PageServer
  <1> QED
    BY <1>1, <1>2, <1>3, PageServer, CallGoes DEF PageTyped

LEMMA RequestRefreshKeeps ==
  ASSUME CallInv, PageTyped, NEW c \in Call, NEW op, NEW t,
         RequestRefresh(c, op, t), t \in 0..Len(rows),
         op \in {"read", "login", "migrate"}, call[c].rotations = 0
  PROVE  CallInv'
  <1> DEFINE r == call[c].retried
             n == call[c].rotations
             k == [access |-> 0, refresh |-> t]
  <1>0. TypeOK /\ CallHolds(call[c]) /\ call[c] \in CallState
    BY CallType DEF CallInv
  <1>1. Becomes(c, op, "refresh", k, "none", Keep, r, n)
    BY <1>0, RequestRefreshBecomes
  <1>2. n \in Nat /\ CallHolds(call'[c])
    BY <1>0, <1>1 DEF CallHolds, CallState, Becomes
  <1>3. k \in Cookies
    BY <1>0, RowsType DEF Cookies
  <1> HIDE DEF r, n, k
  <1>4. k \in Cookies' /\ Keep \in [set : BOOLEAN, to : Cookies']
    BY <1>3, PageServer
  <1> QED
    BY <1>1, <1>2, <1>4, PageServer, CallGoes DEF PageTyped

LEMMA FinishKeeps ==
  ASSUME CallInv, PageTyped, NEW c \in Call, Finish(c)
  PROVE  CallInv'
  <1> DEFINE n == call[c].rotations
  <1>0. TypeOK /\ CallHolds(call[c]) /\ call[c] \in CallState
    BY CallType DEF CallInv
  <1>1. Becomes(c, "none", "done", Empty, "none", Keep, FALSE, n)
    BY <1>0, FinishBecomes
  <1>2. n \in Nat /\ CallHolds(call'[c])
    BY <1>0, <1>1 DEF CallHolds, CallState, Becomes
  <1>3. Empty \in Cookies' /\ Keep \in [set : BOOLEAN, to : Cookies']
    BY PageServer
  <1> HIDE DEF n
  <1> QED
    BY <1>1, <1>2, <1>3, PageServer, CallGoes DEF PageTyped

LEMMA ConfirmKeeps ==
  ASSUME CallInv, PageTyped, NEW c \in Call, NEW j \in Cookies, Confirm(c, j)
  PROVE  CallInv'
  BY FinishKeeps, RequestKeeps DEF Confirm

\* The calls that pages start.
LEMMA StartKeeps ==
  ASSUME CallInv, NEW c \in Call,
         Read(c) \/ Login(c) \/ Logoff(c) \/ Recheck(c)
  PROVE  CallInv'
  <1>0. /\ TypeOK /\ jar \in Cookies /\ legacy \in 0..Len(rows)
        /\ call[c].step = "new" => call[c].rotations = 0
    BY DEF CallInv, TypeOK, CallHolds
  <1>1. /\ call[c].step = "new"
        /\ \/ Request(c, "read", jar) \/ Request(c, "login", jar)
           \/ Request(c, "logoff", jar) \/ Request(c, "status", jar)
    BY DEF Read, Login, Logoff, Recheck
  <1>2. crossed' \in BOOLEAN
    BY DEF Read, Login, Logoff, Recheck, Crosses
  <1>3. 0 \in 0..Len(rows)
    BY <1>0, RowsType
  <1>4. PageTyped
    BY <1>0, <1>2, <1>3 DEF Read, Login, Logoff, Recheck, PageTyped, TypeOK,
       browser, server
  <1> QED
    BY <1>0, <1>1, <1>4, RequestKeeps

LEMMA CheckStatusKeeps ==
  ASSUME CallInv, NEW c \in Call, CheckStatus(c)
  PROVE  CallInv'
  <1>0. /\ TypeOK /\ jar \in Cookies /\ legacy \in 0..Len(rows)
        /\ jar.refresh \in 0..Len(rows)
        /\ call[c].step = "new" /\ call[c].rotations = 0
    BY DEF CallInv, TypeOK, CallHolds, CheckStatus, Cookies
  <1>1. crossed' \in BOOLEAN /\ overlap' \in BOOLEAN
    BY <1>0 DEF CheckStatus, Crosses, RequestRefresh, TypeOK
  <1>2. 0 \in 0..Len(rows)
    BY <1>0, RowsType
  <1>3. shown' \in {"out", "pending", "in"}
    BY <1>0 DEF CheckStatus, Confirm, TypeOK
  <1>4. PageTyped
    BY <1>0, <1>1, <1>2, <1>3 DEF CheckStatus, PageTyped, TypeOK, server
  <1>5. CASE Confirm(c, jar)
    BY <1>0, <1>4, <1>5, ConfirmKeeps
  <1>6. CASE RequestRefresh(c, "migrate", IF jar.refresh # 0 THEN jar.refresh ELSE legacy)
    <2>1. (IF jar.refresh # 0 THEN jar.refresh ELSE legacy) \in 0..Len(rows)
      BY <1>0
    <2> QED
      BY <1>0, <1>4, <1>6, <2>1, RequestRefreshKeeps
  <1> QED
    BY <1>5, <1>6 DEF CheckStatus

\* The answer of call c, when it arrives, leaves cookies in the jar.
LEMMA StoredType ==
  ASSUME TypeOK, NEW c \in Call
  PROVE  Stored(c) \in Cookies /\ Stored(c).refresh \in 0..Len(rows)
  <1>1. Stored(c) \in Cookies
    BY CallType DEF Stored, TypeOK, CallState
  <1> QED
    BY <1>1 DEF Cookies

LEMMA ReceiveKeeps ==
  ASSUME CallInv, NEW c \in Call, Receive(c)
  PROVE  CallInv'
  <1>0. /\ TypeOK /\ CallHolds(call[c]) /\ call[c].step = "got"
        /\ jar' = Stored(c)
        /\ UNCHANGED <<server, legacy, mounted, replayed, lost, crossed>>
    BY DEF CallInv, Receive
  <1>1. jar' \in Cookies /\ jar'.refresh \in 0..Len(rows)
    BY <1>0, StoredType
  <1>2. \/ Succeed(c, jar') /\ UNCHANGED overlap /\ call[c].code # "401"
        \/ SessionExpired(c) /\ UNCHANGED overlap
        \/ /\ RequestRefresh(c, call[c].op, jar'.refresh) /\ UNCHANGED <<shown, asked>>
           /\ call[c].code = "401" /\ ~call[c].retried
    BY DEF Receive
  <1>3. overlap' \in BOOLEAN
    BY <1>0, <1>2 DEF RequestRefresh, TypeOK
  <1>4. CASE SessionExpired(c)
    <2>1. asked' \in BOOLEAN /\ shown' \in {"out", "pending", "in"} /\ Finish(c)
      BY <1>0, <1>4 DEF SessionExpired, TypeOK
    <2>2. PageTyped
      BY <1>0, <1>1, <1>3, <2>1 DEF PageTyped, TypeOK
    <2> QED
      BY <2>1, <2>2, FinishKeeps
  <1>5. CASE Succeed(c, jar') /\ call[c].code # "401"
    <2>1. \/ Finish(c) /\ shown' = call[c].code /\ UNCHANGED asked
             /\ call[c].op = "status"
          \/ Finish(c) /\ shown' \in {"out", shown} /\ UNCHANGED asked
          \/ Request(c, "status", jar') /\ asked' = FALSE /\ UNCHANGED shown
      BY <1>0, <1>5 DEF Succeed, CallHolds
    <2>2. asked' \in BOOLEAN /\ shown' \in {"out", "pending", "in"}
      BY <1>0, <2>1 DEF TypeOK, CallHolds
    <2>3. PageTyped
      BY <1>0, <1>1, <1>3, <2>2 DEF PageTyped, TypeOK
    <2> QED
      BY <1>1, <2>1, <2>3, FinishKeeps, RequestKeeps
  <1>6. CASE /\ RequestRefresh(c, call[c].op, jar'.refresh) /\ UNCHANGED <<shown, asked>>
             /\ call[c].code = "401" /\ ~call[c].retried
    <2>1. PageTyped
      BY <1>0, <1>1, <1>3, <1>6 DEF PageTyped, TypeOK
    <2>2. call[c].op \in {"read", "login"} /\ call[c].rotations = 0
      BY <1>0, <1>6 DEF CallHolds
    <2> QED
      BY <1>1, <1>6, <2>1, <2>2, RequestRefreshKeeps
  <1> QED
    BY <1>2, <1>4, <1>5, <1>6

LEMMA ReceiveRefreshKeeps ==
  ASSUME CallInv, NEW c \in Call, ReceiveRefresh(c)
  PROVE  CallInv'
  <1>0. /\ TypeOK /\ CallHolds(call[c]) /\ call[c].step = "refreshed"
        /\ call[c] \in CallState
        /\ jar' = Stored(c)
        /\ UNCHANGED <<server, legacy, mounted, history>>
    BY CallType DEF CallInv, ReceiveRefresh
  <1>1. jar' \in Cookies
    BY <1>0, StoredType
  <1>2. asked' \in BOOLEAN /\ shown' \in {"out", "pending", "in"}
    BY <1>0 DEF ReceiveRefresh, Confirm, SessionExpired, TypeOK
  <1>3. PageTyped
    BY <1>0, <1>1, <1>2 DEF PageTyped, TypeOK, history
  <1>4. CASE Confirm(c, jar')
    BY <1>1, <1>3, <1>4, ConfirmKeeps
  <1>5. CASE SessionExpired(c)
    BY <1>3, <1>5, FinishKeeps DEF SessionExpired
  <1>6. CASE /\ call[c].op # "migrate"
             /\ call' = [call EXCEPT ![c].step = "sent", ![c].carry = jar',
                                     ![c].retried = TRUE, ![c].cookies = Keep]
    <2> DEFINE o == call[c].op
               d == call[c].code
               n == call[c].rotations
    <2>1. Becomes(c, o, "sent", jar', d, Keep, TRUE, n)
      BY <1>0, <1>6, RetryBecomes
    <2>2. /\ n \in Nat /\ o \in {"read", "login"}
          /\ d \in {"none", "ok", "401", "out", "pending", "in"}
      BY <1>0, <1>6 DEF CallHolds, CallState
    <2>3. CallHolds(call'[c])
      BY <1>0, <2>1, <2>2 DEF CallHolds, Becomes
    <2>4. jar' \in Cookies' /\ Keep \in [set : BOOLEAN, to : Cookies']
      BY <1>1, <1>3, PageServer
    <2> HIDE DEF o, d, n
    <2> QED
      BY <1>3, <2>1, <2>2, <2>3, <2>4, PageServer, CallGoes DEF PageTyped
  <1> QED
    BY <1>4, <1>5, <1>6 DEF ReceiveRefresh

LEMMA LoseKeeps ==
  ASSUME CallInv, NEW c \in Call, Lose(c)
  PROVE  CallInv'
  <1>0. TypeOK /\ jar \in Cookies
    BY DEF CallInv, TypeOK
  <1>1. lost' \in BOOLEAN
    BY <1>0 DEF Lose, TypeOK
  <1>2. shown' \in {"out", "pending", "in"}
    BY <1>0 DEF Lose, Confirm, TypeOK
  <1>3. PageTyped
    BY <1>0, <1>1, <1>2 DEF Lose, PageTyped, TypeOK
  <1> QED
    BY <1>0, <1>3, ConfirmKeeps, FinishKeeps DEF Lose

LEMMA ElsewhereKeeps ==
  ASSUME CallInv, Approve \/ (\E t \in DOMAIN rows : EndElsewhere(t)) \/ AccessExpires
  PROVE  CallInv' /\ RowsGrow(0)
  <1>0. TypeOK
    BY DEF CallInv
  <1>1. CASE Approve
    <2>1. RowsGrow(0)
      BY <1>0, <1>1, RowsStay DEF Approve
    <2>2. Cookies' = Cookies /\ jar' = jar /\ account' = "active" /\ call' = call
          /\ UNCHANGED <<legacy, mounted, shown, asked, history>>
      BY <1>1 DEF Approve, Cookies, browser
    <2> QED
      BY <1>0, <2>1, <2>2, CallsStay DEF TypeOK
  <1>2. CASE \E t \in DOMAIN rows : EndElsewhere(t)
    <2>1. RowsGrow(0)
      BY <1>0, <1>2, RowsEnd, RowsType DEF EndElsewhere
    <2>2. jar' = jar /\ account' = account /\ call' = call
          /\ UNCHANGED <<legacy, mounted, shown, asked, history>>
      BY <1>2 DEF EndElsewhere, browser
    <2>3. Cookies \subseteq Cookies'
      BY <1>0, <2>1, CookiesGrow DEF RowsGrow
    <2> QED
      BY <1>0, <2>1, <2>2, <2>3, CallsStay DEF TypeOK
  <1>3. CASE AccessExpires
    <2>1. rows' = rows /\ account' = account /\ call' = call
          /\ UNCHANGED <<legacy, mounted, shown, asked, history>>
      BY <1>3 DEF AccessExpires, server
    <2>2. RowsGrow(0) /\ Cookies' = Cookies
      BY <1>0, <2>1, RowsStay DEF Cookies
    <2>3. jar' = [jar EXCEPT !.access = 0] /\ jar \in Cookies /\ 0 \in 0..Len(rows)
      BY <1>0, <1>3, RowsType DEF AccessExpires, TypeOK
    <2>4. jar' \in Cookies
      BY <2>3 DEF Cookies
    <2> QED
      BY <1>0, <2>1, <2>2, <2>4, CallsStay DEF TypeOK
  <1> QED
    BY <1>1, <1>2, <1>3

LEMMA CallInit == Init => CallInv
  <1> SUFFICES ASSUME Init PROVE CallInv
    OBVIOUS
  <1>1. /\ rows \in Seq(Row) /\ Len(rows) \in {0, 1} /\ DOMAIN rows = 1..Len(rows)
        /\ \A t \in 1..Len(rows) : rows[t].session = 1
    <2>1. CASE rows = <<>>
      BY <2>1
    <2>2. CASE rows = <<[session |-> 1, state |-> "active"]>>
      BY <2>2 DEF Row
    <2> QED
      BY <2>1, <2>2 DEF Init
  <1>2. jar \in Cookies /\ legacy \in 0..Len(rows) /\ Empty \in Cookies
    <2>1. CASE rows = <<>>
      BY <2>1 DEF Init, Cookies, Empty
    <2>2. CASE rows = <<[session |-> 1, state |-> "active"]>>
      BY <2>2 DEF Init, Cookies, Empty
    <2> QED
      BY <2>1, <2>2 DEF Init
  <1>3. New \in CallState
    BY <1>2 DEF New, CallState, Keep
  <1>4. call = [c \in Call |-> New]
    BY DEF Init
  <1>a. call \in [Call -> CallState]
    BY <1>3, <1>4
  <1>b. \A t \in DOMAIN rows : rows[t].session \in DOMAIN rows
    BY <1>1
  <1>c. /\ account \in {"pending", "active"} /\ mounted \in BOOLEAN
        /\ shown \in {"out", "pending", "in"} /\ asked \in BOOLEAN
        /\ replayed \in BOOLEAN /\ overlap \in BOOLEAN
        /\ lost \in BOOLEAN /\ crossed \in BOOLEAN
    BY DEF Init
  <1>5. TypeOK
    BY <1>1, <1>2, <1>a, <1>b, <1>c DEF TypeOK, Row
  <1>6. CallHolds(New)
    BY DEF CallHolds, New
  <1> QED
    BY <1>4, <1>5, <1>6 DEF CallInv

LEMMA CallNext ==
  ASSUME CallInv, [Next]_vars
  PROVE  CallInv'
  <1>1. CASE UNCHANGED vars
    <2>1. RowsGrow(0) /\ Cookies' = Cookies /\ account' = account /\ jar' = jar
      BY <1>1, RowsStay DEF vars, server, browser, Cookies, CallInv
    <2> QED
      BY <1>1, <2>1, CallsStay DEF vars, browser, history, CallInv, TypeOK
  <1>2. CASE Next
    BY <1>2, StartKeeps, CheckStatusKeeps, ServeKeeps, ReadTokenKeeps,
       RotateKeeps,
       ReceiveKeeps, ReceiveRefreshKeeps, LoseKeeps, ElsewhereKeeps DEF Next
  <1> QED
    BY <1>1, <1>2

\* ApiClient and the auth routes: cookies, answers and what the header shows
\* keep their types.
THEOREM TypeCorrect == Spec => []TypeOK
  <1>1. CallInv => TypeOK
    BY DEF CallInv
  <1> QED
    BY <1>1, CallInit, CallNext, PTL DEF Spec

\* handleUnauthorized: a call that is refused after its refresh does not
\* refresh again, so it rotates the token at most once.
THEOREM RotationsOncePerCall == Spec => []OneRotationPerCall
  <1>1. CallInv => OneRotationPerCall
    BY DEF CallInv, CallHolds, OneRotationPerCall
  <1> QED
    BY <1>1, CallInit, CallNext, PTL DEF Spec

-----------------------------------------------------------------------------
(* What the header shows.                                                  *)

Signs == {"login", "logoff", "migrate"}

\* Two calls in flight do not disturb each other.
Apart(x, y) == x.op \notin Signs /\ (x.op = "status" => y.op # "status")

\* A status check that may still find the user signed in.
Promising(x) ==
    /\ x.op = "status"
    /\ \/ x.step = "sent" /\ x.carry.refresh # 0
       \/ x.step = "got" /\ x.code # "out"

\* The page has a cookie, or it has opened the modal.
Backed == jar.refresh # 0 \/ asked

\* The invariant in these words.
LEMMA SignedParts ==
  ~crossed /\ SignedInv =>
    /\ \A c, d \in InFlight : c # d => Apart(call[c], call[d])
    /\ shown = "in" => Backed
    /\ \A c \in Call : Promising(call[c]) => Backed
  BY DEF SignedInv, Apart, Promising, Backed, Signs

LEMMA SignedWhole ==
  ASSUME (~crossed)' =>
           /\ \A c, d \in InFlight' : c # d => Apart(call'[c], call'[d])
           /\ shown' = "in" => Backed'
           /\ \A c \in Call : Promising(call'[c]) => Backed'
  PROVE  SignedInv'
  BY DEF SignedInv, Apart, Promising, Backed, Signs

\* A call that was in flight and goes on, no less apart from the others: what
\* the page has must go on too, and what it shows must be backed.
LEMMA SignedGoes ==
  ASSUME SignedInv, NEW c \in Call,
         \A d \in Call \ {c} : call'[d] = call[d],
         crossed => crossed',
         ~crossed' => /\ \/ call'[c].step \in {"new", "done"}
                         \/ \A d \in InFlight \ {c} : /\ Apart(call'[c], call[d])
                                                     /\ Apart(call[d], call'[c])
                      /\ shown' = "in" => Backed'
                      /\ Promising(call'[c]) => Backed'
                      /\ \/ Backed => Backed'
                         \/ \A d \in Call \ {c} : ~Promising(call[d])
  PROVE  SignedInv'
  <1> SUFFICES ASSUME ~crossed'
               PROVE  /\ \A d, e \in InFlight' : d # e => Apart(call'[d], call'[e])
                      /\ shown' = "in" => Backed'
                      /\ \A d \in Call : Promising(call'[d]) => Backed'
    BY SignedWhole
  <1>1. /\ \A d, e \in InFlight : d # e => Apart(call[d], call[e])
        /\ shown = "in" => Backed
        /\ \A d \in Call : Promising(call[d]) => Backed
    BY SignedParts
  <1>2. \A d \in InFlight' : d = c \/ d \in InFlight
    BY DEF InFlight
  <1>3. ASSUME NEW d \in InFlight', NEW e \in InFlight', d # e
        PROVE  Apart(call'[d], call'[e])
    <2>1. d \in Call /\ e \in Call
      BY DEF InFlight
    <2>2. call'[c].step \in {"new", "done"} => c \notin InFlight'
      BY DEF InFlight
    <2>3. CASE d = c
      BY <1>2, <1>3, <2>1, <2>2, <2>3
    <2>4. CASE e = c
      BY <1>2, <1>3, <2>1, <2>2, <2>4
    <2>5. CASE d # c /\ e # c
      BY <1>1, <1>2, <1>3, <2>1, <2>5
    <2> QED
      BY <2>3, <2>4, <2>5
  <1>4. \A d \in Call : Promising(call'[d]) => Backed'
    BY <1>1
  <1> QED
    BY <1>3, <1>4

\* Where a call that crosses no other starts, it is apart from those in flight.
LEMMA NotCrossed ==
  ASSUME NEW c \in Call, NEW op, Crosses(op), ~crossed', call'[c].op = op,
         NEW d \in InFlight
  PROVE  Apart(call'[c], call[d]) /\ Apart(call[d], call'[c])
  <1>1. /\ {op, call[d].op} \cap Signs = {}
        /\ {op, call[d].op} # {"status"}
    BY DEF Crosses, Signs
  <1>2. op \notin Signs /\ call[d].op \notin Signs
    BY <1>1
  <1>3. ~(op = "status" /\ call[d].op = "status")
    BY <1>1
  <1> QED
    BY <1>2, <1>3 DEF Apart

\* A call in flight that keeps its operation stays as much apart.
LEMMA StaysApart ==
  ASSUME SignedInv, ~crossed, NEW c \in InFlight, call'[c].op = call[c].op,
         NEW d \in InFlight \ {c}
  PROVE  Apart(call'[c], call[d]) /\ Apart(call[d], call'[c])
  BY SignedParts DEF Apart

LEMMA StartSigned ==
  ASSUME CallInv, SignedInv, NEW c \in Call,
         Read(c) \/ Login(c) \/ Logoff(c) \/ Recheck(c)
  PROVE  SignedInv'
  <1>0. TypeOK
    BY DEF CallInv
  <1>1. PICK op \in {"read", "login", "logoff", "status"} :
          Request(c, op, jar) /\ Crosses(op)
    BY DEF Read, Login, Logoff, Recheck
  <1>2. Becomes(c, op, "sent", jar, "none", Keep, call[c].retried, call[c].rotations)
    BY <1>0, <1>1, RequestBecomes
  <1>3. UNCHANGED <<jar, shown, asked>>
    BY DEF Read, Login, Logoff, Recheck, browser
  <1>4. Backed' <=> Backed
    BY <1>3 DEF Backed
  <1>5. crossed => crossed'
    BY <1>1 DEF Crosses
  <1>6. ASSUME ~crossed'
        PROVE  /\ \A d \in InFlight \ {c} : /\ Apart(call'[c], call[d])
                                           /\ Apart(call[d], call'[c])
               /\ shown' = "in" => Backed'
               /\ Promising(call'[c]) => Backed'
    <2>1. call'[c].op = op /\ call'[c].carry = jar /\ call'[c].step = "sent"
      BY <1>2 DEF Becomes
    <2>2. shown' = "in" => Backed'
      BY <1>3, <1>4, <1>5, <1>6, SignedParts
    <2>3. Promising(call'[c]) => Backed
      BY <2>1 DEF Promising, Backed
    <2> QED
      BY <1>1, <1>4, <1>6, <2>1, <2>2, <2>3, NotCrossed
  <1>7. \A d \in Call \ {c} : call'[d] = call[d]
    BY <1>2 DEF Becomes
  <1> QED
    BY <1>4, <1>5, <1>6, <1>7, SignedGoes

LEMMA CheckStatusSigned ==
  ASSUME CallInv, SignedInv, NEW c \in Call, CheckStatus(c)
  PROVE  SignedInv'
  <1>0. TypeOK
    BY DEF CallInv
  <1>1. jar' = jar /\ asked' = asked /\ (Backed' <=> Backed)
    BY DEF CheckStatus, Backed
  <1>2. crossed => crossed'
    BY DEF CheckStatus, Crosses
  <1>3. CASE legacy = 0 /\ jar.refresh = 0
    <2>1. Finish(c) /\ shown' = "out"
      BY <1>3 DEF CheckStatus, Confirm
    <2>2. Becomes(c, "none", "done", Empty, "none", Keep, FALSE, call[c].rotations)
      BY <1>0, <2>1, FinishBecomes
    <2>3. /\ call'[c].step = "done" /\ ~Promising(call'[c])
          /\ \A d \in Call \ {c} : call'[d] = call[d]
      BY <2>2 DEF Becomes, Promising
    <2> QED
      BY <1>1, <1>2, <2>1, <2>3, SignedGoes
  <1>4. CASE legacy = 0 /\ jar.refresh # 0
    <2>1. Request(c, "status", jar) /\ shown' = shown /\ Crosses("status")
      BY <1>4 DEF CheckStatus, Confirm
    <2>2. Becomes(c, "status", "sent", jar, "none", Keep, call[c].retried,
                  call[c].rotations)
      BY <1>0, <2>1, RequestBecomes
    <2>3. call'[c].op = "status" /\ \A d \in Call \ {c} : call'[d] = call[d]
      BY <2>2 DEF Becomes
    <2>4. Backed
      BY <1>4 DEF Backed
    <2> QED
      BY <1>1, <1>2, <2>1, <2>3, <2>4, NotCrossed, SignedGoes
  <1>5. CASE legacy # 0
    <2> DEFINE t == IF jar.refresh # 0 THEN jar.refresh ELSE legacy
    <2>1. RequestRefresh(c, "migrate", t) /\ shown' = shown /\ Crosses("migrate")
      BY <1>5 DEF CheckStatus
    <2>2. Becomes(c, "migrate", "refresh", [access |-> 0, refresh |-> t], "none", Keep,
                  call[c].retried, call[c].rotations)
      BY <1>0, <2>1, RequestRefreshBecomes
    <2>3. /\ call'[c].op = "migrate" /\ ~Promising(call'[c])
          /\ \A d \in Call \ {c} : call'[d] = call[d]
      BY <2>2 DEF Becomes, Promising
    <2>4. ~crossed' => (shown' = "in" => Backed')
      BY <1>1, <1>2, <2>1, SignedParts
    <2> QED
      BY <1>1, <1>2, <2>1, <2>3, <2>4, NotCrossed, SignedGoes
  <1> QED
    BY <1>3, <1>4, <1>5

\* A step of the server: only the check of a token that lives can promise.
LEMMA ServerSigned ==
  ASSUME CallInv, SignedInv, NEW c \in InFlight,
         \A d \in Call \ {c} : call'[d] = call[d],
         call'[c].op = call[c].op, Promising(call'[c]) => Promising(call[c]),
         UNCHANGED <<browser, crossed>>
  PROVE  SignedInv'
  <1>1. c \in Call /\ (Backed' <=> Backed) /\ shown' = shown /\ crossed' = crossed
    BY DEF InFlight, Backed, browser
  <1>2. ASSUME ~crossed'
        PROVE  /\ \A d \in InFlight \ {c} : /\ Apart(call'[c], call[d])
                                           /\ Apart(call[d], call'[c])
               /\ shown' = "in" => Backed'
               /\ Promising(call'[c]) => Backed'
    BY <1>1, <1>2, StaysApart, SignedParts
  <1> QED
    BY <1>1, <1>2, SignedGoes

LEMMA ServeSigned ==
  ASSUME CallInv, SignedInv, NEW c \in Call, Serve(c)
  PROVE  SignedInv'
  <1>0. TypeOK /\ CallHolds(call[c]) /\ call[c].step = "sent" /\ c \in InFlight
        /\ UNCHANGED <<browser, crossed>>
    BY DEF CallInv, Serve, InFlight, history
  <1>1. PICK code, ck : /\ Answer(c, code, ck)
                        /\ call[c].op = "status" /\ code # "out" =>
                             Live(call[c].carry.refresh)
    <2>1. call[c].op \in {"read", "status", "login", "logoff"}
      BY <1>0 DEF CallHolds
    <2>2. CASE call[c].op = "status"
      BY <2>2 DEF Serve, ServeStatus
    <2>3. CASE call[c].op = "read"
      BY <2>3 DEF Serve, ServeRead
    <2>4. CASE call[c].op = "login"
      BY <2>4 DEF Serve, ServeLogin
    <2>5. CASE call[c].op = "logoff"
      BY <2>5 DEF Serve, ServeLogoff
    <2> QED
      BY <2>1, <2>2, <2>3, <2>4, <2>5
  <1>2. Becomes(c, call[c].op, "got", Empty, code, ck, call[c].retried,
                call[c].rotations)
    BY <1>0, <1>1, AnswerBecomes
  <1>3. Live(call[c].carry.refresh) => call[c].carry.refresh # 0
    BY <1>0, RowsType DEF Live
  <1>4. Promising(call'[c]) => Promising(call[c])
    BY <1>0, <1>1, <1>2, <1>3 DEF Becomes, Promising
  <1> QED
    BY <1>0, <1>2, <1>4, ServerSigned DEF Becomes

LEMMA RefreshSigned ==
  ASSUME CallInv, SignedInv, NEW c \in Call, ReadToken(c) \/ Rotate(c)
  PROVE  SignedInv'
  <1>0. /\ TypeOK /\ c \in InFlight
        /\ call[c].step \in {"refresh", "reading"}
        /\ UNCHANGED <<browser, crossed>>
    BY ZenonT(60) DEF CallInv, ReadToken, Rotate, InFlight, history
  <1>1. PICK step, code, ck, n :
          /\ Becomes(c, call[c].op, step, call[c].carry, code, ck, call[c].retried, n)
          /\ step \in {"reading", "refreshed"}
    BY <1>0, ReadingBecomes, RefuseBecomes, RotatedBecomes, Zenon
       DEF ReadToken, Rotate
  <1>2. ~Promising(call'[c])
    BY <1>1 DEF Becomes, Promising
  <1> QED
    BY <1>0, <1>1, <1>2, ServerSigned, SMTT(40) DEF Becomes

\* Nobody else is in flight beside a sign-in, a sign-out or a migration, and no
\* other status check beside a status check.
LEMMA Alone ==
  ASSUME SignedInv, ~crossed, NEW c \in InFlight
  PROVE  /\ call[c].op \in Signs => InFlight \ {c} = {}
         /\ call[c].op \in Signs \cup {"status"} =>
              \A d \in Call \ {c} : ~Promising(call[d])
  <1>1. \A d \in InFlight \ {c} : Apart(call[c], call[d])
    BY SignedParts
  <1>2. \A d \in Call : Promising(call[d]) => d \in InFlight /\ call[d].op = "status"
    BY DEF Promising, InFlight
  <1>3. call[c].op \in Signs => InFlight \ {c} = {}
    BY <1>1 DEF Apart
  <1> QED
    BY <1>1, <1>2, <1>3 DEF Apart

\* A call that is over: it cannot be apart from too little.
LEMMA FinishSigned ==
  ASSUME CallInv, SignedInv, NEW c \in Call, Finish(c),
         crossed' = crossed,
         ~crossed => /\ shown' = "in" => Backed'
                     /\ \/ Backed => Backed'
                        \/ \A d \in Call \ {c} : ~Promising(call[d])
  PROVE  SignedInv'
  <1>1. TypeOK
    BY DEF CallInv
  <1>2. Becomes(c, "none", "done", Empty, "none", Keep, FALSE, call[c].rotations)
    BY <1>1, FinishBecomes
  <1>3. /\ call'[c].step = "done" /\ ~Promising(call'[c])
        /\ \A d \in Call \ {c} : call'[d] = call[d]
    BY <1>2 DEF Becomes, Promising
  <1> QED
    BY <1>3, SignedGoes

LEMMA ReceiveSigned ==
  ASSUME CallInv, SignedInv, NEW c \in Call, Receive(c)
  PROVE  SignedInv'
  <1>0. /\ TypeOK /\ CallHolds(call[c]) /\ call[c].step = "got" /\ c \in InFlight
        /\ jar' = Stored(c) /\ crossed' = crossed
    BY DEF CallInv, Receive, InFlight
  <1>1. CASE SessionExpired(c)
    BY <1>0, <1>1, FinishSigned DEF SessionExpired, Backed
  <1>2. CASE /\ RequestRefresh(c, call[c].op, jar'.refresh) /\ UNCHANGED <<shown, asked>>
             /\ call[c].code = "401"
    <2>1. jar' = jar
      BY <1>0, <1>2 DEF CallHolds, Stored, Keep
    <2>2. Backed' <=> Backed
      BY <1>2, <2>1 DEF Backed
    <2>3. Becomes(c, call[c].op, "refresh", [access |-> 0, refresh |-> jar'.refresh],
                  "none", Keep, call[c].retried, call[c].rotations)
      BY <1>0, <1>2, RequestRefreshBecomes
    <2>4. /\ call'[c].op = call[c].op /\ ~Promising(call'[c])
          /\ \A d \in Call \ {c} : call'[d] = call[d]
      BY <2>3 DEF Becomes, Promising
    <2>5. ~crossed => (shown' = "in" => Backed')
      BY <1>2, <2>2, SignedParts
    <2> QED
      BY <1>0, <2>2, <2>4, <2>5, StaysApart, SignedGoes
  <1>3. CASE Succeed(c, jar') /\ call[c].code # "401"
    <2>1. CASE call[c].op = "status"
      <3>1. Finish(c) /\ shown' = call[c].code /\ asked' = asked
        BY <1>3, <2>1 DEF Succeed
      <3>2. ~crossed => \A d \in Call \ {c} : ~Promising(call[d])
        BY <1>0, <2>1, Alone
      <3>3. CASE call[c].code = "out"
        BY <1>0, <3>1, <3>2, <3>3, FinishSigned
      <3>4. CASE call[c].code # "out"
        <4>1. Promising(call[c])
          BY <1>0, <2>1, <3>4 DEF Promising
        <4>2. jar' = jar
          BY <1>0, <2>1, <3>4 DEF CallHolds, Stored, Keep
        <4>3. ~crossed => Backed'
          BY <3>1, <4>1, <4>2, SignedParts DEF Backed
        <4> QED
          BY <1>0, <3>1, <3>2, <4>3, FinishSigned
      <3> QED
        BY <3>3, <3>4
    <2>2. CASE call[c].op = "logoff"
      <3>1. Finish(c) /\ shown' = "out"
        BY <1>3, <2>2 DEF Succeed
      <3>2. ~crossed => \A d \in Call \ {c} : ~Promising(call[d])
        BY <1>0, <2>2, Alone DEF Signs
      <3> QED
        BY <1>0, <3>1, <3>2, FinishSigned
    <2>3. CASE call[c].op = "login"
      <3>1. Request(c, "status", jar') /\ jar'.refresh # 0
        BY <1>0, <1>3, <2>3 DEF Succeed, CallHolds, Stored
      <3>2. Becomes(c, "status", "sent", jar', "none", Keep, call[c].retried,
                    call[c].rotations)
        BY <1>0, <3>1, RequestBecomes
      <3>3. ~crossed => InFlight \ {c} = {}
        BY <1>0, <2>3, Alone DEF Signs
      <3>4. Backed'
        BY <3>1 DEF Backed
      <3> QED
        BY <1>0, <3>2, <3>3, <3>4, SignedGoes DEF Becomes
    <2>4. CASE call[c].op = "read"
      <3>1. Finish(c) /\ UNCHANGED <<shown, asked>>
        BY <1>3, <2>4 DEF Succeed
      <3>2. jar' = jar
        BY <1>0, <2>4 DEF CallHolds, Stored, Keep
      <3>3. Backed' <=> Backed
        BY <3>1, <3>2 DEF Backed
      <3> QED
        BY <1>0, <3>1, <3>3, SignedParts, FinishSigned
    <2> QED
      BY <1>0, <2>1, <2>2, <2>3, <2>4 DEF CallHolds
  <1> QED
    BY <1>1, <1>2, <1>3 DEF Receive

\* The end of a migration, whatever became of it.
LEMMA ConfirmSigned ==
  ASSUME CallInv, SignedInv, NEW c \in InFlight, call[c].op = "migrate",
         Confirm(c, jar'), asked' = asked, crossed' = crossed
  PROVE  SignedInv'
  <1>0. TypeOK /\ c \in Call
    BY DEF CallInv, InFlight
  <1>1. ~crossed => /\ InFlight \ {c} = {}
                    /\ \A d \in Call \ {c} : ~Promising(call[d])
    BY Alone DEF Signs
  <1>2. CASE jar'.refresh = 0
    <2>1. Finish(c) /\ shown' = "out"
      BY <1>2 DEF Confirm
    <2> QED
      BY <1>0, <1>1, <2>1, FinishSigned
  <1>3. CASE jar'.refresh # 0
    <2>1. Request(c, "status", jar') /\ Backed'
      BY <1>3 DEF Confirm, Backed
    <2>2. Becomes(c, "status", "sent", jar', "none", Keep, call[c].retried,
                  call[c].rotations)
      BY <1>0, <2>1, RequestBecomes
    <2> QED
      BY <1>0, <1>1, <2>1, <2>2, SignedGoes DEF Becomes
  <1> QED
    BY <1>2, <1>3

LEMMA ReceiveRefreshSigned ==
  ASSUME CallInv, SignedInv, NEW c \in Call, ReceiveRefresh(c)
  PROVE  SignedInv'
  <1>0. /\ TypeOK /\ CallHolds(call[c]) /\ call[c].step = "refreshed" /\ c \in InFlight
        /\ jar' = Stored(c) /\ crossed' = crossed
    BY DEF CallInv, ReceiveRefresh, InFlight, history
  <1>1. CASE call[c].op = "migrate"
    BY <1>0, <1>1, ConfirmSigned DEF ReceiveRefresh
  <1>2. CASE SessionExpired(c)
    BY <1>0, <1>2, FinishSigned DEF SessionExpired, Backed
  <1>3. CASE /\ call[c].code = "ok"
             /\ call' = [call EXCEPT ![c].step = "sent", ![c].carry = jar',
                                     ![c].retried = TRUE, ![c].cookies = Keep]
    <2>1. Becomes(c, call[c].op, "sent", jar', call[c].code, Keep, TRUE,
                  call[c].rotations)
      BY <1>0, <1>3, RetryBecomes
    <2>2. /\ call'[c].op = call[c].op
          /\ \A d \in Call \ {c} : call'[d] = call[d]
      BY <2>1 DEF Becomes
    <2>3. Backed'
      BY <1>0, <1>3 DEF CallHolds, Stored, Backed, Clear
    <2> QED
      BY <1>0, <2>2, <2>3, StaysApart, SignedGoes
  <1> QED
    BY <1>1, <1>2, <1>3 DEF ReceiveRefresh

LEMMA LoseSigned ==
  ASSUME CallInv, SignedInv, NEW c \in Call, Lose(c)
  PROVE  SignedInv'
  <1>0. /\ TypeOK /\ c \in InFlight /\ jar' = jar /\ asked' = asked
        /\ crossed' = crossed /\ (Backed' <=> Backed)
    BY DEF CallInv, Lose, InFlight, Backed
  <1>1. CASE call[c].op = "migrate"
    BY <1>0, <1>1, ConfirmSigned DEF Lose
  <1>2. CASE call[c].op # "migrate"
    <2>1. Finish(c) /\ shown' = shown
      BY <1>2 DEF Lose
    <2> QED
      BY <1>0, <2>1, SignedParts, FinishSigned
  <1> QED
    BY <1>1, <1>2

LEMMA ElsewhereSigned ==
  ASSUME CallInv, SignedInv,
         call' = call, shown' = shown, asked' = asked, crossed' = crossed,
         jar'.refresh = jar.refresh
  PROVE  SignedInv'
  <1>1. InFlight' = InFlight
    BY DEF InFlight
  <1> QED
    BY <1>1 DEF SignedInv

LEMMA SignedNext ==
  ASSUME CallInv, SignedInv, [Next]_vars
  PROVE  SignedInv'
  <1>1. CASE \/ UNCHANGED vars \/ Approve
             \/ \E t \in DOMAIN rows : EndElsewhere(t)
    BY <1>1, ElsewhereSigned DEF vars, browser, history, Approve, EndElsewhere
  <1>2. CASE AccessExpires
    <2>1. jar' = [jar EXCEPT !.access = 0] /\ jar \in Cookies
      BY <1>2 DEF AccessExpires, CallInv, TypeOK
    <2>2. jar'.refresh = jar.refresh
      BY <2>1 DEF Cookies
    <2> QED
      BY <1>2, <2>2, ElsewhereSigned DEF AccessExpires, history
  <1>3. CASE \E c \in Call : \/ Read(c) \/ Login(c) \/ Logoff(c) \/ Recheck(c)
                             \/ CheckStatus(c) \/ Serve(c) \/ ReadToken(c)
                             \/ Rotate(c) \/ Receive(c) \/ ReceiveRefresh(c)
                             \/ Lose(c)
    BY <1>3, StartSigned, CheckStatusSigned, ServeSigned, RefreshSigned,
       ReceiveSigned, ReceiveRefreshSigned, LoseSigned
  <1> QED
    BY <1>1, <1>2, <1>3 DEF Next

LEMMA SignedInit == Init => SignedInv
  <1> SUFFICES ASSUME Init PROVE SignedInv
    OBVIOUS
  <1>1. InFlight = {} /\ \A c \in Call : call[c].step = "new"
    BY DEF Init, InFlight, New
  <1>2. shown = "in" => jar.refresh # 0
    BY DEF Init
  <1> QED
    BY <1>1, <1>2 DEF SignedInv

\* HeaderController, AuthStatus and sessionExpired, with any number of calls in
\* flight: a header that shows a user without a cookie has opened the modal,
\* unless a sign-in or sign-out crossed another call.
THEOREM NoSilentSignOuts == Spec => []NoSilentSignOut
  <1>1. SignedInv => NoSilentSignOut
    BY DEF SignedInv, NoSilentSignOut
  <1> QED
    BY <1>1, CallInit, CallNext, SignedInit, SignedNext, PTL DEF Spec

-----------------------------------------------------------------------------
(* Where the refresh tokens are.                                           *)

\* Numbers of tokens, and that only old rows are rotated, but for t.
LEMMA TokenNumbers ==
  ASSUME CallInv
  PROVE  /\ Len(rows) \in Nat /\ DOMAIN rows = 1..Len(rows)
         /\ jar.refresh \in 0..Len(rows) /\ legacy \in 0..Len(rows)
         /\ \A c \in Call : /\ Held(c) \in 0..Len(rows)
                            /\ call[c].carry.refresh \in 0..Len(rows)
  <1>0. TypeOK
    BY DEF CallInv
  <1>1. \A c \in Call : call[c].cookies.to \in Cookies /\ call[c].carry \in Cookies
    BY <1>0, CallType DEF CallState
  <1> QED
    BY <1>0, <1>1, RowsType DEF Held, Cookies, TypeOK

LEMMA RotatedBefore ==
  ASSUME CallInv, NEW t, RowsGrow(t), NEW s \in 1..Len(rows'), Rotated(s)'
  PROVE  s = t \/ (s \in 1..Len(rows) /\ Rotated(s))
  BY TokenNumbers DEF RowsGrow, Rotated

LEMMA RefreshingStep ==
  ASSUME NEW c \in Call
  PROVE  /\ c \in Refreshing <=> call[c].step \in {"refresh", "reading", "refreshed"}
         /\ c \in Refreshing' <=> call'[c].step \in {"refresh", "reading", "refreshed"}
  BY DEF Refreshing

\* A step in which no token moves but to get out of sight.
LEMMA QuietTokens ==
  ASSUME CallInv, Untangled, RowsGrow(0), NEW c \in Call,
         \A d \in Call \ {c} : call'[d] = call[d],
         Held(c)' \in {0, Held(c)},
         c \in Refreshing' => c \in Refreshing /\ call'[c].carry = call[c].carry,
         call'[c].step \in {"refresh", "reading"} =>
           call[c].step \in {"refresh", "reading"},
         call[c].step = "refreshed" /\ Held(c) # 0 => call'[c] = call[c],
         jar'.refresh = jar.refresh, legacy' \in {0, legacy}, replayed' = replayed
  PROVE  Untangled'
  <1>0. \A d \in Call \ {c} : Held(d)' = Held(d) /\ (d \in Refreshing' <=> d \in Refreshing)
    BY DEF Held, Refreshing
  <1>1. OneBearer'
    BY <1>0 DEF OneBearer, Untangled, Refreshing
  <1>2. OneAnswer'
    BY <1>0 DEF OneAnswer, Untangled
  <1>3. AnswersNew'
    <2> SUFFICES ASSUME NEW e \in Call, Held(e)' # 0
                 PROVE  /\ Held(e)' # jar'.refresh /\ Held(e)' # legacy'
                        /\ \A d \in Refreshing' : call'[d].carry.refresh # Held(e)'
      BY DEF AnswersNew
    <2>1. Held(e)' = Held(e)
      BY <1>0
    <2>2. /\ Held(e) # jar.refresh /\ Held(e) # legacy
          /\ \A d \in Refreshing : call[d].carry.refresh # Held(e)
      BY <2>1 DEF AnswersNew, Untangled
    <2>3. \A d \in Refreshing' : d \in Refreshing /\ call'[d].carry = call[d].carry
      BY <1>0 DEF Refreshing
    <2> QED
      BY <2>1, <2>2, <2>3
  <1>4. LegacyApart'
    <2>1. \A d \in Refreshing' : d \in Refreshing /\ call'[d].carry = call[d].carry
      BY <1>0 DEF Refreshing
    <2> QED
      BY <2>1 DEF LegacyApart, Untangled
  <1>5. RotatedGone'
    <2> SUFFICES ASSUME NEW t \in 1..Len(rows'), Rotated(t)'
                 PROVE  /\ legacy' # t /\ (jar'.refresh = t => Succeeded(t)')
                        /\ \A e \in Call : /\ Held(e)' # t
                                           /\ call'[e].step \in {"refresh", "reading"} =>
                                                call'[e].carry.refresh # t
      BY DEF RotatedGone
    <2>0. t # 0
      BY DEF RowsGrow
    <2>1. t \in 1..Len(rows) /\ Rotated(t)
      BY <2>0, RotatedBefore
    <2>2. /\ legacy # t /\ (jar.refresh = t => Succeeded(t))
          /\ \A e \in Call : /\ Held(e) # t
                             /\ call[e].step \in {"refresh", "reading"} =>
                                  call[e].carry.refresh # t
      BY <2>1 DEF RotatedGone, Untangled
    <2>3. Succeeded(t) => Succeeded(t)'
      <3> SUFFICES ASSUME NEW d \in Call, call[d].step = "refreshed",
                          call[d].carry.refresh = t, Held(d) # 0
                   PROVE  Succeeded(t)'
        BY DEF Succeeded
      <3>1. call'[d] = call[d]
        OBVIOUS
      <3>2. Held(d)' = Held(d)
        BY <3>1 DEF Held
      <3> QED
        BY <3>1, <3>2 DEF Succeeded
    <2>4. \A e \in Call : Held(e)' # t
      BY <1>0, <2>0, <2>2
    <2>5. \A e \in Call : call'[e].step \in {"refresh", "reading"} =>
                          call'[e].carry.refresh # t
      BY <2>2 DEF Refreshing
    <2> QED
      BY <2>0, <2>2, <2>3, <2>4, <2>5
  <1> QED
    BY <1>1, <1>2, <1>3, <1>4, <1>5 DEF Untangled

\* Steps that change no call.
LEMMA TokensStay ==
  ASSUME CallInv, Untangled, RowsGrow(0), call' = call,
         jar'.refresh = jar.refresh, legacy' = legacy, replayed' = replayed
  PROVE  Untangled'
  <1>0. Refreshing' = Refreshing /\ \A d : Held(d)' = Held(d)
    BY DEF Refreshing, Held
  <1>1. OneBearer' /\ OneAnswer' /\ AnswersNew' /\ LegacyApart'
    BY <1>0 DEF Untangled, OneBearer, OneAnswer, AnswersNew, LegacyApart
  <1>2. RotatedGone'
    <2> SUFFICES ASSUME NEW t \in 1..Len(rows'), Rotated(t)'
                 PROVE  /\ legacy' # t /\ (jar'.refresh = t => Succeeded(t)')
                        /\ \A e \in Call : /\ Held(e)' # t
                                           /\ call'[e].step \in {"refresh", "reading"} =>
                                                call'[e].carry.refresh # t
      BY DEF RotatedGone
    <2>0. t # 0
      BY DEF RowsGrow
    <2>1. t \in 1..Len(rows) /\ Rotated(t)
      BY <2>0, RotatedBefore
    <2>2. Succeeded(t)' <=> Succeeded(t)
      BY <1>0 DEF Succeeded
    <2> QED
      BY <1>0, <2>1, <2>2 DEF RotatedGone, Untangled
  <1> QED
    BY <1>1, <1>2 DEF Untangled

\* The answer of a call puts its token into the jar.
LEMMA JarTakes ==
  ASSUME CallInv, Untangled, RowsGrow(0), NEW c \in Call,
         \A d \in Call \ {c} : call'[d] = call[d],
         Held(c)' = 0, c \notin Refreshing',
         jar'.refresh = Held(c), legacy' = legacy, replayed' = replayed
  PROVE  Untangled'
  <1>0. \A d \in Call \ {c} : Held(d)' = Held(d) /\ (d \in Refreshing' <=> d \in Refreshing)
    BY DEF Held, Refreshing
  <1>a. Refreshing' \subseteq Refreshing \ {c} /\ Refreshing \subseteq Call
    BY <1>0 DEF Refreshing
  <1>1. OneBearer'
    BY <1>0, <1>a DEF OneBearer, Untangled
  <1>2. OneAnswer'
    BY <1>0 DEF OneAnswer, Untangled
  <1>3. AnswersNew'
    BY <1>0, <1>a DEF AnswersNew, OneAnswer, Untangled
  <1>4. LegacyApart'
    BY <1>0, <1>a DEF LegacyApart, AnswersNew, Untangled
  <1>5. RotatedGone'
    <2> SUFFICES ASSUME NEW t \in 1..Len(rows'), Rotated(t)'
                 PROVE  /\ legacy' # t /\ (jar'.refresh = t => Succeeded(t)')
                        /\ \A e \in Call : /\ Held(e)' # t
                                           /\ call'[e].step \in {"refresh", "reading"} =>
                                                call'[e].carry.refresh # t
      BY DEF RotatedGone
    <2>0. t # 0
      BY DEF RowsGrow
    <2>1. t \in 1..Len(rows) /\ Rotated(t)
      BY <2>0, RotatedBefore
    <2>2. /\ legacy # t
          /\ \A e \in Call : /\ Held(e) # t
                             /\ call[e].step \in {"refresh", "reading"} =>
                                  call[e].carry.refresh # t
      BY <2>1 DEF RotatedGone, Untangled
    <2>3. call'[c].step \notin {"refresh", "reading"}
      BY RefreshingStep
    <2> QED
      BY <1>0, <2>0, <2>2, <2>3
  <1> QED
    BY <1>1, <1>2, <1>3, <1>4, <1>5 DEF Untangled

\* A call takes the token of the jar, or the legacy one, to the refresh route,
\* and no other is refreshing with it.
LEMMA TokenTaken ==
  ASSUME CallInv, Untangled, rows' = rows, NEW c \in Call \ Refreshing,
         \A d \in Call \ {c} : call'[d] = call[d],
         NEW t, call'[c].carry.refresh = t, Held(c)' = 0,
         \A d \in Refreshing : call[d].carry.refresh # t,
         t = jar.refresh \/ t = legacy,
         legacy' = 0 \/ (legacy' = legacy /\ t = jar.refresh),
         jar' = jar, replayed' = replayed
  PROVE  Untangled'
  <1>0. \A d \in Call \ {c} : Held(d)' = Held(d) /\ (d \in Refreshing' <=> d \in Refreshing)
    BY DEF Held, Refreshing
  <1>a. \A d \in Refreshing' : \/ d = c
                               \/ d \in Refreshing /\ d # c /\ call'[d] = call[d]
    <2>1. ASSUME NEW d \in Refreshing', d # c
          PROVE  d \in Refreshing /\ d # c /\ call'[d] = call[d]
      <3>1. d \in Call \ {c}
        BY <2>1 DEF Refreshing
      <3> QED
        BY <1>0, <2>1, <3>1
    <2> QED
      BY <2>1
  <1>b. \A d \in Call : Held(d) # 0 => Held(d) # t
    BY DEF AnswersNew, Untangled
  <1>1. OneBearer'
    BY <1>a DEF OneBearer, Untangled
  <1>2. OneAnswer'
    BY <1>0 DEF OneAnswer, Untangled
  <1>3. AnswersNew'
    <2> SUFFICES ASSUME NEW e \in Call, Held(e)' # 0
                 PROVE  /\ Held(e)' # jar'.refresh /\ Held(e)' # legacy'
                        /\ \A d \in Refreshing' : call'[d].carry.refresh # Held(e)'
      BY DEF AnswersNew
    <2>1. e # c /\ Held(e)' = Held(e)
      BY <1>0
    <2>2. /\ Held(e) # jar.refresh /\ Held(e) # legacy
          /\ \A d \in Refreshing : call[d].carry.refresh # Held(e)
      BY <2>1 DEF AnswersNew, Untangled
    <2> QED
      BY <1>a, <1>b, <2>1, <2>2
  <1>4. LegacyApart'
    BY <1>a DEF LegacyApart, Untangled
  <1>5. RotatedGone'
    <2> SUFFICES ASSUME NEW s \in 1..Len(rows), Rotated(s)
                 PROVE  /\ legacy' # s /\ (jar'.refresh = s => Succeeded(s)')
                        /\ \A e \in Call : /\ Held(e)' # s
                                           /\ call'[e].step \in {"refresh", "reading"} =>
                                                call'[e].carry.refresh # s
      BY DEF RotatedGone, Rotated
    <2>0. s # 0
      BY TokenNumbers
    <2>1. /\ legacy # s /\ (jar.refresh = s => Succeeded(s))
          /\ \A e \in Call : /\ Held(e) # s
                             /\ call[e].step \in {"refresh", "reading"} =>
                                  call[e].carry.refresh # s
      BY DEF RotatedGone, Untangled
    <2>2. Succeeded(s) => Succeeded(s)' /\ s # t
      <3> SUFFICES ASSUME NEW d \in Call, call[d].step = "refreshed",
                          call[d].carry.refresh = s, Held(d) # 0
                   PROVE  Succeeded(s)' /\ s # t
        BY DEF Succeeded
      <3>1. d \in Refreshing
        BY DEF Refreshing
      <3>2. call'[d] = call[d] /\ Held(d)' = Held(d)
        BY <1>0, <3>1
      <3> QED
        BY <3>1, <3>2 DEF Succeeded
    <2>3. s # t
      BY <2>1, <2>2
    <2>4. \A e \in Call : Held(e)' # s
      BY <1>0, <2>0, <2>1
    <2>5. legacy' # s /\ (jar'.refresh = s => Succeeded(s)')
      BY <2>0, <2>1, <2>2
    <2> QED
      BY <2>1, <2>3, <2>4, <2>5
  <1> QED
    BY <1>1, <1>2, <1>3, <1>4, <1>5 DEF Untangled

\* The server makes a new token: for a sign-in, or for the refresh that carries
\* its predecessor t.
LEMMA TokenMade ==
  ASSUME CallInv, Untangled, NEW t, RowsGrow(t), Len(rows') = Len(rows) + 1,
         NEW c \in Call,
         \A d \in Call \ {c} : call'[d] = call[d],
         Held(c)' = Len(rows) + 1,
         \/ t = 0 /\ call[c].step = "sent" /\ call'[c].step = "got"
         \/ /\ call[c].step = "reading" /\ call'[c].step = "refreshed"
            /\ call'[c].carry = call[c].carry /\ call[c].carry.refresh = t /\ t # 0,
         jar' = jar, legacy' = legacy, replayed' = replayed
  PROVE  Untangled'
  <1>0. \A d \in Call \ {c} : Held(d)' = Held(d) /\ (d \in Refreshing' <=> d \in Refreshing)
    BY DEF Held, Refreshing
  <1>a. \A d \in Refreshing' : d \in Refreshing /\ call'[d].carry = call[d].carry
    BY <1>0, RefreshingStep DEF Refreshing
  <1>b. /\ Held(c)' # 0 /\ Held(c)' # jar.refresh /\ Held(c)' # legacy
        /\ \A d \in Call : Held(d) # Held(c)' /\ call[d].carry.refresh # Held(c)'
        /\ \A s \in 1..Len(rows) : s # Held(c)'
    BY TokenNumbers
  <1>1. OneBearer'
    BY <1>a DEF OneBearer, Untangled
  <1>2. OneAnswer'
    BY <1>0, <1>b DEF OneAnswer, Untangled
  <1>3. AnswersNew'
    <2> SUFFICES ASSUME NEW e \in Call, Held(e)' # 0
                 PROVE  /\ Held(e)' # jar'.refresh /\ Held(e)' # legacy'
                        /\ \A d \in Refreshing' : call'[d].carry.refresh # Held(e)'
      BY DEF AnswersNew
    <2>1. CASE e = c
      BY <1>a, <1>b, <2>1 DEF Refreshing
    <2>2. CASE e # c
      BY <1>0, <1>a, <2>2 DEF AnswersNew, Untangled
    <2> QED
      BY <2>1, <2>2
  <1>4. LegacyApart'
    BY <1>a DEF LegacyApart, Untangled
  <1>5. RotatedGone'
    <2> SUFFICES ASSUME NEW s \in 1..Len(rows'), Rotated(s)'
                 PROVE  /\ legacy' # s /\ (jar'.refresh = s => Succeeded(s)')
                        /\ \A e \in Call : /\ Held(e)' # s
                                           /\ call'[e].step \in {"refresh", "reading"} =>
                                                call'[e].carry.refresh # s
      BY DEF RotatedGone
    <2>0. s # 0
      BY DEF RowsGrow
    <2>1. CASE s = t
      <3>1. /\ c \in Refreshing /\ call[c].carry.refresh = s
            /\ call'[c].step = "refreshed" /\ call'[c].carry.refresh = s
        BY <2>0, <2>1, RefreshingStep
      <3>2. Succeeded(s)'
        BY <1>b, <3>1 DEF Succeeded
      <3>3. legacy # s
        BY <2>0, <3>1 DEF LegacyApart, Untangled
      <3>4. \A e \in Call : Held(e) # s
        BY <2>0, <3>1 DEF AnswersNew, Untangled
      <3>5. \A e \in Call : Held(e)' # s
        BY <1>0, <1>b, <3>1, <3>4
      <3>6. \A e \in Call : call'[e].step \in {"refresh", "reading"} =>
                            call'[e].carry.refresh # s
        BY <3>1 DEF OneBearer, Untangled, Refreshing
      <3> QED
        BY <3>2, <3>3, <3>5, <3>6
    <2>2. CASE s # t
      <3>1. s \in 1..Len(rows) /\ Rotated(s)
        BY <2>2, RotatedBefore
      <3>2. /\ legacy # s /\ (jar.refresh = s => Succeeded(s))
            /\ \A e \in Call : /\ Held(e) # s
                               /\ call[e].step \in {"refresh", "reading"} =>
                                    call[e].carry.refresh # s
        BY <3>1 DEF RotatedGone, Untangled
      <3>3. Succeeded(s) => Succeeded(s)'
        <4> SUFFICES ASSUME NEW d \in Call, call[d].step = "refreshed",
                            call[d].carry.refresh = s, Held(d) # 0
                     PROVE  Succeeded(s)'
          BY DEF Succeeded
        <4>1. call'[d] = call[d] /\ Held(d)' = Held(d)
          BY <1>0
        <4> QED
          BY <4>1 DEF Succeeded
      <3>4. \A e \in Call : Held(e)' # s
        BY <1>0, <1>b, <3>1, <3>2
      <3>5. \A e \in Call : call'[e].step \in {"refresh", "reading"} =>
                            call'[e].carry.refresh # s
        BY <3>2
      <3> QED
        BY <3>2, <3>3, <3>4, <3>5
    <2> QED
      BY <2>1, <2>2
  <1> QED
    BY <1>1, <1>2, <1>3, <1>4, <1>5 DEF Untangled

LEMMA StartTokens ==
  ASSUME CallInv, Untangled, NEW c \in Call,
         Read(c) \/ Login(c) \/ Logoff(c) \/ Recheck(c)
  PROVE  Untangled'
  <1>0. TypeOK
    BY DEF CallInv
  <1>1. PICK op : Request(c, op, jar)
    BY DEF Read, Login, Logoff, Recheck
  <1>2. Becomes(c, op, "sent", jar, "none", Keep, call[c].retried, call[c].rotations)
    BY <1>0, <1>1, RequestBecomes
  <1>3. /\ rows' = rows /\ jar' = jar /\ legacy' \in {0, legacy} /\ replayed' = replayed
        /\ call[c].step = "new"
    BY DEF Read, Login, Logoff, Recheck, browser, server
  <1>4. Held(c)' = 0 /\ c \notin Refreshing'
    BY <1>2, RefreshingStep DEF Becomes, Held, Keep, Empty
  <1>5. RowsGrow(0)
    BY <1>0, <1>3, RowsStay
  <1>6. \A d \in Call \ {c} : call'[d] = call[d]
    BY <1>2 DEF Becomes
  <1>7. call'[c].step = "sent"
    BY <1>2 DEF Becomes
  <1> QED
    BY <1>3, <1>4, <1>5, <1>6, <1>7, QuietTokens

\* A call that ends, or asks again without a refresh, and leaves the jar alone.
LEMMA DoneTokens ==
  ASSUME CallInv, Untangled, rows' = rows, NEW c \in Call,
         NEW op, NEW j, Finish(c) \/ Request(c, op, j),
         call[c].step = "refreshed" => Held(c) = 0,
         jar' = jar, legacy' \in {0, legacy}, replayed' = replayed
  PROVE  Untangled'
  <1>0. TypeOK
    BY DEF CallInv
  <1>1. \/ Becomes(c, "none", "done", Empty, "none", Keep, FALSE, call[c].rotations)
        \/ Becomes(c, op, "sent", j, "none", Keep, call[c].retried, call[c].rotations)
    BY <1>0, FinishBecomes, RequestBecomes
  <1>2. /\ Held(c)' = 0 /\ call'[c].step \in {"sent", "done"}
        /\ \A d \in Call \ {c} : call'[d] = call[d]
    BY <1>1 DEF Becomes, Held, Keep, Empty
  <1>3. RowsGrow(0) /\ c \notin Refreshing'
    BY <1>0, <1>2, RowsStay, RefreshingStep
  <1> QED
    BY <1>2, <1>3, QuietTokens

\* The same where the answer's cookies are put into the jar.
LEMMA StoredTokens ==
  ASSUME CallInv, Untangled, rows' = rows, NEW c \in Call,
         \A d \in Call \ {c} : call'[d] = call[d],
         Held(c)' = 0, call'[c].step \in {"sent", "done"},
         call[c].step \in {"got", "refreshed"},
         jar' = Stored(c), legacy' = legacy, replayed' = replayed
  PROVE  Untangled'
  <1>0. TypeOK /\ CallHolds(call[c])
    BY DEF CallInv
  <1>1. RowsGrow(0) /\ c \notin Refreshing'
    BY <1>0, RowsStay, RefreshingStep
  <1>2. CASE call[c].cookies.set
    BY <1>1, <1>2, JarTakes DEF Stored, Held
  <1>3. CASE ~call[c].cookies.set
    <2>1. jar' = jar
      BY <1>3 DEF Stored
    <2>2. call[c].step # "refreshed"
      BY <1>0, <1>3 DEF CallHolds, Clear
    <2> QED
      BY <1>1, <2>1, <2>2, QuietTokens
  <1> QED
    BY <1>2, <1>3

LEMMA CheckStatusTokens ==
  ASSUME CallInv, Untangled, NEW c \in Call, CheckStatus(c), ~overlap'
  PROVE  Untangled'
  <1>0. /\ TypeOK /\ rows' = rows /\ jar' = jar /\ legacy' = 0 /\ replayed' = replayed
        /\ call[c].step = "new"
    BY DEF CallInv, CheckStatus, server
  <1>1. CASE legacy = 0
    BY <1>0, <1>1, DoneTokens DEF CheckStatus, Confirm
  <1>2. CASE legacy # 0
    <2> DEFINE t == IF jar.refresh # 0 THEN jar.refresh ELSE legacy
    <2>1. RequestRefresh(c, "migrate", t)
      BY <1>2 DEF CheckStatus
    <2>2. \A d \in Refreshing : call[d].carry.refresh # t
      BY <2>1 DEF RequestRefresh
    <2>3. Becomes(c, "migrate", "refresh", [access |-> 0, refresh |-> t], "none", Keep,
                  call[c].retried, call[c].rotations)
      BY <1>0, <2>1, RequestRefreshBecomes
    <2>4. /\ Held(c)' = 0 /\ call'[c].carry.refresh = t
          /\ \A d \in Call \ {c} : call'[d] = call[d]
      BY <2>3 DEF Becomes, Held, Keep, Empty
    <2>5. c \in Call \ Refreshing /\ (t = jar.refresh \/ t = legacy)
      BY <1>0, RefreshingStep
    <2> HIDE DEF t
    <2> QED
      BY <1>0, <2>2, <2>4, <2>5, TokenTaken
  <1> QED
    BY <1>1, <1>2

LEMMA ServeTokens ==
  ASSUME CallInv, Untangled, NEW c \in Call, Serve(c)
  PROVE  Untangled'
  <1>0. /\ TypeOK /\ CallHolds(call[c]) /\ call[c].step = "sent"
        /\ jar' = jar /\ legacy' = legacy /\ replayed' = replayed
        /\ Held(c) = 0 /\ RowsGrow(0)
    <2>1. /\ TypeOK /\ CallHolds(call[c]) /\ call[c].step = "sent"
          /\ jar' = jar /\ legacy' = legacy /\ replayed' = replayed
      BY DEF CallInv, Serve, browser, history
    <2>2. Held(c) = 0
      BY <2>1 DEF CallHolds, Held, Keep, Empty
    <2>3. RowsGrow(0)
      BY ServeKeeps
    <2> QED
      BY <2>1, <2>2, <2>3
  <1>1. \/ \E code, ck : Answer(c, code, ck) /\ ck \in {Keep, Clear}
        \/ /\ rows' = Append(rows, [session |-> Len(rows) + 1, state |-> "active"])
           /\ Answer(c, "ok", SetSession(Len(rows) + 1, Len(rows) + 1))
    <2>1. call[c].op \in {"read", "status", "login", "logoff"}
      BY <1>0 DEF CallHolds
    <2>2. CASE call[c].op = "status"
      BY <2>2 DEF Serve, ServeStatus
    <2>3. CASE call[c].op = "read"
      BY <2>3 DEF Serve, ServeRead
    <2>4. CASE call[c].op = "login"
      BY <2>4 DEF Serve, ServeLogin
    <2>5. CASE call[c].op = "logoff"
      BY <2>5 DEF Serve, ServeLogoff
    <2> QED
      BY <2>1, <2>2, <2>3, <2>4, <2>5
  <1>2. CASE \E code, ck : Answer(c, code, ck) /\ ck \in {Keep, Clear}
    <2>1. PICK code, ck : Answer(c, code, ck) /\ ck \in {Keep, Clear}
      BY <1>2
    <2>2. Becomes(c, call[c].op, "got", Empty, code, ck, call[c].retried,
                  call[c].rotations)
      BY <1>0, <2>1, AnswerBecomes
    <2>3. /\ Held(c)' = 0 /\ call'[c].step = "got"
          /\ \A d \in Call \ {c} : call'[d] = call[d]
      BY <2>1, <2>2 DEF Becomes, Held, Keep, Clear, Empty
    <2>4. c \notin Refreshing'
      BY <2>3, RefreshingStep
    <2> QED
      BY <1>0, <2>3, <2>4, QuietTokens
  <1>3. CASE /\ rows' = Append(rows, [session |-> Len(rows) + 1, state |-> "active"])
             /\ Answer(c, "ok", SetSession(Len(rows) + 1, Len(rows) + 1))
    <2> DEFINE ck == SetSession(Len(rows) + 1, Len(rows) + 1)
    <2>1. ck.to.refresh = Len(rows) + 1
      BY DEF SetSession
    <2>2. Len(rows') = Len(rows) + 1
      BY <1>0, <1>3, RowsAppend
    <2>3. Becomes(c, call[c].op, "got", Empty, "ok", ck, call[c].retried,
                  call[c].rotations)
      BY <1>0, <1>3, AnswerBecomes
    <2> HIDE DEF ck
    <2>4. /\ Held(c)' = Len(rows) + 1 /\ call'[c].step = "got"
          /\ \A d \in Call \ {c} : call'[d] = call[d]
      BY <2>1, <2>3 DEF Becomes, Held
    <2> QED
      BY <1>0, <2>2, <2>4, TokenMade
  <1> QED
    BY <1>1, <1>2, <1>3

\* The refresh route finds a rotated token only when two refreshes carried it.
LEMMA ReadTokenTokens ==
  ASSUME CallInv, Untangled, NEW c \in Call, ReadToken(c)
  PROVE  Untangled'
  <1> DEFINE t == call[c].carry.refresh
  <1>0. /\ TypeOK /\ CallHolds(call[c]) /\ call[c].step = "refresh"
        /\ jar' = jar /\ legacy' = legacy /\ RowsGrow(0)
    BY ReadTokenKeeps DEF CallInv, ReadToken, browser
  <1>1. ~(t \in DOMAIN rows /\ rows[t].state = "rotated")
    BY <1>0, TokenNumbers DEF RotatedGone, Rotated, Untangled
  <1>2. replayed' = replayed
    BY <1>1 DEF ReadToken
  <1>3. Held(c) = 0
    BY <1>0 DEF CallHolds, Held, Keep, Empty
  <1>4. \/ Becomes(c, call[c].op, "reading", call[c].carry, call[c].code,
                   call[c].cookies, call[c].retried, call[c].rotations)
        \/ Becomes(c, call[c].op, "refreshed", call[c].carry, "401", Clear,
                   call[c].retried, call[c].rotations)
    BY <1>0, ReadingBecomes, RefuseBecomes DEF ReadToken
  <1>5. /\ Held(c)' = 0 /\ call'[c].carry = call[c].carry
        /\ \A d \in Call \ {c} : call'[d] = call[d]
    BY <1>3, <1>4 DEF Becomes, Held, Clear, Empty
  <1>6. c \in Refreshing
    BY <1>0, RefreshingStep
  <1> QED
    BY <1>0, <1>2, <1>5, <1>6, QuietTokens

LEMMA RotateTokens ==
  ASSUME CallInv, Untangled, NEW c \in Call, Rotate(c)
  PROVE  Untangled'
  <1> DEFINE t == call[c].carry.refresh
             next == Len(rows) + 1
             ck == SetSession(next, rows[t].session)
  <1>0. /\ TypeOK /\ CallHolds(call[c]) /\ call[c].step = "reading"
        /\ jar' = jar /\ legacy' = legacy /\ replayed' = replayed /\ RowsGrow(t)
    BY RotateKeeps, Zenon DEF CallInv, Rotate, browser, history
  <1>1. CASE Live(t)
    <2>1. /\ rows' = Append([rows EXCEPT ![t].state = "rotated"],
                            [session |-> rows[t].session, state |-> "active"])
          /\ call' = [call EXCEPT
                        ![c].step = "refreshed", ![c].code = "ok",
                        ![c].cookies = ck, ![c].rotations = @ + 1]
      BY <1>1, SMTT(40) DEF Rotate
    <2>2. t \in 1..Len(rows) /\ t # 0
      BY <1>0, <1>1, RowsType DEF Live
    <2>3. Len(rows') = next
      BY <1>0, <2>1, <2>2, RowsRotate, SMTT(40)
    <2>4. Becomes(c, call[c].op, "refreshed", call[c].carry, "ok", ck,
                  call[c].retried, call[c].rotations + 1)
      BY <1>0, <2>1, RotatedBecomes
    <2>5. ck.to.refresh = next
      BY DEF SetSession
    <2> HIDE DEF ck
    <2>6. /\ Held(c)' = next /\ call'[c].step = "refreshed"
          /\ call'[c].carry = call[c].carry
          /\ \A d \in Call \ {c} : call'[d] = call[d]
      BY <2>4, <2>5 DEF Becomes, Held
    <2> QED
      BY <1>0, <2>2, <2>3, <2>6, TokenMade, SMTT(40)
  <1>2. CASE ~Live(t)
    <2>1. Refuse(c) /\ rows' = rows
      BY <1>2 DEF Rotate
    <2>2. Becomes(c, call[c].op, "refreshed", call[c].carry, "401", Clear,
                  call[c].retried, call[c].rotations)
      BY <1>0, <2>1, RefuseBecomes
    <2>3. /\ Held(c)' = 0 /\ call'[c].carry = call[c].carry
          /\ call'[c].step = "refreshed"
          /\ \A d \in Call \ {c} : call'[d] = call[d]
      BY <2>2 DEF Becomes, Held, Clear, Empty
    <2>4. RowsGrow(0) /\ c \in Refreshing
      BY <1>0, <2>1, RowsStay, RefreshingStep
    <2> QED
      BY <1>0, <2>3, <2>4, QuietTokens
  <1> QED
    BY <1>1, <1>2, ZenonT(60)

LEMMA ReceiveTokens ==
  ASSUME CallInv, Untangled, NEW c \in Call, Receive(c), ~overlap'
  PROVE  Untangled'
  <1>0. /\ TypeOK /\ CallHolds(call[c]) /\ call[c].step = "got"
        /\ jar' = Stored(c) /\ rows' = rows /\ legacy' = legacy /\ replayed' = replayed
    BY DEF CallInv, Receive, server
  <1>1. CASE Finish(c) \/ Request(c, "status", jar')
    <2>1. \/ Becomes(c, "none", "done", Empty, "none", Keep, FALSE, call[c].rotations)
          \/ Becomes(c, "status", "sent", jar', "none", Keep, call[c].retried,
                     call[c].rotations)
      BY <1>0, <1>1, FinishBecomes, RequestBecomes
    <2>2. /\ Held(c)' = 0 /\ call'[c].step \in {"sent", "done"}
          /\ \A d \in Call \ {c} : call'[d] = call[d]
      BY <2>1 DEF Becomes, Held, Keep, Empty
    <2> QED
      BY <1>0, <2>2, StoredTokens
  <1>2. CASE RequestRefresh(c, call[c].op, jar'.refresh) /\ call[c].code = "401"
    <2>1. jar' = jar
      BY <1>0, <1>2 DEF CallHolds, Stored, Keep
    <2>2. \A d \in Refreshing : call[d].carry.refresh # jar.refresh
      BY <1>2, <2>1 DEF RequestRefresh
    <2>3. Becomes(c, call[c].op, "refresh", [access |-> 0, refresh |-> jar'.refresh],
                  "none", Keep, call[c].retried, call[c].rotations)
      BY <1>0, <1>2, RequestRefreshBecomes
    <2>4. /\ Held(c)' = 0 /\ call'[c].carry.refresh = jar.refresh
          /\ \A d \in Call \ {c} : call'[d] = call[d]
      BY <2>1, <2>3 DEF Becomes, Held, Keep, Empty
    <2>5. c \in Call \ Refreshing
      BY <1>0, RefreshingStep
    <2> QED
      BY <1>0, <2>1, <2>2, <2>4, <2>5, TokenTaken
  <1>3. \/ Finish(c) \/ Request(c, "status", jar')
        \/ RequestRefresh(c, call[c].op, jar'.refresh) /\ call[c].code = "401"
    BY <1>0 DEF Receive, Succeed, SessionExpired
  <1> QED
    BY <1>1, <1>2, <1>3

LEMMA ReceiveRefreshTokens ==
  ASSUME CallInv, Untangled, NEW c \in Call, ReceiveRefresh(c)
  PROVE  Untangled'
  <1>0. /\ TypeOK /\ call[c].step = "refreshed"
        /\ jar' = Stored(c) /\ rows' = rows /\ legacy' = legacy /\ replayed' = replayed
    BY DEF CallInv, ReceiveRefresh, server, history
  <1>1. \/ Finish(c) \/ Request(c, "status", jar')
        \/ call' = [call EXCEPT ![c].step = "sent", ![c].carry = jar',
                                ![c].retried = TRUE, ![c].cookies = Keep]
    BY ZenonT(60) DEF ReceiveRefresh, Confirm, SessionExpired
  <1>2. \/ Becomes(c, "none", "done", Empty, "none", Keep, FALSE, call[c].rotations)
        \/ Becomes(c, "status", "sent", jar', "none", Keep, call[c].retried,
                   call[c].rotations)
        \/ Becomes(c, call[c].op, "sent", jar', call[c].code, Keep, TRUE,
                   call[c].rotations)
    BY <1>0, <1>1, FinishBecomes, RequestBecomes, RetryBecomes, Zenon
  <1>3. /\ Held(c)' = 0 /\ call'[c].step \in {"sent", "done"}
        /\ \A d \in Call \ {c} : call'[d] = call[d]
    BY <1>2 DEF Becomes, Held, Keep, Empty
  <1> QED
    BY <1>0, <1>3, StoredTokens

LEMMA LoseTokens ==
  ASSUME CallInv, Untangled, NEW c \in Call, Lose(c), ~lost'
  PROVE  Untangled'
  <1>0. /\ rows' = rows /\ jar' = jar /\ legacy' = legacy /\ replayed' = replayed
        /\ Held(c) = 0 /\ (Finish(c) \/ Request(c, "status", jar))
    BY DEF Lose, Confirm, server, Held
  <1> QED
    BY <1>0, DoneTokens

LEMMA TokenNext ==
  ASSUME CallInv, TokenInv, [Next]_vars
  PROVE  TokenInv'
  <1>1. /\ overlap => overlap'
        /\ lost => lost'
    <2>1. CASE \/ UNCHANGED vars \/ Approve \/ AccessExpires
               \/ \E t \in DOMAIN rows : EndElsewhere(t)
      BY <2>1 DEF vars, history, Approve, EndElsewhere, AccessExpires
    <2>2. ASSUME NEW c \in Call, Read(c) \/ Login(c) \/ Logoff(c) \/ Recheck(c)
          PROVE  overlap' = overlap /\ lost' = lost
      BY <2>2, SMTT(40) DEF Read, Login, Logoff, Recheck
    <2>3. ASSUME NEW c \in Call, Serve(c) \/ ReadToken(c) \/ Rotate(c)
          PROVE  overlap' = overlap /\ lost' = lost
      BY <2>3 DEF Serve, ReadToken, Rotate, history
    <2>4. ASSUME NEW c \in Call, CheckStatus(c) \/ Receive(c)
          PROVE  (overlap => overlap') /\ lost' = lost
      BY <2>4 DEF CheckStatus, Receive, RequestRefresh
    <2>5. ASSUME NEW c \in Call, ReceiveRefresh(c) \/ Lose(c)
          PROVE  overlap' = overlap /\ (lost => lost')
      <3>1. CASE ReceiveRefresh(c)
        BY <3>1 DEF ReceiveRefresh, history
      <3>2. CASE Lose(c)
        <4>1. lost' = (lost \/ call[c].cookies.to.refresh # 0) /\ overlap' = overlap
          BY <3>2 DEF Lose
        <4> QED
          BY <4>1
      <3> QED
        BY <2>5, <3>1, <3>2
    <2>6. CASE \E c \in Call : \/ Read(c) \/ Login(c) \/ Logoff(c) \/ Recheck(c)
                               \/ CheckStatus(c) \/ Serve(c) \/ ReadToken(c)
                               \/ Rotate(c) \/ Receive(c) \/ ReceiveRefresh(c)
                               \/ Lose(c)
      BY <2>2, <2>3, <2>4, <2>5, <2>6
    <2> QED
      BY <2>1, <2>6 DEF Next
  <1> SUFFICES ASSUME ~overlap', ~lost'
               PROVE  Untangled'
    BY DEF TokenInv
  <1>2. Untangled
    BY <1>1 DEF TokenInv
  <1>3. CASE UNCHANGED vars
    BY <1>2, <1>3, TokensStay, RowsStay
       DEF vars, server, browser, history, CallInv
  <1>4. CASE Approve \/ (\E t \in DOMAIN rows : EndElsewhere(t))
    BY <1>2, <1>4, TokensStay, ElsewhereKeeps
       DEF Approve, EndElsewhere, browser, history
  <1>5. CASE AccessExpires
    <2>1. jar' = [jar EXCEPT !.access = 0] /\ jar \in Cookies
      BY <1>5 DEF AccessExpires, CallInv, TypeOK
    <2>2. jar'.refresh = jar.refresh
      BY <2>1 DEF Cookies
    <2> QED
      BY <1>2, <1>5, <2>2, TokensStay, ElsewhereKeeps DEF AccessExpires, history
  <1>6. CASE \E c \in Call : \/ Read(c) \/ Login(c) \/ Logoff(c) \/ Recheck(c)
                             \/ CheckStatus(c) \/ Serve(c) \/ ReadToken(c)
                             \/ Rotate(c) \/ Receive(c) \/ ReceiveRefresh(c)
                             \/ Lose(c)
    BY <1>2, <1>6, StartTokens, CheckStatusTokens, ServeTokens, ReadTokenTokens,
       RotateTokens, ReceiveTokens, ReceiveRefreshTokens, LoseTokens
  <1> QED
    BY <1>3, <1>4, <1>5, <1>6 DEF Next

LEMMA TokenInit == Init => TokenInv
  <1> SUFFICES ASSUME Init PROVE Untangled
    BY DEF TokenInv
  <1>1. Refreshing = {} /\ \A c \in Call : Held(c) = 0
    BY DEF Init, Refreshing, New, Held, Keep, Empty
  <1>2. legacy # 0 => legacy # jar.refresh
    BY DEF Init, Empty
  <1>3. \A t \in 1..Len(rows) : ~Rotated(t)
    <2>1. CASE rows = <<>>
      BY <2>1
    <2>2. CASE rows = <<[session |-> 1, state |-> "active"]>>
      BY <2>2 DEF Rotated
    <2> QED
      BY <2>1, <2>2 DEF Init
  <1>4. ~replayed
    BY DEF Init
  <1> QED
    BY <1>1, <1>2, <1>3, <1>4 DEF Untangled, OneBearer, OneAnswer, AnswersNew,
       LegacyApart, RotatedGone

\* AuthService#refresh and ApiClient, with any number of calls: the route takes
\* a token for stolen only if two refreshes carried it at once, or an answer
\* with a new token was lost.
THEOREM ReplaysExplained == Spec => []ReplayExplained
  <1>1. TokenInv => ReplayExplained
    BY DEF TokenInv, Untangled, ReplayExplained
  <1> QED
    BY <1>1, CallInit, CallNext, TokenInit, TokenNext, PTL DEF Spec

=============================================================================
