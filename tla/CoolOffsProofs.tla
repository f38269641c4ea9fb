---------------------------- MODULE CoolOffsProofs --------------------------
(***************************************************************************)
(* Proofs about CoolOffs, for any number of attempts at once: type         *)
(* correctness, that a lock-out is explained by attempts of the user's     *)
(* own, that a token GitHub issued is returned or revoked, and that what   *)
(* counts against the user is what GitHub said of the credential.          *)
(***************************************************************************)
EXTENDS CoolOffs, FiniteSetTheorems, TLAPS

-----------------------------------------------------------------------------
(* Type correctness.                                                       *)

\* An idle slot is a handler.
LEMMA IdleType == Idle \in Handler
  <1>1. NoResponse \in Response
    BY DEF NoResponse, Response, Status, Body
  <1>2. 1 \in 1..MaxPages
    BY CoolOffAssumption
  <1> QED
    BY <1>1, <1>2 DEF Idle, Handler, PC, Result

\* Every classification of a response is a result.
LEMMA AnswerTypes ==
  ASSUME NEW r \in Response
  PROVE  /\ ExchangeError(r) \in DomainError
         /\ LoginOf(r) \in DomainError \cup {"ok"}
         /\ Identify(r) \in DomainError \cup {"ok"}
         /\ PageOf(r) \in DomainError \cup {"ok"}
  BY DEF ExchangeError, LoginOf, Identify, PageOf, UserError, DomainError

\* And so is the classification of a check of an installation.
LEMMA CheckType ==
  ASSUME NEW check
  PROVE  VerifyCheck(check) \in DomainError \cup {"ok"}
  BY DEF VerifyCheck, DomainError

\* pickInstallation returns an installation or one of two results.
LEMMA PickType ==
  ASSUME NEW listed \in SUBSET Installation,
         NEW claimed \in Installation \cup {None}
  PROVE  PickInstallation(listed, claimed, None)
           \in Installation \cup {"several", "inaccessible"}
  <1>1. Cardinality(listed) = 1 => listed # {}
    BY FS_EmptySet
  <1>2. listed # {} => (CHOOSE i \in listed : TRUE) \in listed
    OBVIOUS
  <1> QED
    BY <1>1, <1>2 DEF PickInstallation

\* The responses to a call are responses.
LEMMA ResponseType ==
  ASSUME NEW call, NEW r \in ResponsesTo(call)
  PROVE  r \in Response
  BY DEF ResponsesTo

\* A step that gives a slot a handler keeps the slots' type.
LEMMA GotoType ==
  ASSUME TypeOK, NEW h \in Slot, NEW v \in Handler, Goto(h, v)
  PROVE  hs' \in [Slot -> Handler]
  BY DEF TypeOK, Goto

\* Ending with a result keeps a handler's type.
LEMMA EndType ==
  ASSUME NEW x \in Handler, NEW r \in Response, NEW result \in Result
  PROVE  EndWith(x, r, result) \in Handler
  BY DEF EndWith, Handler, PC

\* Each statement on the counter keeps its type.
LEMMA LockType ==
  ASSUME TypeOK, NEW at \in Nat
  PROVE  /\ ReserveAttempt(at) => lock' \in Lockout
         /\ ReleaseAttempt => lock' \in Lockout
         /\ ResetAttempts => lock' \in Lockout
  <1>1. lock.failed + 1 \in Nat /\ at + LockTime \in Nat
    BY CoolOffAssumption DEF TypeOK, Lockout
  <1>2. lock.failed \in Nat /\ (lock.failed # 0 => lock.failed - 1 \in Nat)
    BY DEF TypeOK, Lockout
  <1> QED
    BY <1>1, <1>2 DEF ReserveAttempt, ReleaseAttempt, ResetAttempts, Lockout

\* A step of a handler keeps the type invariant.
LEMMA StepType ==
  ASSUME TypeOK, NEW h \in Slot, Step(h)
  PROVE  TypeOK'
  <1>0. /\ hs[h] \in Handler /\ now \in Nat /\ kept \in Nat
        /\ hs[h].found \in SUBSET Installation
        /\ hs[h].claimed \in Installation \cup {None}
        /\ hs[h].page \in 1..MaxPages /\ hs[h].at \in Nat
        /\ hs[h].fresh \in BOOLEAN
    BY DEF TypeOK, Handler
  <1>a. ASSUME NEW v \in Handler, Goto(h, v), UNCHANGED <<lock, now, kept>>
        PROVE  TypeOK'
    BY <1>a, GotoType DEF TypeOK
  <1>1. ASSUME NEW op \in Ops, NEW cands \in SUBSET Installation,
               NEW i \in Installation \cup {None}, Attempt(h, op, cands, i)
        PROVE  TypeOK'
    <2>1. Begin(op) \in Handler
      BY <1>0, IdleType, ZenonT(60) DEF Begin, Handler, PC
    <2>2. [Begin(op) EXCEPT !.found = cands, !.claimed = i] \in Handler
      BY <2>1 DEF Handler
    <2> QED
      BY <1>1, <1>a, <2>2 DEF Attempt
  <1>2. CASE Reserve(h)
    <2>1. FirstCall(hs[h]) \in Handler
      BY <1>0, ZenonT(60) DEF FirstCall, Handler, PC, Result, DomainError
    <2>2. [FirstCall(hs[h]) EXCEPT !.fresh = TRUE] \in Handler
      BY <2>1 DEF Handler
    <2>3. hs' \in [Slot -> Handler]
      BY <1>2, <2>2, IdleType, GotoType DEF Reserve
    <2>4. lock' \in Lockout
      BY <1>0, <1>2, LockType DEF Reserve, TypeOK
    <2> QED
      BY <1>2, <2>3, <2>4 DEF Reserve, TypeOK
  <1>3. ASSUME NEW r \in ResponsesTo("exchange"), Exchange(h, r)
        PROVE  TypeOK'
    <2> DEFINE x == [hs[h] EXCEPT !.token = IF CarriesToken(r) THEN "held"
                                                               ELSE "none"]
    <2>1. x \in Handler /\ [x EXCEPT !.pc = "user"] \in Handler
      BY <1>0, ZenonT(60) DEF Handler, PC
    <2>2. EndWith(x, r, ExchangeError(r)) \in Handler
      BY <2>1, ResponseType, AnswerTypes, EndType DEF Result
    <2> QED
      BY <1>3, <1>a, <2>1, <2>2 DEF Exchange
  <1>4. ASSUME NEW r \in ResponsesTo("user"), AskUser(h, r)
        PROVE  TypeOK'
    <2>0. r \in Response
      BY ResponseType
    <2>1. /\ EndWith(hs[h], r, LoginOf(r)) \in Handler
          /\ EndWith(hs[h], r, Identify(r)) \in Handler
      BY <1>0, <2>0, AnswerTypes, EndType DEF Result
    <2>2. [hs[h] EXCEPT !.pc = "pages"] \in Handler
      BY <1>0 DEF Handler, PC
    <2>3. [hs[h] EXCEPT !.pc = "settle", !.result = "ok", !.last = r,
                        !.token = IF hs[h].op = "oauth" THEN "kept" ELSE "none"]
            \in Handler
      BY <1>0, <2>0, ZenonT(60) DEF Handler, PC, Result
    <2> QED
      BY <1>4, <1>a, <2>1, <2>2, <2>3 DEF AskUser
  <1>5. ASSUME NEW r \in ResponsesTo("page"),
               NEW entries \in SUBSET Installation, NEW next \in BOOLEAN,
               ListPage(h, r, entries, next)
        PROVE  TypeOK'
    <2>0. r \in Response
      BY ResponseType
    <2> DEFINE more == [hs[h] EXCEPT !.found = @ \cup entries]
    <2>1. EndWith(hs[h], r, PageOf(r)) \in Handler
      BY <1>0, <2>0, AnswerTypes, EndType DEF Result
    <2>2. more \in Handler /\ more.page = hs[h].page
      BY <1>0 DEF Handler
    <2>3. [more EXCEPT !.pc = "revoke", !.last = r] \in Handler
      BY <2>0, <2>2 DEF Handler, PC
    <2>4. ASSUME hs[h].page < MaxPages
          PROVE  [more EXCEPT !.page = @ + 1] \in Handler
      <3>1. hs[h].page + 1 \in 1..MaxPages
        BY <1>0, <2>4, CoolOffAssumption
      <3> HIDE DEF more
      <3> QED
        BY <2>2, <3>1 DEF Handler
    <2> QED
      BY <1>5, <1>a, <2>1, <2>3, <2>4 DEF ListPage
  <1>6. CASE RevokeToken(h)
    <2> DEFINE x == [hs[h] EXCEPT !.token = "gone"]
               picked == PickInstallation(x.found, x.claimed, None)
    <2>1. x \in Handler /\ x.found = hs[h].found /\ x.claimed = hs[h].claimed
      BY <1>0 DEF Handler
    <2>2. picked \notin Installation => picked \in Result
      BY <1>0, <2>1, PickType DEF Result, DomainError
    <2>3. /\ [x EXCEPT !.pc = "settle"] \in Handler
          /\ [x EXCEPT !.pc = "lookup"] \in Handler
      BY <2>1 DEF Handler, PC
    <2>4. picked \notin Installation =>
            [x EXCEPT !.pc = "settle", !.result = picked] \in Handler
      <3> HIDE DEF x, picked
      <3> QED
        BY <2>1, <2>2 DEF Handler, PC
    <2> QED
      BY <1>6, <1>a, <2>3, <2>4 DEF RevokeToken
  <1>7. ASSUME NEW call, NEW r \in ResponsesTo(call), AskInstallation(h, r)
        PROVE  TypeOK'
    <2>0. r \in Response
      BY ResponseType
    <2>1. [hs[h] EXCEPT !.pc = "mint"] \in Handler
      BY <1>0 DEF Handler, PC
    <2>2. ASSUME NEW check
          PROVE  [hs[h] EXCEPT !.pc = "settle", !.last = r,
                               !.result = VerifyCheck(check)] \in Handler
      <3>1. VerifyCheck(check) \in Result
        BY CheckType DEF Result
      <3> QED
        BY <1>0, <2>0, <3>1 DEF Handler, PC
    <2> QED
      BY <1>7, <1>a, <2>1, <2>2 DEF AskInstallation
  <1>8. CASE Settle(h)
    <2>1. hs' \in [Slot -> Handler]
      BY <1>8, IdleType, ZenonT(60) DEF Settle, TypeOK, Handler
    <2>2. lock' \in Lockout
      BY <1>0, <1>8, LockType DEF Settle, TypeOK
    <2>3. kept' \in Nat
      BY <1>0, <1>8 DEF Settle
    <2> QED
      BY <1>8, <2>1, <2>2, <2>3 DEF Settle, TypeOK
  <1>9. CASE Crash(h)
    BY <1>0, <1>9, IdleType, GotoType DEF Crash, TypeOK
  <1> QED
    BY <1>1, <1>2, <1>3, <1>4, <1>5, <1>6, <1>7, <1>8, <1>9 DEF Step

\* IntegrationCredentialAbuseGuardService and the attempts around it: every
\* variable keeps its type; the counter never goes below zero.
THEOREM TypeCorrect == Spec => []TypeOK
  <1>1. Init => TypeOK
    BY IdleType DEF Init, TypeOK, Lockout
  <1>2. TypeOK /\ [Next]_vars => TypeOK'
    <2> SUFFICES ASSUME TypeOK, [Next]_vars PROVE TypeOK'
      OBVIOUS
    <2>1. ASSUME NEW h \in Slot, Step(h) PROVE TypeOK'
      BY <2>1, StepType
    <2>2. CASE Tick
      BY <2>2 DEF Tick, TypeOK
    <2>3. CASE UNCHANGED vars
      BY <2>3 DEF vars, TypeOK
    <2> QED
      BY <2>1, <2>2, <2>3 DEF Next
  <1> QED
    BY <1>1, <1>2, PTL DEF Spec

-----------------------------------------------------------------------------
(* The calls to GitHub: what each step makes of its handler.               *)

\* Where the token of a handler is, by the place that it has come to.
TokenState(x) ==
    /\ x.pc \in {"idle", "reserve", "exchange"} => x.token = "none"
    /\ x.pc = "exchange" => x.op \in {"oauth", "callback"}
    /\ x.pc \in {"user", "pages", "lookup", "mint"} => x.result = "none"
    /\ x.pc \in {"idle", "reserve", "exchange"} => x.result = "none"
    /\ x.pc = "user" => \/ x.op = "pat" /\ x.token = "none"
                        \/ x.op \in {"oauth", "callback"} /\ x.token = "held"
    /\ x.pc = "pages" => x.op = "callback" /\ x.token = "held"
    /\ x.pc = "revoke" => /\ x.op \in {"oauth", "callback"}
                          /\ x.result # "ok"
                          /\ x.result = "none" => x.op = "callback"
    /\ x.pc \in {"lookup", "mint"} => /\ x.op \in {"callback", "select"}
                                      /\ x.token \in {"none", "gone"}
    /\ x.pc = "settle" => /\ x.token # "held"
                          /\ x.token = "kept" <=> x.op = "oauth" /\ x.result = "ok"

\* The steps that wait for an answer of GitHub.
Asks(h) ==
    \/ \E r \in ResponsesTo("exchange") : Exchange(h, r)
    \/ \E r \in ResponsesTo("user") : AskUser(h, r)
    \/ \E r \in ResponsesTo("page"), entries \in SUBSET Installation,
          next \in BOOLEAN : ListPage(h, r, entries, next)
    \/ \E r \in ResponsesTo("lookup") : At(h, "lookup") /\ AskInstallation(h, r)
    \/ \E r \in ResponsesTo("mint") : At(h, "mint") /\ AskInstallation(h, r)
    \/ RevokeToken(h)

\* The handler goes on as v, with its reservation and a token accounted for.
Answered(h, v) ==
    /\ Goto(h, v)
    /\ v.fresh = hs[h].fresh /\ v.pc \notin {"idle", "reserve"}
    /\ TokenState(hs[h]) => TokenState(v)

\* Ending with an error keeps the reservation; a held token is revoked next.
LEMMA EndState ==
  ASSUME NEW x \in Handler, NEW r, NEW result \in DomainError,
         x.token = "none" \/ (x.token = "held" /\ x.op \in {"oauth", "callback"})
  PROVE  /\ EndWith(x, r, result).fresh = x.fresh
         /\ EndWith(x, r, result).pc \in {"revoke", "settle"}
         /\ TokenState(EndWith(x, r, result))
  BY DEF EndWith, TokenState, Handler, DomainError

\* Each answer moves its handler on and changes nothing else.
LEMMA AnswerStep ==
  ASSUME TypeOK, NEW h \in Slot, Asks(h)
  PROVE  (\E v : Answered(h, v)) /\ UNCHANGED <<lock, now, kept>>
  <1>0. hs[h] \in Handler
    BY DEF TypeOK
  <1>1. ASSUME NEW r \in ResponsesTo("exchange"), Exchange(h, r)
        PROVE  \E v : Answered(h, v)
    <2> DEFINE x == [hs[h] EXCEPT !.token = IF CarriesToken(r) THEN "held"
                                                               ELSE "none"]
    <2>0. hs[h].pc = "exchange"
      BY <1>1 DEF Exchange, At
    <2>1. x \in Handler /\ x.op = hs[h].op /\ x.fresh = hs[h].fresh
      BY <1>0 DEF Handler
    <2>2. CASE ExchangedToken(r)
      <3> DEFINE v == [x EXCEPT !.pc = "user"]
      <3>1. CarriesToken(r)
        BY <2>2 DEF ExchangedToken, CarriesToken
      <3>2. Answered(h, v)
        BY <1>0, <1>1, <2>0, <2>2, <3>1
           DEF Exchange, Answered, TokenState, Handler
      <3> QED
        BY <3>2
    <2>3. CASE ~ExchangedToken(r)
      <3> DEFINE v == EndWith(x, r, ExchangeError(r))
      <3>0. ExchangeError(r) \in DomainError
        BY ResponseType, AnswerTypes
      <3>1. TokenState(hs[h]) => hs[h].op \in {"oauth", "callback"}
        BY <2>0 DEF TokenState
      <3>2. x.token \in {"none", "held"}
        BY <1>0 DEF Handler
      <3> HIDE DEF x
      <3>3. v.fresh = hs[h].fresh /\ v.pc \notin {"idle", "reserve"}
        BY <2>1 DEF EndWith, Handler
      <3>4. TokenState(hs[h]) => TokenState(v)
        BY <2>1, <3>0, <3>1, <3>2, EndState
      <3>5. Goto(h, v)
        BY <1>1, <2>3 DEF Exchange, x
      <3> QED
        BY <3>3, <3>4, <3>5 DEF Answered
    <2> QED
      BY <2>2, <2>3
  <1>2. ASSUME NEW r \in ResponsesTo("user"), AskUser(h, r)
        PROVE  \E v : Answered(h, v)
    <2> DEFINE result == IF hs[h].op = "callback" THEN LoginOf(r) ELSE Identify(r)
    <2>0. hs[h].pc = "user"
      BY <1>2 DEF AskUser, At
    <2>1. CASE result # "ok"
      <3> DEFINE v == EndWith(hs[h], r, result)
      <3>0. result \in DomainError
        BY <2>1, ResponseType, AnswerTypes
      <3> HIDE DEF result
      <3>1. v.fresh = hs[h].fresh /\ v.pc \notin {"idle", "reserve"}
        BY <1>0 DEF EndWith, Handler
      <3>2. TokenState(hs[h]) => TokenState(v)
        <4> SUFFICES ASSUME TokenState(hs[h]) PROVE TokenState(v)
          OBVIOUS
        <4>1. \/ hs[h].token = "none"
              \/ hs[h].token = "held" /\ hs[h].op \in {"oauth", "callback"}
          BY <2>0 DEF TokenState
        <4>2. CASE hs[h].token = "none"
          BY <1>0, <3>0, <4>2 DEF EndWith, TokenState, Handler, DomainError
        <4>3. CASE hs[h].token = "held" /\ hs[h].op \in {"oauth", "callback"}
          BY <1>0, <3>0, <4>3, EndState
        <4> QED
          BY <4>1, <4>2, <4>3
      <3>3. Goto(h, v)
        BY <1>2, <2>1 DEF AskUser, result
      <3> QED
        BY <3>1, <3>2, <3>3 DEF Answered
    <2>2. CASE result = "ok" /\ hs[h].op = "callback"
      <3> DEFINE v == [hs[h] EXCEPT !.pc = "pages"]
      <3>1. Answered(h, v)
        BY <1>0, <1>2, <2>0, <2>2 DEF AskUser, Answered, TokenState, Handler
      <3> QED
        BY <3>1
    <2>3. CASE result = "ok" /\ hs[h].op # "callback"
      <3> DEFINE v == [hs[h] EXCEPT
                         !.pc = "settle", !.result = "ok", !.last = r,
                         !.token = IF hs[h].op = "oauth" THEN "kept" ELSE "none"]
      <3>1. Answered(h, v)
        BY <1>0, <1>2, <2>0, <2>3 DEF AskUser, Answered, TokenState, Handler
      <3> QED
        BY <3>1
    <2> QED
      BY <2>1, <2>2, <2>3
  <1>3. ASSUME NEW r \in ResponsesTo("page"), NEW entries, NEW next,
               ListPage(h, r, entries, next)
        PROVE  \E v : Answered(h, v)
    <2> DEFINE more == [hs[h] EXCEPT !.found = @ \cup entries]
    <2>0. hs[h].pc = "pages"
      BY <1>3 DEF ListPage, At
    <2>1. CASE PageOf(r) # "ok"
      <3> DEFINE v == EndWith(hs[h], r, PageOf(r))
      <3>0. PageOf(r) \in DomainError
        BY <2>1, ResponseType, AnswerTypes
      <3>1. v.fresh = hs[h].fresh /\ v.pc \notin {"idle", "reserve"}
        BY <1>0 DEF EndWith, Handler
      <3>2. TokenState(hs[h]) => TokenState(v)
        <4> SUFFICES ASSUME TokenState(hs[h]) PROVE TokenState(v)
          OBVIOUS
        <4>1. hs[h].token = "held" /\ hs[h].op \in {"oauth", "callback"}
          BY <2>0 DEF TokenState
        <4> QED
          BY <1>0, <3>0, <4>1, EndState
      <3>3. Goto(h, v)
        BY <1>3, <2>1 DEF ListPage
      <3> QED
        BY <3>1, <3>2, <3>3 DEF Answered
    <2>2. CASE PageOf(r) = "ok" /\ next /\ hs[h].page < MaxPages
      <3> DEFINE v == [more EXCEPT !.page = @ + 1]
      <3>1. Answered(h, v)
        BY <1>0, <1>3, <2>0, <2>2 DEF ListPage, Answered, TokenState, Handler
      <3> QED
        BY <3>1
    <2>3. CASE PageOf(r) = "ok" /\ ~(next /\ hs[h].page < MaxPages)
      <3> DEFINE v == [more EXCEPT !.pc = "revoke", !.last = r]
      <3>1. Answered(h, v)
        BY <1>0, <1>3, <2>0, <2>3 DEF ListPage, Answered, TokenState, Handler
      <3> QED
        BY <3>1
    <2> QED
      BY <2>1, <2>2, <2>3
  <1>4. ASSUME RevokeToken(h)
        PROVE  \E v : Answered(h, v)
    <2> DEFINE x == [hs[h] EXCEPT !.token = "gone"]
               picked == PickInstallation(x.found, x.claimed, None)
    <2>0. hs[h].pc = "revoke"
      BY <1>4 DEF RevokeToken, At
    <2>a. hs[h].found \in SUBSET Installation
          /\ hs[h].claimed \in Installation \cup {None}
      BY <1>0 DEF Handler
    <2>b. x.found = hs[h].found /\ x.claimed = hs[h].claimed
          /\ x.result = hs[h].result
      BY <1>0 DEF Handler
    <2>c. picked \notin Installation => picked \in {"several", "inaccessible"}
      BY <2>a, <2>b, PickType
    <2>1. CASE hs[h].result # "none"
      <3> DEFINE v == [x EXCEPT !.pc = "settle"]
      <3>1. Goto(h, v)
        BY <1>4, <2>1, <2>b DEF RevokeToken
      <3>2. /\ v.fresh = hs[h].fresh /\ v.pc = "settle" /\ v.op = hs[h].op
            /\ v.token = "gone" /\ v.result = hs[h].result
        BY <1>0 DEF Handler
      <3> HIDE DEF v
      <3>3. TokenState(hs[h]) => TokenState(v)
        BY <2>0, <3>2 DEF TokenState
      <3> QED
        BY <3>1, <3>2, <3>3 DEF Answered
    <2>2. CASE hs[h].result = "none" /\ picked \in Installation
      <3> DEFINE v == [x EXCEPT !.pc = "lookup"]
      <3>1. Goto(h, v)
        BY <1>4, <2>2, <2>b DEF RevokeToken
      <3>2. /\ v.fresh = hs[h].fresh /\ v.pc = "lookup" /\ v.op = hs[h].op
            /\ v.token = "gone" /\ v.result = "none"
        BY <1>0, <2>2 DEF Handler
      <3> HIDE DEF v, picked
      <3>3. TokenState(hs[h]) => TokenState(v)
        BY <2>0, <2>2, <3>2 DEF TokenState
      <3> QED
        BY <3>1, <3>2, <3>3 DEF Answered
    <2>3. CASE hs[h].result = "none" /\ picked \notin Installation
      <3> DEFINE v == [x EXCEPT !.pc = "settle", !.result = picked]
      <3>1. Goto(h, v)
        BY <1>4, <2>3, <2>b DEF RevokeToken
      <3>2. /\ v.fresh = hs[h].fresh /\ v.pc = "settle" /\ v.op = hs[h].op
            /\ v.token = "gone" /\ v.result = picked
        <4> HIDE DEF picked
        <4> QED
          BY <1>0 DEF Handler
      <3> HIDE DEF v, picked
      <3>3. TokenState(hs[h]) => TokenState(v)
        BY <2>0, <2>3, <2>c, <3>2 DEF TokenState
      <3> QED
        BY <3>1, <3>2, <3>3 DEF Answered
    <2> QED
      BY <2>1, <2>2, <2>3
  <1>5. ASSUME NEW r, AskInstallation(h, r)
        PROVE  \E v : Answered(h, v)
    <2> DEFINE check == IF hs[h].pc = "lookup" THEN ClassifyLookup(r)
                                               ELSE ClassifyMint(r)
    <2>0. hs[h].pc \in {"lookup", "mint"}
      BY <1>5 DEF AskInstallation
    <2>1. CASE hs[h].pc = "lookup" /\ check = "ok"
      <3> DEFINE v == [hs[h] EXCEPT !.pc = "mint"]
      <3>1. Answered(h, v)
        BY <1>0, <1>5, <2>1 DEF AskInstallation, Answered, TokenState, Handler
      <3> QED
        BY <3>1
    <2>2. CASE ~(hs[h].pc = "lookup" /\ check = "ok")
      <3> DEFINE v == [hs[h] EXCEPT !.pc = "settle", !.last = r,
                                    !.result = VerifyCheck(check)]
      <3>1. Goto(h, v)
        BY <1>5, <2>2 DEF AskInstallation
      <3>2. /\ v.fresh = hs[h].fresh /\ v.pc = "settle" /\ v.op = hs[h].op
            /\ v.token = hs[h].token
        BY <1>0 DEF Handler
      <3> HIDE DEF v
      <3> QED
        BY <2>0, <3>1, <3>2 DEF Answered, TokenState
    <2> QED
      BY <2>1, <2>2
  <1>6. UNCHANGED <<lock, now, kept>>
    BY DEF Asks, Exchange, AskUser, ListPage, RevokeToken, AskInstallation
  <1> QED
    BY <1>1, <1>2, <1>3, <1>4, <1>5, <1>6 DEF Asks

-----------------------------------------------------------------------------
(* The lock-out.                                                           *)

\* The lock of the row goes with a count that has reached the maximum, and
\* only a handler that has reserved is in the count.
LockInv ==
    /\ CountExplained
    /\ lock.until # 0 => lock.failed >= MaxAttempts
    /\ \A h \in Slot : hs[h].pc \in {"idle", "reserve"} => ~hs[h].fresh

\* The open reservations are finite, and so is what they become.
LEMMA FreshFinite ==
  ASSUME TypeOK
  PROVE  IsFiniteSet(Fresh) /\ Cardinality(Fresh) \in Nat
  <1>1. Fresh \subseteq Slot
    BY DEF Fresh
  <1> QED
    BY <1>1, CoolOffAssumption, FS_Subset, FS_CardinalityType

\* A step that keeps the slot's reservation keeps the open ones.
LEMMA SameFresh ==
  ASSUME TypeOK, NEW h \in Slot, NEW v, Goto(h, v), v.fresh = hs[h].fresh
  PROVE  Fresh' = Fresh
  BY DEF TypeOK, Goto, Fresh

\* Ending a handler takes its reservation out of the open ones.
LEMMA LessFresh ==
  ASSUME TypeOK, NEW h \in Slot, Fresh' = Fresh \ {h}
  PROVE  Cardinality(Fresh') = IF hs[h].fresh THEN Cardinality(Fresh) - 1
                                              ELSE Cardinality(Fresh)
  <1>1. h \in Fresh <=> hs[h].fresh
    BY DEF Fresh
  <1> QED
    BY <1>1, FreshFinite, FS_RemoveElement

\* A step that changes neither the counter nor the reservation of its slot.
LEMMA LockKept ==
  ASSUME TypeOK, LockInv, NEW h \in Slot, NEW v, Goto(h, v),
         v.fresh = hs[h].fresh, v.pc \in {"idle", "reserve"} => ~v.fresh,
         UNCHANGED <<lock, kept>>
  PROVE  LockInv'
  <1>1. Fresh' = Fresh
    BY SameFresh
  <1>2. CountExplained'
    BY <1>1 DEF LockInv, CountExplained
  <1>3. \A g \in Slot : hs'[g].pc \in {"idle", "reserve"} => ~hs'[g].fresh
    BY DEF LockInv, TypeOK, Goto
  <1> QED
    BY <1>2, <1>3 DEF LockInv

\* The two steps that end a handler with its reservation counted, or given
\* back, or with the counter reset.
LEMMA LockEnd ==
  ASSUME TypeOK, LockInv, NEW h \in Slot, Settle(h) \/ Crash(h)
  PROVE  LockInv'
  <1> USE DEF Lockout
  <1>0. lock.failed \in Nat /\ kept \in Nat /\ Cardinality(Fresh) \in Nat
    BY FreshFinite DEF TypeOK
  <1>1. Idle.pc = "idle" /\ Idle.fresh = FALSE
    BY DEF Idle
  <1>a. ASSUME Fresh' = Fresh \ {h},
               kept' = IF hs[h].fresh THEN kept + 1 ELSE kept
        PROVE  kept' + Cardinality(Fresh') = kept + Cardinality(Fresh)
    <2>1. Cardinality(Fresh') = IF hs[h].fresh THEN Cardinality(Fresh) - 1
                                               ELSE Cardinality(Fresh)
      BY <1>a, LessFresh
    <2>2. CASE hs[h].fresh
      BY <1>0, <1>a, <2>1, <2>2
    <2>3. CASE ~hs[h].fresh
      BY <1>0, <1>a, <2>1, <2>3
    <2> QED
      BY <2>2, <2>3
  <1>2. CASE Crash(h)
    <2>1. Fresh' = Fresh \ {h}
      BY <1>1, <1>2 DEF Crash, Goto, Fresh, TypeOK
    <2>2. kept' + Cardinality(Fresh') = kept + Cardinality(Fresh)
      BY <1>0, <1>2, <2>1, <1>a DEF Crash
    <2>a. CountExplained'
      BY <1>0, <1>2, <2>2 DEF Crash, LockInv, CountExplained
    <2>3. \A g \in Slot : hs'[g].pc \in {"idle", "reserve"} => ~hs'[g].fresh
      BY <1>1, <1>2 DEF Crash, Goto, LockInv, TypeOK
    <2> QED
      BY <1>2, <2>a, <2>3 DEF Crash, LockInv
  <1>3. CASE Settle(h)
    <2> DEFINE result == hs[h].result
    <2>0. CountsTowardCoolOff(result) => result # "ok"
      BY DEF CountsTowardCoolOff
    <2>1. \A g \in Slot : /\ hs'[g].fresh => hs[g].fresh /\ g # h
                          /\ hs'[g].pc = IF g = h THEN "idle" ELSE hs[g].pc
      BY <1>1, <1>3 DEF Settle, TypeOK, Handler
    <2>2. \A g \in Slot : hs'[g].pc \in {"idle", "reserve"} => ~hs'[g].fresh
      BY <2>1 DEF LockInv
    <2>3. CASE result = "ok"
      <3>1. lock' = [failed |-> 0, until |-> 0] /\ kept' = 0
        BY <1>3, <2>0, <2>3 DEF Settle, ResetAttempts
      <3>2. Fresh' \subseteq Slot
        BY DEF Fresh
      <3>3. Cardinality(Fresh') \in Nat
        BY <3>2, CoolOffAssumption, FS_Subset, FS_CardinalityType
      <3> QED
        BY <2>2, <3>1, <3>3 DEF LockInv, CountExplained
    <2>4. CASE result # "ok"
      <3>1. Fresh' = Fresh \ {h}
        BY <1>1, <1>3, <2>4 DEF Settle, Fresh, TypeOK, Handler
      <3>2. CASE CountsTowardCoolOff(result)
        <4>1. lock' = lock /\ kept' = IF hs[h].fresh THEN kept + 1 ELSE kept
          BY <1>3, <2>4, <3>2 DEF Settle
        <4>a. kept' + Cardinality(Fresh') = kept + Cardinality(Fresh)
          BY <1>a, <3>1, <4>1
        <4>2. CountExplained'
          BY <4>1, <4>a DEF LockInv, CountExplained
        <4> QED
          BY <2>2, <4>1, <4>2 DEF LockInv
      <3>3. CASE ~CountsTowardCoolOff(result)
        <4>1. ReleaseAttempt /\ kept' = kept
          BY <1>3, <2>4, <3>3 DEF Settle
        <4>2. /\ lock'.failed = IF lock.failed = 0 THEN 0 ELSE lock.failed - 1
              /\ lock'.until = 0
          BY <4>1 DEF ReleaseAttempt
        <4>3. Cardinality(Fresh') >= 0
          <5>1. Fresh' \subseteq Slot
            BY DEF Fresh
          <5> QED
            BY <5>1, CoolOffAssumption, FS_Subset, FS_CardinalityType
        <4>4. CountExplained'
          BY <1>0, <3>1, <4>1, <4>2, <4>3, LessFresh DEF LockInv, CountExplained
        <4> QED
          BY <2>2, <4>2, <4>4 DEF LockInv
      <3> QED
        BY <3>2, <3>3
    <2> QED
      BY <2>3, <2>4
  <1> QED
    BY <1>2, <1>3

\* reserveAttempt.
LEMMA LockReserve ==
  ASSUME TypeOK, LockInv, NEW h \in Slot, Reserve(h)
  PROVE  LockInv'
  <1>0. /\ hs[h] \in Handler /\ hs[h].pc = "reserve" /\ ~hs[h].fresh
        /\ lock.failed \in Nat
    BY DEF Reserve, At, LockInv, TypeOK, Lockout
  <1>1. CASE lock.until > hs[h].at
    <2>1. Goto(h, Idle) /\ UNCHANGED <<lock, kept>>
      BY <1>1 DEF Reserve
    <2>2. Idle.fresh = hs[h].fresh /\ ~Idle.fresh
      BY <1>0 DEF Idle, Handler
    <2> QED
      BY <2>1, <2>2, LockKept
  <1>2. CASE ~(lock.until > hs[h].at)
    <2> DEFINE v == [FirstCall(hs[h]) EXCEPT !.fresh = TRUE]
    <2>1. v.fresh = TRUE /\ v.pc \notin {"idle", "reserve"}
      BY <1>0 DEF FirstCall, Handler
    <2>2. ReserveAttempt(hs[h].at) /\ Goto(h, v) /\ kept' = kept
      BY <1>2 DEF Reserve
    <2> HIDE DEF v
    <2>3. Fresh' = Fresh \cup {h} /\ h \notin Fresh
      BY <1>0, <2>1, <2>2 DEF Goto, Fresh, TypeOK
    <2>4. Cardinality(Fresh') = Cardinality(Fresh) + 1
      BY <2>3, FreshFinite, FS_AddElement
    <2>5. /\ lock'.failed = lock.failed + 1
          /\ lock'.until # 0 => lock'.failed >= MaxAttempts
      BY <2>2 DEF ReserveAttempt
    <2>6. CountExplained'
      BY <1>0, <2>2, <2>4, <2>5, FreshFinite
         DEF LockInv, CountExplained, TypeOK
    <2>7. \A g \in Slot : hs'[g].pc \in {"idle", "reserve"} => ~hs'[g].fresh
      BY <2>1, <2>2 DEF Goto, LockInv, TypeOK
    <2> QED
      BY <2>5, <2>6, <2>7 DEF LockInv
  <1> QED
    BY <1>1, <1>2

\* Every step of a handler keeps the invariant of the lock.
LEMMA LockStep ==
  ASSUME TypeOK, LockInv, NEW h \in Slot, Step(h)
  PROVE  LockInv'
  <1>0. hs[h] \in Handler
    BY DEF TypeOK
  <1>1. ASSUME NEW op \in Ops, NEW cands \in SUBSET Installation,
               NEW i \in Installation \cup {None}, Attempt(h, op, cands, i)
        PROVE  LockInv'
    <2> DEFINE v == [Begin(op) EXCEPT !.found = cands, !.claimed = i]
    <2>1. v.fresh = FALSE /\ hs[h].fresh = FALSE
      BY <1>0, <1>1 DEF Begin, Idle, Attempt, At, LockInv, Handler
    <2> QED
      BY <1>1, <2>1, LockKept DEF Attempt
  <1>2. CASE Reserve(h)
    BY <1>2, LockReserve
  <1>3. CASE Asks(h)
    BY <1>3, AnswerStep, LockKept DEF Answered
  <1>4. CASE Settle(h) \/ Crash(h)
    BY <1>4, LockEnd
  <1> QED
    BY <1>1, <1>2, <1>3, <1>4 DEF Step, Asks

\* RESERVE_ATTEMPT_SQL, RELEASE_ATTEMPT_SQL, reset: a lock-out means that
\* MaxAttempts attempts since the last success failed, died or are open.
THEOREM LocksJustified == Spec => []LockJustified
  <1>1. Init => LockInv
    <2> SUFFICES ASSUME Init PROVE LockInv
      OBVIOUS
    <2>1. Fresh = {}
      BY DEF Init, Fresh, Idle
    <2> QED
      BY <2>1, FS_EmptySet DEF Init, LockInv, CountExplained, Idle
  <1>2. TypeOK /\ LockInv /\ [Next]_vars => LockInv'
    <2> SUFFICES ASSUME TypeOK, LockInv, [Next]_vars PROVE LockInv'
      OBVIOUS
    <2>1. ASSUME NEW h \in Slot, Step(h) PROVE LockInv'
      BY <2>1, LockStep
    <2>2. CASE Tick
      BY <2>2 DEF Tick, LockInv, CountExplained, Fresh
    <2>3. CASE UNCHANGED vars
      BY <2>3 DEF vars, LockInv, CountExplained, Fresh
    <2> QED
      BY <2>1, <2>2, <2>3 DEF Next
  <1>3. TypeOK /\ LockInv => LockJustified
    BY FreshFinite, CoolOffAssumption
       DEF TypeOK, Lockout, LockInv, CountExplained, LockJustified
  <1> QED
    BY <1>1, <1>2, <1>3, TypeCorrect, PTL DEF Spec

-----------------------------------------------------------------------------
(* The tokens that GitHub issues.                                          *)

TokenInv == \A h \in Slot : TokenState(hs[h])

\* A slot that goes on as v, and the others as they were.
LEMMA TokenGoto ==
  ASSUME TypeOK, TokenInv, NEW h \in Slot, NEW v, Goto(h, v), TokenState(v)
  PROVE  TokenInv'
  <1>1. \A g \in Slot : hs'[g] = IF g = h THEN v ELSE hs[g]
    BY DEF TypeOK, Goto
  <1>2. \A g \in Slot : TokenState(hs'[g])
    BY <1>1 DEF TokenInv
  <1> QED
    BY <1>2 DEF TokenInv, TokenState

\* Every step of a handler keeps its token accounted for.
LEMMA TokenStep ==
  ASSUME TypeOK, TokenInv, NEW h \in Slot, Step(h)
  PROVE  TokenInv'
  <1>0. hs[h] \in Handler /\ TokenState(hs[h])
    BY DEF TypeOK, TokenInv
  <1>a. TokenState(Idle)
    BY DEF TokenState, Idle
  <1>1. ASSUME NEW op \in Ops, NEW cands \in SUBSET Installation,
               NEW i \in Installation \cup {None}, Attempt(h, op, cands, i)
        PROVE  TokenInv'
    <2>1. TokenState([Begin(op) EXCEPT !.found = cands, !.claimed = i])
      BY DEF TokenState, Begin, Idle
    <2> QED
      BY <1>1, <2>1, TokenGoto DEF Attempt
  <1>2. CASE Reserve(h)
    <2>1. hs[h].token = "none" /\ hs[h].result = "none"
      BY <1>0, <1>2 DEF Reserve, At, TokenState
    <2>2. TokenState([FirstCall(hs[h]) EXCEPT !.fresh = TRUE])
      BY <1>0, <2>1 DEF FirstCall, TokenState, Handler
    <2> QED
      BY <1>2, <1>a, <2>2, TokenGoto DEF Reserve
  <1>3. CASE Asks(h)
    BY <1>0, <1>3, AnswerStep, TokenGoto DEF Answered
  <1>4. CASE Settle(h)
    <2>1. \A g \in Slot :
            \/ hs'[g] = Idle
            \/ /\ hs'[g].pc = hs[g].pc /\ hs'[g].op = hs[g].op
               /\ hs'[g].token = hs[g].token /\ hs'[g].result = hs[g].result
      BY <1>4 DEF Settle, TypeOK, Handler
    <2>2. \A g \in Slot : TokenState(hs'[g])
      BY <1>a, <2>1 DEF TokenInv, TokenState
    <2> QED
      BY <2>2 DEF TokenInv, TokenState
  <1>5. CASE Crash(h)
    BY <1>5, <1>a, TokenGoto DEF Crash
  <1> QED
    BY <1>1, <1>2, <1>3, <1>4, <1>5 DEF Step, Asks

\* validate's catch, verify's finally and exchange: a validation ends with
\* the token that it returns, or has asked GitHub to revoke it.
THEOREM TokensReturnedOrRevoked == Spec => []TokenReturnedOrRevoked
  <1>1. Init => TokenInv
    BY DEF Init, TokenInv, TokenState, Idle
  <1>2. TypeOK /\ TokenInv /\ [Next]_vars => TokenInv'
    <2> SUFFICES ASSUME TypeOK, TokenInv, [Next]_vars PROVE TokenInv'
      OBVIOUS
    <2>1. ASSUME NEW h \in Slot, Step(h) PROVE TokenInv'
      BY <2>1, TokenStep
    <2>2. CASE UNCHANGED hs
      BY <2>2 DEF TokenInv, TokenState
    <2> QED
      BY <2>1, <2>2 DEF Next, Tick, vars
  <1>3. TokenInv => TokenReturnedOrRevoked
    BY DEF TokenInv, TokenState, TokenReturnedOrRevoked, At
  <1> QED
    BY <1>1, <1>2, <1>3, TypeCorrect, PTL DEF Spec

-----------------------------------------------------------------------------
(* The answers that a result rests on.                                     *)

\* Whatever the call, an answer that counts against the user is one that says
\* something about the credential; so is the answer to a page that is read.
LEMMA CountedIsConclusive ==
  ASSUME NEW r \in Response
  PROVE  /\ CountsTowardCoolOff(ExchangeError(r)) => ~Inconclusive(r)
         /\ CountsTowardCoolOff(LoginOf(r)) => ~Inconclusive(r)
         /\ CountsTowardCoolOff(Identify(r)) => ~Inconclusive(r)
         /\ CountsTowardCoolOff(PageOf(r)) => ~Inconclusive(r)
         /\ PageOf(r) = "ok" => ~Inconclusive(r)
         /\ CountsTowardCoolOff(VerifyCheck(ClassifyLookup(r))) => ~Inconclusive(r)
         /\ CountsTowardCoolOff(VerifyCheck(ClassifyMint(r))) => ~Inconclusive(r)
  <1> USE DEF CountsTowardCoolOff, Inconclusive, IsRateLimited
  <1>0. r.status \in Status /\ r.limit \in BOOLEAN /\ r.body \in Body
    BY DEF Response
  <1>1. CountsTowardCoolOff(ExchangeError(r)) => ~Inconclusive(r)
    BY <1>0 DEF ExchangeError
  <1>2. /\ CountsTowardCoolOff(LoginOf(r)) => ~Inconclusive(r)
        /\ CountsTowardCoolOff(Identify(r)) => ~Inconclusive(r)
    BY <1>0 DEF LoginOf, Identify, UserError, ClassifyUser
  <1>3. /\ CountsTowardCoolOff(PageOf(r)) => ~Inconclusive(r)
        /\ PageOf(r) = "ok" => ~Inconclusive(r)
    BY <1>0 DEF PageOf
  <1>4. /\ CountsTowardCoolOff(VerifyCheck(ClassifyLookup(r))) => ~Inconclusive(r)
        /\ CountsTowardCoolOff(VerifyCheck(ClassifyMint(r))) => ~Inconclusive(r)
    BY <1>0 DEF VerifyCheck, ClassifyLookup, ClassifyMint, ClassifyFailure
  <1> QED
    BY <1>1, <1>2, <1>3, <1>4

\* validate and the connection test of a token agree on every response: what
\* the one accepts the other calls active, what the one counts against the
\* user the other calls invalid.
LEMMA IdentifyAgreesWithTest ==
  ASSUME NEW r \in Response
  PROVE  /\ Identify(r) = "ok" <=> TestUser(r, FALSE) = "active"
         /\ CountsTowardCoolOff(Identify(r)) <=> TestUser(r, FALSE) = "invalid"
  BY DEF Identify, TestUser, UserError, ClassifyUser, CountsTowardCoolOff

\* What the result of a handler has to do with the answer that it keeps.
AnswerState(x) ==
    /\ x.pc = "reserve" => ~Inconclusive(x.last)
    /\ x.pc = "revoke" /\ x.result = "none" => ~Inconclusive(x.last)
    /\ x.pc \in {"revoke", "settle"} /\ CountsTowardCoolOff(x.result) =>
         ~Inconclusive(x.last)
    /\ x.pc = "settle" /\ (x.op = "pat" \/ x.token = "kept") =>
         x.result = Identify(x.last)

AnswerInv == \A h \in Slot : AnswerState(hs[h])

\* A slot that goes on as v, and the others as they were.
LEMMA AnswerGoto ==
  ASSUME TypeOK, AnswerInv, NEW h \in Slot, NEW v, Goto(h, v), AnswerState(v)
  PROVE  AnswerInv'
  <1>1. \A g \in Slot : hs'[g] = IF g = h THEN v ELSE hs[g]
    BY DEF TypeOK, Goto
  <1>2. \A g \in Slot : AnswerState(hs'[g])
    BY <1>1 DEF AnswerInv
  <1> QED
    BY <1>2 DEF AnswerInv, AnswerState

\* Ending with the error of an answer that counts only if it is conclusive.
LEMMA AnswerEnd ==
  ASSUME NEW x \in Handler, NEW r, NEW result \in DomainError,
         CountsTowardCoolOff(result) => ~Inconclusive(r),
         x.token # "kept", x.op = "pat" => result = Identify(r)
  PROVE  AnswerState(EndWith(x, r, result))
  <1> DEFINE v == EndWith(x, r, result)
  <1>1. /\ v.pc \in {"revoke", "settle"} /\ v.last = r /\ v.result = result
        /\ v.op = x.op /\ v.token = x.token
    BY DEF EndWith, Handler
  <1>2. result # "none"
    BY DEF DomainError
  <1>3. AnswerState(v)
    <2> HIDE DEF v
    <2> QED
      BY <1>1, <1>2 DEF AnswerState
  <1> QED
    BY <1>3

\* Each answer of GitHub is the one that the result of its handler rests on.
LEMMA AnswerAsks ==
  ASSUME TypeOK, TokenInv, AnswerInv, NEW h \in Slot, Asks(h)
  PROVE  AnswerInv'
  <1>0. hs[h] \in Handler /\ TokenState(hs[h]) /\ AnswerState(hs[h])
    BY DEF TypeOK, TokenInv, AnswerInv
  <1>1. ASSUME NEW r \in ResponsesTo("exchange"), Exchange(h, r)
        PROVE  AnswerInv'
    <2> DEFINE x == [hs[h] EXCEPT !.token = IF CarriesToken(r) THEN "held"
                                                               ELSE "none"]
    <2>0. r \in Response /\ hs[h].pc = "exchange" /\ hs[h].op # "pat"
      BY <1>0, <1>1, ResponseType DEF Exchange, At, TokenState
    <2>1. x \in Handler /\ x.op = hs[h].op /\ x.token # "kept"
      BY <1>0 DEF Handler
    <2>2. AnswerState([x EXCEPT !.pc = "user"])
      BY <2>1 DEF AnswerState, Handler
    <2>3. AnswerState(EndWith(x, r, ExchangeError(r)))
      <3> HIDE DEF x
      <3> QED
        BY <2>0, <2>1, AnswerTypes, CountedIsConclusive, AnswerEnd
    <2> QED
      BY <1>1, <2>2, <2>3, AnswerGoto DEF Exchange
  <1>2. ASSUME NEW r \in ResponsesTo("user"), AskUser(h, r)
        PROVE  AnswerInv'
    <2> DEFINE result == IF hs[h].op = "callback" THEN LoginOf(r) ELSE Identify(r)
    <2>0. r \in Response /\ hs[h].pc = "user" /\ hs[h].token # "kept"
      BY <1>0, <1>2, ResponseType DEF AskUser, At, TokenState
    <2>1. ASSUME result # "ok" PROVE AnswerState(EndWith(hs[h], r, result))
      <3>1. result \in DomainError
        BY <2>0, <2>1, AnswerTypes
      <3>2. /\ CountsTowardCoolOff(result) => ~Inconclusive(r)
            /\ hs[h].op = "pat" => result = Identify(r)
        BY <2>0, CountedIsConclusive
      <3> HIDE DEF result
      <3> QED
        BY <1>0, <2>0, <3>1, <3>2, AnswerEnd
    <2>2. AnswerState([hs[h] EXCEPT !.pc = "pages"])
      BY <1>0 DEF AnswerState, Handler
    <2>3. ASSUME Identify(r) = "ok"
          PROVE  AnswerState([hs[h] EXCEPT
                   !.pc = "settle", !.result = "ok", !.last = r,
                   !.token = IF hs[h].op = "oauth" THEN "kept" ELSE "none"])
      BY <1>0, <2>3 DEF AnswerState, Handler, CountsTowardCoolOff
    <2> QED
      BY <1>2, <2>1, <2>2, <2>3, AnswerGoto DEF AskUser
  <1>3. ASSUME NEW r \in ResponsesTo("page"), NEW entries, NEW next,
               ListPage(h, r, entries, next)
        PROVE  AnswerInv'
    <2> DEFINE more == [hs[h] EXCEPT !.found = @ \cup entries]
    <2>0. /\ r \in Response /\ hs[h].pc = "pages" /\ hs[h].token = "held"
          /\ hs[h].op = "callback" /\ hs[h].result = "none"
      BY <1>0, <1>3, ResponseType DEF ListPage, At, TokenState
    <2>1. ASSUME PageOf(r) # "ok"
          PROVE  AnswerState(EndWith(hs[h], r, PageOf(r)))
      BY <1>0, <2>0, <2>1, AnswerTypes, CountedIsConclusive, AnswerEnd
    <2>2. AnswerState([more EXCEPT !.page = @ + 1])
      BY <1>0, <2>0 DEF AnswerState, Handler
    <2>3. ASSUME PageOf(r) = "ok"
          PROVE  AnswerState([more EXCEPT !.pc = "revoke", !.last = r])
      BY <1>0, <2>0, <2>3, CountedIsConclusive DEF AnswerState, Handler
    <2> QED
      BY <1>3, <2>1, <2>2, <2>3, AnswerGoto DEF ListPage
  <1>4. CASE RevokeToken(h)
    <2> DEFINE x == [hs[h] EXCEPT !.token = "gone"]
               picked == PickInstallation(x.found, x.claimed, None)
    <2>0. hs[h].pc = "revoke" /\ hs[h].op # "pat"
      BY <1>0, <1>4 DEF RevokeToken, At, TokenState
    <2>1. /\ x.result = hs[h].result /\ x.last = hs[h].last /\ x.token = "gone"
          /\ x.op = hs[h].op /\ x \in Handler
      BY <1>0 DEF Handler
    <2> HIDE DEF x
    <2>2. AnswerState([x EXCEPT !.pc = "settle"])
      BY <1>0, <2>0, <2>1 DEF AnswerState, Handler
    <2>3. AnswerState([x EXCEPT !.pc = "lookup"])
      BY <2>1 DEF AnswerState, Handler
    <2>4. ASSUME x.result = "none"
          PROVE  AnswerState([x EXCEPT !.pc = "settle", !.result = picked])
      <3> HIDE DEF picked
      <3> QED
        BY <1>0, <2>0, <2>1, <2>4 DEF AnswerState, Handler
    <2> QED
      BY <1>4, <2>2, <2>3, <2>4, AnswerGoto DEF RevokeToken, x
  <1>5. ASSUME NEW call, NEW r \in ResponsesTo(call), AskInstallation(h, r)
        PROVE  AnswerInv'
    <2> DEFINE check == IF hs[h].pc = "lookup" THEN ClassifyLookup(r)
                                               ELSE ClassifyMint(r)
    <2>0. /\ r \in Response /\ hs[h].pc \in {"lookup", "mint"}
          /\ hs[h].op # "pat" /\ hs[h].token # "kept"
      BY <1>0, <1>5, ResponseType DEF AskInstallation, TokenState
    <2>1. AnswerState([hs[h] EXCEPT !.pc = "mint"])
      BY <1>0 DEF AnswerState, Handler
    <2>2. AnswerState([hs[h] EXCEPT !.pc = "settle", !.last = r,
                                    !.result = VerifyCheck(check)])
      <3>1. CountsTowardCoolOff(VerifyCheck(check)) => ~Inconclusive(r)
        BY <2>0, CountedIsConclusive
      <3> HIDE DEF check
      <3> QED
        BY <1>0, <2>0, <3>1 DEF AnswerState, Handler
    <2> QED
      BY <1>5, <2>1, <2>2, AnswerGoto DEF AskInstallation
  <1> QED
    BY <1>1, <1>2, <1>3, <1>4, <1>5 DEF Asks

\* Every step of a handler keeps its result explained by its last answer.
LEMMA AnswerInvStep ==
  ASSUME TypeOK, TokenInv, AnswerInv, NEW h \in Slot, Step(h)
  PROVE  AnswerInv'
  <1>0. hs[h] \in Handler /\ TokenState(hs[h]) /\ AnswerState(hs[h])
    BY DEF TypeOK, TokenInv, AnswerInv
  <1>a. AnswerState(Idle)
    BY DEF AnswerState, Idle, CountsTowardCoolOff
  <1>1. ASSUME NEW op \in Ops, NEW cands \in SUBSET Installation,
               NEW i \in Installation \cup {None}, Attempt(h, op, cands, i)
        PROVE  AnswerInv'
    <2>1. AnswerState([Begin(op) EXCEPT !.found = cands, !.claimed = i])
      BY DEF AnswerState, Begin, Idle, NoResponse, Inconclusive
    <2> QED
      BY <1>1, <2>1, AnswerGoto DEF Attempt
  <1>2. CASE Reserve(h)
    <2>1. /\ hs[h].token = "none" /\ hs[h].result = "none"
          /\ ~Inconclusive(hs[h].last)
      BY <1>0, <1>2 DEF Reserve, At, TokenState, AnswerState
    <2>2. AnswerState([FirstCall(hs[h]) EXCEPT !.fresh = TRUE])
      BY <1>0, <2>1 DEF FirstCall, AnswerState, Handler
    <2> QED
      BY <1>2, <1>a, <2>2, AnswerGoto DEF Reserve
  <1>3. CASE Asks(h)
    BY <1>3, AnswerAsks
  <1>4. CASE Settle(h)
    <2>1. \A g \in Slot :
            \/ hs'[g] = Idle
            \/ /\ hs'[g].pc = hs[g].pc /\ hs'[g].op = hs[g].op
               /\ hs'[g].token = hs[g].token /\ hs'[g].result = hs[g].result
               /\ hs'[g].last = hs[g].last
      BY <1>4 DEF Settle, TypeOK, Handler
    <2>2. \A g \in Slot : AnswerState(hs'[g])
      BY <1>a, <2>1 DEF AnswerInv, AnswerState
    <2> QED
      BY <2>2 DEF AnswerInv, AnswerState
  <1>5. CASE Crash(h)
    BY <1>5, <1>a, AnswerGoto DEF Crash
  <1> QED
    BY <1>1, <1>2, <1>3, <1>4, <1>5 DEF Step, Asks

\* The results of the handlers rest on their last answers in every state.
LEMMA AnswersKept == Spec => [](TypeOK /\ TokenInv /\ AnswerInv)
  <1>1. Init => TokenInv /\ AnswerInv
    BY DEF Init, TokenInv, TokenState, AnswerInv, AnswerState, Idle,
           CountsTowardCoolOff
  <1>2. TypeOK /\ TokenInv /\ AnswerInv /\ [Next]_vars => TokenInv' /\ AnswerInv'
    <2> SUFFICES ASSUME TypeOK, TokenInv, AnswerInv, [Next]_vars
                 PROVE  TokenInv' /\ AnswerInv'
      OBVIOUS
    <2>1. ASSUME NEW h \in Slot, Step(h) PROVE TokenInv' /\ AnswerInv'
      BY <2>1, TokenStep, AnswerInvStep
    <2>2. CASE UNCHANGED hs
      BY <2>2 DEF TokenInv, TokenState, AnswerInv, AnswerState
    <2> QED
      BY <2>1, <2>2 DEF Next, Tick, vars
  <1> QED
    BY <1>1, <1>2, TypeCorrect, PTL DEF Spec

\* countsTowardCoolOff and every classification on the way to it: a validation
\* that ends on an answer which says nothing about the credential is never one
\* that counts.
THEOREM RejectionsOnlyCount == Spec => []OnlyRejectionsCount
  <1>1. AnswerInv => OnlyRejectionsCount
    BY DEF AnswerInv, AnswerState, OnlyRejectionsCount, At
  <1> QED
    BY <1>1, AnswersKept, PTL

\* validate and test of the two token types: a credential is accepted exactly
\* when its own connection test would call it active, and is counted against
\* the user exactly when the test would call it invalid.
THEOREM ValidationsAgreeWithTests == Spec => []ValidationAgreesWithTest
  <1>1. TypeOK /\ AnswerInv => ValidationAgreesWithTest
    <2> SUFFICES ASSUME TypeOK, AnswerInv, NEW h \in Slot, At(h, "settle"),
                        hs[h].op = "pat" \/ hs[h].token = "kept"
                 PROVE  /\ hs[h].result = "ok"
                             <=> TestUser(hs[h].last, FALSE) = "active"
                        /\ CountsTowardCoolOff(hs[h].result)
                             <=> TestUser(hs[h].last, FALSE) = "invalid"
      BY DEF ValidationAgreesWithTest
    <2>1. hs[h].last \in Response
      BY DEF TypeOK, Handler
    <2>2. hs[h].result = Identify(hs[h].last)
      BY DEF AnswerInv, AnswerState, At
    <2> QED
      BY <2>1, <2>2, IdentifyAgreesWithTest
  <1> QED
    BY <1>1, AnswersKept, PTL
=============================================================================
