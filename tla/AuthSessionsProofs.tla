------------------------ MODULE AuthSessionsProofs --------------------------
(***************************************************************************)
(* Proofs about AuthSessions, for every set of users, tokens, sessions and *)
(* handlers, every clock bound and every selection of endpoints.  The four *)
(* theorems of the last sections hold as long as some statements do not    *)
(* interleave, or do not fail: their hypotheses say which.                 *)
(***************************************************************************)
EXTENDS AuthSessions, TLAPS

-----------------------------------------------------------------------------
(* Type correctness.                                                       *)

TypeInv == TypeOK /\ UsersBound

\* A handler slot between two calls is a handler, bound to no user.
LEMMA IdleType == Idle \in Handler /\ HandlerBound(Idle)
  BY
     DEF Idle, Handler, NoAccount, Account, PC, Status, Reason, HandlerBound, WillRevoke

\* The initial tables are well typed and name no user.
LEMMA InitType == Init => TypeInv
  <1> SUFFICES ASSUME Init PROVE TypeInv
    OBVIOUS
  <1>1. TypeOK
    BY IdleType, AccountAssumption DEF Init, TypeOK, Account, NoAccount, Status,
       RefreshRow, Unissued, ResetRow, Reason
  <1>2. UsersBound
    BY IdleType DEF Init, UsersBound, Issued, Unissued
  <1> QED
    BY <1>1, <1>2 DEF TypeInv

HandlersOK == req \in [Request -> Handler] /\ \A r \in Request : HandlerBound(req[r])

\* A step that gives one slot a well-typed handler of a known user.
LEMMA SlotStep ==
  ASSUME HandlersOK, NEW r \in Request, NEW h \in Handler, HandlerBound(h),
         req' = [req EXCEPT ![r] = h]
  PROVE  HandlersOK'
  BY DEF HandlersOK

\* A step that ends a handler.
LEMMA FinishStep ==
  ASSUME HandlersOK, NEW r \in Request, Finish(r)
  PROVE  HandlersOK'
  BY IdleType DEF HandlersOK, Finish

\* A step that moves a handler's program counter on.
LEMMA GotoStep ==
  ASSUME HandlersOK, NEW r \in Request, NEW pc \in PC \ {"autoLogin"},
         req[r].pc \notin {"idle", "autoLogin"},
         pc \in WillRevoke => req[r].pc \in WillRevoke, Goto(r, pc)
  PROVE  HandlersOK'
  <1>1. req' = [req EXCEPT ![r] = [req[r] EXCEPT !.pc = pc]]
    BY DEF Goto, HandlersOK
  <1>2. [req[r] EXCEPT !.pc = pc] \in Handler
    BY DEF HandlersOK, Handler
  <1>3. HandlerBound([req[r] EXCEPT !.pc = pc])
    BY DEF HandlersOK, Handler, HandlerBound, WillRevoke
  <1> QED
    BY <1>1, <1>2, <1>3, SlotStep

Tables ==
    /\ users \in [User -> Account]
    /\ tokens \in [Token -> RefreshRow]
    /\ resets \in [ResetToken -> ResetRow]
    /\ jwt \in [Session -> [sub: User \cup {NoUser}, exp: Nat]]
    /\ now \in Nat
    /\ \A t \in Token : Issued(t) => tokens[t].user \in User
    /\ \A k \in ResetToken : resets[k].st # "unissued" => resets[k].user \in User

\* The invariant splits into the tables and the handlers.
LEMMA TypeParts == TypeInv <=> Tables /\ HandlersOK
  BY DEF TypeInv, TypeOK, UsersBound, Tables, HandlersOK

\* The same split, after a step.
LEMMA TypeJoin == ASSUME Tables', HandlersOK' PROVE TypeInv'
  BY DEF TypeInv, TypeOK, UsersBound, Tables, HandlersOK

\* A step that only reads the tables keeps their part of the invariant.
LEMMA ReadOnly ==
  ASSUME Tables, UNCHANGED <<users, tokens, resets, jwt, now>>
  PROVE  Tables'
  BY DEF Tables, Issued

\* A step that only reads the tables and gives one slot a new handler.
LEMMA ReadStep ==
  ASSUME TypeInv, NEW r \in Request, NEW h \in Handler, HandlerBound(h),
         req' = [req EXCEPT ![r] = h],
         UNCHANGED <<users, tokens, resets, jwt, now>>
  PROVE  TypeInv'
  BY TypeParts, SlotStep, ReadOnly, TypeJoin

\* The subject that JwtGuard admits is a user.
LEMMA AdmitsUser ==
  ASSUME TypeInv, NEW s \in Session, Admits(s)
  PROVE  jwt[s].sub \in User
  BY DEF TypeInv, TypeOK, UsersBound, Admits, Active, Unrevoked, Issued

\* Calls without an access token keep the invariant.
LEMMA CallType ==
  ASSUME TypeInv, NEW r \in Request, Call(r)
  PROVE  TypeInv'
  <1> USE DEF Handler, Idle, NoAccount, Account, PC, Status, Reason, HandlerBound, WillRevoke
  <1>1. ASSUME NEW u \in User, NEW pw \in Password, RegisterCheck(r, u, pw)
        PROVE  TypeInv'
    <2> DEFINE h == [Idle EXCEPT !.pc = "registerSave", !.user = u, !.pw = pw]
    <2>1. h \in Handler /\ HandlerBound(h)
      OBVIOUS
    <2> QED
      BY <1>1, <2>1, ReadStep, ZenonT(60) DEF RegisterCheck
  <1>2. ASSUME NEW u \in User, NEW pw \in Password, NEW keep \in BOOLEAN,
               Login(r, u, pw, keep)
        PROVE  TypeInv'
    <2> DEFINE h == [Idle EXCEPT !.pc = "issue", !.user = u, !.keep = keep,
                                 !.pw = pw]
    <2>1. h \in Handler /\ HandlerBound(h)
      OBVIOUS
    <2>2. /\ req' = [req EXCEPT ![r] = h]
          /\ UNCHANGED <<users, tokens, resets, jwt, now>>
      BY <1>2 DEF Login
    <2> HIDE DEF h
    <2> QED
      BY <2>1, <2>2, ReadStep
  <1>3. ASSUME NEW t \in Token, Issued(t),
               NEW pc \in {"loadUser", "replay", "statusUser"}
        PROVE  Holding(t, pc) \in Handler /\ HandlerBound(Holding(t, pc))
    BY <1>3, ZenonT(60) DEF Holding, TypeInv, TypeOK, UsersBound, RefreshRow
  <1>4. ASSUME NEW t \in Token, RefreshFind(r, t)
        PROVE  TypeInv'
    BY <1>4, <1>3, ReadStep, ZenonT(60) DEF RefreshFind, Issued
  <1>5. ASSUME NEW t \in Token \cup {NoToken}, StatusFind(r, t)
        PROVE  TypeInv'
    <2> DEFINE h == [Idle EXCEPT !.pc = "autoLogin"]
    <2>1. CASE t \in Active /\ req' = [req EXCEPT ![r] = Holding(t, "statusUser")]
      <3>1. t \in Token /\ Issued(t)
        BY <2>1 DEF Active, Unrevoked, Issued
      <3> QED
        BY <1>3, <1>5, <2>1, <3>1, ReadStep, ZenonT(60) DEF StatusFind
    <2>2. CASE CanAutoLogin /\ req' = [req EXCEPT ![r] = h]
      <3>1. h \in Handler /\ HandlerBound(h)
        BY <2>2, AccountAssumption DEF CanAutoLogin
      <3> QED
        BY <1>5, <2>2, <3>1, ReadStep, ZenonT(60) DEF StatusFind
    <2> QED
      BY <1>5, <2>1, <2>2 DEF StatusFind
  <1>6. ASSUME NEW u \in User, Recover(r, u)
        PROVE  TypeInv'
    <2> DEFINE h == [Idle EXCEPT !.pc = "pruneResets", !.user = u]
    <2>1. h \in Handler /\ HandlerBound(h)
      OBVIOUS
    <2> QED
      BY <1>6, <2>1, ReadStep, ZenonT(60) DEF Recover
  <1>7. ASSUME NEW k \in ResetToken, NEW pw \in Password, ResetFind(r, k, pw)
        PROVE  TypeInv'
    <2> DEFINE h == [Idle EXCEPT !.pc = "resetUser", !.rst = k,
                                 !.user = resets[k].user, !.pw = pw,
                                 !.why = "password_reset"]
    <2>1. resets[k].user \in User
      BY <1>7 DEF TypeInv, UsersBound, ResetFind
    <2>2. h \in Handler /\ HandlerBound(h)
      BY <2>1
    <2> QED
      BY <1>7, <2>2, ReadStep, ZenonT(60) DEF ResetFind
  <1> QED
    BY <1>1, <1>2, <1>4, <1>5, <1>6, <1>7 DEF Call

\* JwtGuard lets a call through as a well-typed handler.
LEMMA AdmitType ==
  ASSUME TypeInv, NEW r \in Request, NEW s \in Session, NEW op, NEW h,
         Admit(r, op, s, h),
         jwt[s].sub \in User => h \in Handler /\ HandlerBound(h)
  PROVE  TypeInv'
  BY AdmitsUser, ReadStep DEF Admit

\* Calls with an access token keep the invariant.
LEMMA AuthenticatedCallType ==
  ASSUME TypeInv, NEW r \in Request, AuthenticatedCall(r)
  PROVE  TypeInv'
  <1> USE DEF Handler, Idle, NoAccount, Account, PC, Status, Reason, HandlerBound, WillRevoke
  <1> PICK s \in Session : AuthenticatedCall(r)!(s)
    BY DEF AuthenticatedCall
  <1>1. ASSUME NEW target \in Session, Revoke(r, s, target)
        PROVE  TypeInv'
    BY <1>1, AdmitType DEF Revoke
  <1>2. ASSUME NEW t \in Token, RevokeOthers(r, s, t)
        PROVE  TypeInv'
    BY <1>2, AdmitType DEF RevokeOthers
  <1>3. ASSUME NEW t \in Token \cup {NoToken}, NEW pw \in Password \cup {NoPw},
               UpdateAccount(r, s, t, pw)
        PROVE  TypeInv'
    <2>1. t \in Unrevoked => tokens[t].ses \in Session \cup {NoSession}
      BY DEF TypeInv, TypeOK, Unrevoked, RefreshRow
    <2> QED
      BY <1>3, <2>1, AdmitType, ZenonT(60) DEF UpdateAccount
  <1>4. ASSUME NEW u \in User, NEW pw \in Password \cup {NoPw},
               EditUser(r, s, u, pw)
        PROVE  TypeInv'
    BY <1>4, AdmitType DEF EditUser, AdmitAdmin
  <1>5. ASSUME NEW u \in User, ApproveUser(r, s, u)
        PROVE  TypeInv'
    BY <1>5, AdmitType DEF ApproveUser, AdmitAdmin
  <1>6. ASSUME NEW u \in User, DenyUser(r, s, u)
        PROVE  TypeInv'
    BY <1>6, AdmitType DEF DenyUser, AdmitAdmin
  <1>7. ASSUME NEW u \in User, GenerateRecoveryLink(r, s, u)
        PROVE  TypeInv'
    BY <1>7, AdmitType DEF GenerateRecoveryLink, AdmitAdmin
  <1> QED
    BY <1>1, <1>2, <1>3, <1>4, <1>5, <1>6, <1>7

\* The UPDATE that revokes a set of rows changes their reason only.
LEMMA RevokedRows ==
  ASSUME tokens \in [Token -> RefreshRow], NEW S,
         NEW reason \in Reason \cup {"none"}
  PROVE  /\ Revoked(S, reason) \in [Token -> RefreshRow]
         /\ \A t \in Token :
              /\ Revoked(S, reason)[t].st = tokens[t].st
              /\ Revoked(S, reason)[t].user = tokens[t].user
              /\ Revoked(S, reason)[t].ses = tokens[t].ses
              /\ Revoked(S, reason)[t].exp = tokens[t].exp
              /\ Revoked(S, reason)[t].keep = tokens[t].keep
              /\ Revoked(S, reason)[t].rev = IF t \in S THEN reason
                                                       ELSE tokens[t].rev
  BY DEF Revoked, RefreshRow

\* A step that revokes rows and leaves the other tables alone.
LEMMA RevokeTables ==
  ASSUME Tables, NEW S, NEW reason \in Reason, tokens' = Revoked(S, reason),
         UNCHANGED <<users, resets, jwt, now>>
  PROVE  Tables'
  <1>1. /\ tokens' \in [Token -> RefreshRow]
        /\ \A t \in Token : /\ tokens'[t].st = tokens[t].st
                            /\ tokens'[t].user = tokens[t].user
    BY RevokedRows DEF Tables
  <1> QED
    BY <1>1 DEF Tables, Issued

\* Minting a session: IssuePrune and IssueInsert.
LEMMA IssueType ==
  ASSUME TypeInv, NEW r \in Request, IssuePrune(r) \/ IssueInsert(r)
  PROVE  TypeInv'
  <1>0. Tables /\ HandlersOK /\ HandlerBound(req[r]) /\ req[r] \in Handler
    BY TypeParts DEF HandlersOK
  <1>1. CASE IssuePrune(r)
    <2> DEFINE h == [req[r] EXCEPT !.pc = "insert", !.at = now]
    <2>1. req' = [req EXCEPT ![r] = h]
      BY <1>0, <1>1 DEF IssuePrune, HandlersOK
    <2>2. h \in Handler /\ HandlerBound(h)
      BY <1>0, <1>1, ZenonT(60)
         DEF IssuePrune, At, Handler, HandlerBound, WillRevoke,
         PC, Tables
    <2>3. HandlersOK'
      BY <1>0, <2>1, <2>2, SlotStep
    <2>4. Tables'
      <3>1. /\ tokens' \in [Token -> RefreshRow]
            /\ \A t \in Token : tokens'[t].user = tokens[t].user
            /\ \A t \in Token : tokens'[t].st = "unissued" <=> tokens[t].st = "unissued"
        BY <1>0, <1>1, SMTT(40) DEF IssuePrune, Tables, RefreshRow
      <3> QED
        BY <1>0, <1>1, <3>1 DEF IssuePrune, Tables, Issued
    <2> QED
      BY <2>3, <2>4, TypeJoin
  <1>2. CASE IssueInsert(r)
    <2>1. HandlersOK'
      BY <1>0, <1>2, FinishStep DEF IssueInsert
    <2>2. req[r].user \in User
      BY <1>0, <1>2 DEF IssueInsert, At, HandlerBound
    <2>3. PICK t \in Token, s \in Session :
            /\ tokens' = [tokens EXCEPT ![t] =
                            [st |-> "row", user |-> req[r].user, ses |-> s,
                             exp |-> req[r].at + Ttl(req[r].keep),
                             rev |-> "none", keep |-> req[r].keep,
                             cred |-> req[r].pw]]
            /\ jwt' = [jwt EXCEPT ![s] = [sub |-> req[r].user,
                                          exp |-> req[r].at + AccessTtl]]
      BY <1>0, <1>2, ZenonT(60) DEF IssueInsert, SessionOf, Handler
    <2>4. Ttl(req[r].keep) \in Nat
      BY TimeAssumption DEF Ttl
    <2>5. tokens' \in [Token -> RefreshRow]
      BY <1>0, <2>2, <2>3, <2>4 DEF Tables, RefreshRow, Handler
    <2>6. jwt' \in [Session -> [sub: User \cup {NoUser}, exp: Nat]]
      BY <1>0, <2>2, <2>3, TimeAssumption DEF Tables, Handler
    <2>7. \A x \in Token : tokens'[x].st # "unissued" => tokens'[x].user \in User
      BY <1>0, <2>2, <2>3 DEF Tables, Issued
    <2>8. Tables'
      BY <1>0, <1>2, <2>5, <2>6, <2>7 DEF IssueInsert, Tables, Issued
    <2> QED
      BY <2>1, <2>8, TypeJoin
  <1> QED
    BY <1>1, <1>2

\* A handler's statements that revoke rows keep the invariant.
LEMMA RevokingType ==
  ASSUME TypeInv, NEW r \in Request,
         \/ RefreshReplay(r) \/ RefreshRevokeDenied(r) \/ RefreshRotate(r)
         \/ StatusRevokeDenied(r) \/ RevokeUpdate(r) \/ RevokeOthersUpdate(r)
         \/ RevokeUser(r) \/ BootRevoke(r)
  PROVE  TypeInv'
  <1>0. Tables /\ HandlersOK /\ HandlerBound(req[r]) /\ req[r] \in Handler
    BY TypeParts DEF HandlersOK
  <1>1. Finish(r) => HandlersOK'
    BY <1>0, FinishStep
  <1>2. CASE RefreshReplay(r)
    BY <1>0, <1>1, <1>2, RevokeTables, TypeJoin
       DEF RefreshReplay, RevokeUserTokens, Reason
  <1>3. CASE RefreshRevokeDenied(r)
    BY <1>0, <1>1, <1>3, RevokeTables, TypeJoin
       DEF RefreshRevokeDenied, RevokeToken, Reason
  <1>4. CASE RefreshRotate(r)
    <2>1. Tables'
      BY <1>0, <1>4, RevokeTables DEF RefreshRotate, RevokeToken, Reason
    <2>2. Goto(r, "issue") => HandlersOK'
      BY <1>0, <1>4, GotoStep DEF RefreshRotate, At, PC, WillRevoke
    <2> QED
      BY <1>1, <1>4, <2>1, <2>2, TypeJoin DEF RefreshRotate
  <1>5. CASE StatusRevokeDenied(r)
    <2>1. Tables'
      BY <1>0, <1>5, RevokeTables DEF StatusRevokeDenied, RevokeToken, Reason
    <2> DEFINE h == [Idle EXCEPT !.pc = "autoLogin"]
    <2>2. CanAutoLogin => h \in Handler /\ HandlerBound(h)
      BY AccountAssumption
         DEF CanAutoLogin, Idle, Handler, HandlerBound, WillRevoke,
         PC, NoAccount, Account, Status, Reason
    <2>3. HandlersOK'
      BY <1>0, <1>1, <1>5, <2>2, SlotStep DEF StatusRevokeDenied
    <2> QED
      BY <2>1, <2>3, TypeJoin
  <1>6. CASE RevokeUpdate(r)
    BY <1>0, <1>1, <1>6, RevokeTables, TypeJoin DEF RevokeUpdate, Reason
  <1>7. CASE RevokeOthersUpdate(r)
    BY <1>0, <1>1, <1>7, RevokeTables, TypeJoin DEF RevokeOthersUpdate, Reason
  <1>8. CASE BootRevoke(r)
    BY <1>0, <1>1, <1>8, RevokeTables, TypeJoin
       DEF BootRevoke, RevokeUserTokens, Reason
  <1>9. CASE RevokeUser(r)
    <2>1. req[r].why \in Reason
      BY <1>0, <1>9 DEF RevokeUser, At, HandlerBound, WillRevoke, Handler
    <2> QED
      BY <1>0, <1>1, <1>9, <2>1, RevokeTables, TypeJoin
       DEF RevokeUser, RevokeUserTokens
  <1> QED
    BY <1>2, <1>3, <1>4, <1>5, <1>6, <1>7, <1>8, <1>9

\* A handler's statements that only read, and move on or end.
LEMMA ReadingType ==
  ASSUME TypeInv, NEW r \in Request,
         \/ RefreshLoadUser(r) \/ StatusLoadUser(r) \/ AutoLogin(r)
         \/ RevokeOthersFind(r) \/ LoadAccount(r) \/ LoadEdit(r)
         \/ ResetLoadUser(r) \/ Abort(r)
  PROVE  TypeInv'
  <1>0. Tables /\ HandlersOK /\ HandlerBound(req[r]) /\ req[r] \in Handler
    BY TypeParts DEF HandlersOK
  <1>1. Finish(r) => HandlersOK'
    BY <1>0, FinishStep
  <1>2. Tables'
    BY <1>0, ReadOnly DEF RefreshLoadUser, StatusLoadUser, AutoLogin,
       RevokeOthersFind, LoadAccount, LoadEdit, ResetLoadUser, Abort
  <1>3. CASE RefreshLoadUser(r)
    BY <1>0, <1>2, <1>3, GotoStep, TypeJoin
       DEF RefreshLoadUser, At, PC, WillRevoke
  <1>4. CASE StatusLoadUser(r)
    BY <1>0, <1>1, <1>2, <1>4, GotoStep, TypeJoin
       DEF StatusLoadUser, At, PC, WillRevoke
  <1>5. CASE AutoLogin(r)
    <2> DEFINE h == [Idle EXCEPT !.pc = "issue", !.user = DefaultUser,
                                 !.pw = users[DefaultUser].pw]
    <2>1. DefaultUser \in User
      BY <1>0, <1>5 DEF AutoLogin, At, HandlerBound
    <2>2. users[DefaultUser].pw \in Password \cup {NoPw}
      BY <1>0, <2>1 DEF Tables, Account
    <2>3. h \in Handler /\ HandlerBound(h)
      BY <2>1, <2>2 DEF Idle, Handler, HandlerBound, WillRevoke, PC,
         NoAccount, Account, Status, Reason
    <2> QED
      BY <1>5, <2>3, ReadStep DEF AutoLogin
  <1>6. CASE RevokeOthersFind(r)
    <2> DEFINE h == [req[r] EXCEPT !.pc = "revokeOthersUpdate",
                                   !.ses = tokens[req[r].tok].ses]
    <2>1. CASE Finish(r)
      BY <1>1, <1>2, <2>1, TypeJoin
    <2>2. CASE /\ req[r].tok \in Active
               /\ req' = [req EXCEPT ![r].pc = "revokeOthersUpdate",
                                     ![r].ses = tokens[req[r].tok].ses]
      <3>1. req' = [req EXCEPT ![r] = h]
        BY <1>0, <2>2 DEF HandlersOK
      <3>2. tokens[req[r].tok].ses \in Session \cup {NoSession}
        BY <1>0, <2>2 DEF Tables, Active, Unrevoked, RefreshRow
      <3>3. h \in Handler /\ HandlerBound(h)
        BY <1>0, <1>6, <3>2, ZenonT(60)
           DEF RevokeOthersFind, At, Handler, HandlerBound,
           WillRevoke, PC
      <3> QED
        BY <1>0, <1>2, <3>1, <3>3, SlotStep, TypeJoin
    <2> QED
      BY <1>6, <2>1, <2>2 DEF RevokeOthersFind
  <1>7. CASE LoadAccount(r) \/ LoadEdit(r)
    <2> DEFINE h == [req[r] EXCEPT !.pc = "save", !.snap = users[req[r].user]]
    <2>1. CASE Finish(r)
      BY <1>1, <1>2, <2>1, TypeJoin
    <2>2. CASE req' = [req EXCEPT ![r].pc = "save",
                                  ![r].snap = users[req[r].user]]
      <3>1. req' = [req EXCEPT ![r] = h]
        BY <1>0, <2>2 DEF HandlersOK
      <3>2. users[req[r].user] \in Account
        BY <1>0, <1>7 DEF Tables, LoadAccount, LoadEdit, At, HandlerBound
      <3>3. h \in Handler /\ HandlerBound(h)
        BY <1>0, <1>7, <3>2, ZenonT(60) DEF LoadAccount, LoadEdit, At, Handler,
           HandlerBound, WillRevoke, PC
      <3> QED
        BY <1>0, <1>2, <3>1, <3>3, SlotStep, TypeJoin
    <2> QED
      BY <1>7, <2>1, <2>2 DEF LoadAccount, LoadEdit
  <1>8. CASE ResetLoadUser(r)
    BY <1>0, <1>1, <1>2, <1>8, GotoStep, TypeJoin
       DEF ResetLoadUser, At, PC, WillRevoke
  <1>9. CASE Abort(r)
    BY <1>1, <1>2, <1>9, TypeJoin DEF Abort
  <1> QED
    BY <1>3, <1>4, <1>5, <1>6, <1>7, <1>8, <1>9

\* A handler's statements that write the user or reset tables.
LEMMA WritingType ==
  ASSUME TypeInv, NEW r \in Request,
         \/ RegisterSave(r) \/ ApplyUserUpdate(r) \/ ApproveUpdate(r)
         \/ DenyUpdate(r) \/ PruneSpentTokens(r) \/ SaveReset(r)
         \/ ResetPassword(r) \/ ResetMark(r)
  PROVE  TypeInv'
  <1>0. Tables /\ HandlersOK /\ HandlerBound(req[r]) /\ req[r] \in Handler
    BY TypeParts DEF HandlersOK
  <1>1. Finish(r) => HandlersOK'
    BY <1>0, FinishStep
  <1>2. ASSUME users' \in [User -> Account], UNCHANGED <<tokens, resets, jwt, now>>
        PROVE  Tables'
    BY <1>0, <1>2 DEF Tables, Issued
  <1>3. ASSUME resets' \in [ResetToken -> ResetRow],
               \A k \in ResetToken : resets'[k].st # "unissued"
                                       => resets'[k].user \in User,
               UNCHANGED <<users, tokens, jwt, now>>
        PROVE  Tables'
    BY <1>0, <1>3 DEF Tables, Issued
  <1>4. CASE RegisterSave(r)
    <2>1. Goto(r, "issue") => HandlersOK'
      BY <1>0, <1>4, GotoStep DEF RegisterSave, At, PC, WillRevoke
    <2>2. users' \in [User -> Account]
      BY <1>0, <1>4 DEF RegisterSave, Tables, Account, Status, Handler,
         RegistrationStatus
    <2> QED
      BY <1>1, <1>2, <1>4, <2>1, <2>2, TypeJoin DEF RegisterSave
  <1>5. CASE ApplyUserUpdate(r)
    <2>1. Goto(r, "revokeUser") => HandlersOK'
      BY <1>0, <1>5, GotoStep DEF ApplyUserUpdate, At, PC, WillRevoke
    <2>2. [status |-> req[r].snap.status,
           pw |-> IF req[r].pw = NoPw THEN req[r].snap.pw ELSE req[r].pw]
          \in Account
      BY <1>0 DEF Handler, Account
    <2>3. users' \in [User -> Account]
      BY <1>0, <1>5, <2>2 DEF ApplyUserUpdate, Tables
    <2> QED
      BY <1>1, <1>2, <1>5, <2>1, <2>3, TypeJoin DEF ApplyUserUpdate
  <1>6. CASE ApproveUpdate(r)
    <2>1. users' \in [User -> Account]
      BY <1>0, <1>6, ZenonT(60) DEF ApproveUpdate, Tables, Account, Status
    <2> QED
      BY <1>1, <1>2, <1>6, <2>1, TypeJoin DEF ApproveUpdate
  <1>7. CASE DenyUpdate(r)
    <2>1. HandlersOK'
      BY <1>0, <1>7, GotoStep DEF DenyUpdate, At, PC, WillRevoke
    <2>2. users' \in [User -> Account]
      BY <1>0, <1>7, ZenonT(60) DEF DenyUpdate, Tables, Account, Status
    <2> QED
      BY <1>2, <1>7, <2>1, <2>2, TypeJoin DEF DenyUpdate
  <1>8. CASE PruneSpentTokens(r)
    <2>1. HandlersOK'
      BY <1>0, <1>8, GotoStep DEF PruneSpentTokens, At, PC, WillRevoke
    <2>2. /\ resets' \in [ResetToken -> ResetRow]
          /\ \A k \in ResetToken :
               /\ resets'[k].user = resets[k].user
               /\ resets'[k].st = "unissued" <=> resets[k].st = "unissued"
      BY <1>0, <1>8 DEF PruneSpentTokens, Tables, ResetRow
    <2>3. Tables'
      BY <1>0, <1>3, <1>8, <2>2 DEF PruneSpentTokens, Tables
    <2> QED
      BY <2>1, <2>3, TypeJoin
  <1>9. CASE SaveReset(r)
    <2>1. HandlersOK'
      BY <1>1, <1>9 DEF SaveReset
    <2>2. req[r].user \in User
      BY <1>0, <1>9 DEF SaveReset, At, HandlerBound
    <2>3. /\ resets' \in [ResetToken -> ResetRow]
          /\ \A k \in ResetToken : resets'[k].st # "unissued"
                                     => resets'[k].user \in User
      BY <1>0, <1>9, <2>2, TimeAssumption DEF SaveReset, Tables, ResetRow
    <2>4. Tables'
      BY <1>3, <1>9, <2>3 DEF SaveReset
    <2> QED
      BY <2>1, <2>4, TypeJoin
  <1>10. CASE ResetPassword(r)
    <2>1. HandlersOK'
      BY <1>0, <1>10, GotoStep DEF ResetPassword, At, PC, WillRevoke
    <2>2. users' \in [User -> Account]
      BY <1>0, <1>10, ZenonT(60) DEF ResetPassword, Tables, Account, Handler
    <2>3. /\ resets' \in [ResetToken -> ResetRow]
          /\ \A k \in ResetToken : /\ resets'[k].st = resets[k].st
                                   /\ resets'[k].user = resets[k].user
      <3> DEFINE n == IF resets[req[r].rst].uses = 0 THEN 1 ELSE 2
                 row == [resets[req[r].rst] EXCEPT !.uses = n]
      <3>1. resets' = [resets EXCEPT ![req[r].rst] = row]
        BY <1>0, <1>10 DEF ResetPassword, Tables
      <3>2. n \in 0..2
        OBVIOUS
      <3> HIDE DEF n
      <3>3. req[r].rst \in ResetToken =>
              /\ row \in ResetRow
              /\ row.st = resets[req[r].rst].st
              /\ row.user = resets[req[r].rst].user
        BY <1>0, <3>2 DEF Tables, ResetRow
      <3> HIDE DEF row
      <3> QED
        BY <1>0, <3>1, <3>3 DEF Tables
    <2>4. Tables'
      BY <1>0, <1>10, <2>2, <2>3 DEF ResetPassword, Tables, Issued
    <2> QED
      BY <2>1, <2>4, TypeJoin
  <1>11. CASE ResetMark(r)
    <2>1. HandlersOK'
      BY <1>0, <1>11, GotoStep DEF ResetMark, At, PC, WillRevoke
    <2>2. /\ resets' \in [ResetToken -> ResetRow]
          /\ \A k \in ResetToken :
               /\ resets'[k].user = resets[k].user
               /\ resets'[k].st = "unissued" <=> resets[k].st = "unissued"
      <3> DEFINE row == [resets[req[r].rst] EXCEPT !.st = "used"]
      <3>1. \/ resets' = resets
            \/ /\ resets[req[r].rst].st = "active"
               /\ resets' = [resets EXCEPT ![req[r].rst] = row]
        BY <1>0, <1>11 DEF ResetMark, Tables
      <3>2. req[r].rst \in ResetToken =>
              /\ row \in ResetRow
              /\ row.st = "used"
              /\ row.user = resets[req[r].rst].user
        BY <1>0, SMTT(40) DEF Tables, ResetRow
      <3> HIDE DEF row
      <3> QED
        BY <1>0, <3>1, <3>2 DEF Tables
    <2>3. Tables'
      BY <1>0, <1>3, <1>11, <2>2 DEF ResetMark, Tables
    <2> QED
      BY <2>1, <2>3, TypeJoin
  <1> QED
    BY <1>4, <1>5, <1>6, <1>7, <1>8, <1>9, <1>10, <1>11

\* A restart, a logout and the clock.
LEMMA EnvironmentType ==
  ASSUME TypeInv,
         \/ \E r \in Request, pw \in Password : Boot(r, pw)
         \/ \E t \in Token : Logout(t)
         \/ Tick
  PROVE  TypeInv'
  <1>0. Tables /\ HandlersOK
    BY TypeParts
  <1>1. ASSUME NEW r \in Request, NEW pw \in Password, Boot(r, pw)
        PROVE  TypeInv'
    <2> DEFINE h == [Idle EXCEPT !.pc = "bootRevoke", !.user = DefaultUser]
    <2>1. DefaultUser \in User
      BY <1>1, AccountAssumption DEF Boot
    <2>2. h \in Handler /\ HandlerBound(h)
      BY <2>1 DEF Idle, Handler, HandlerBound, WillRevoke, PC, NoAccount,
         Account, Status, Reason
    <2>3. \A x \in Request : req'[x] \in {h, Idle}
      BY <1>1 DEF Boot
    <2>4. req' = [x \in Request |-> req'[x]]
      BY <1>1 DEF Boot
    <2>5. HandlersOK'
      <3> HIDE DEF h
      <3> QED
        BY <2>2, <2>3, <2>4, IdleType DEF HandlersOK
    <2>6. Tables'
      BY <1>0, <1>1 DEF Boot, Tables, Account, Status, Issued
    <2> QED
      BY <2>5, <2>6, TypeJoin
  <1>2. ASSUME NEW t \in Token, Logout(t)
        PROVE  TypeInv'
    <2>1. Tables'
      BY <1>0, <1>2, RevokeTables DEF Logout, RevokeToken, Reason
    <2>2. HandlersOK'
      BY <1>0, <1>2 DEF Logout, HandlersOK
    <2> QED
      BY <2>1, <2>2, TypeJoin
  <1>3. ASSUME Tick
        PROVE  TypeInv'
    BY <1>0, <1>3, TypeJoin DEF Tick, Tables, HandlersOK, Issued
  <1> QED
    BY <1>1, <1>2, <1>3

\* Every step keeps the tables and the handlers well typed.
LEMMA NextType == TypeInv /\ [Next]_vars => TypeInv'
  <1> SUFFICES ASSUME TypeInv, [Next]_vars PROVE TypeInv'
    OBVIOUS
  <1>1. ASSUME NEW r \in Request, Step(r) PROVE TypeInv'
    BY <1>1, IssueType, RevokingType, ReadingType, WritingType DEF Step
  <1>2. ASSUME NEW r \in Request, Call(r) \/ AuthenticatedCall(r) \/ Abort(r)
        PROVE  TypeInv'
    BY <1>2, CallType, AuthenticatedCallType, ReadingType
  <1>3. CASE UNCHANGED vars
    BY <1>3 DEF vars, TypeInv, TypeOK, UsersBound, Issued
  <1> QED
    BY <1>1, <1>2, <1>3, EnvironmentType DEF Next

\* Type correctness of the whole Auth module: every table row and every
\* handler keeps its type, in every interleaving of the handlers.
THEOREM TypeCorrect == Spec => []TypeOK
  <1>1. TypeInv => TypeOK
    BY DEF TypeInv
  <1> QED
    BY <1>1, InitType, NextType, PTL DEF Spec

-----------------------------------------------------------------------------
(* Sessions are chains of rotated tokens: ChainInv is inductive, and what    *)
(* follows from it.                                                          *)

Chained == RowsChained /\ HandlersChained /\ OneRotation

\* A handler that neither holds a row nor extends a chain.
Harmless(h) ==
    /\ h.pc \notin {"loadUser", "rotate"}
    /\ ~Rotating(h)
    /\ h.pc = "registerSave" => h.ses = NoSession

\* Initially there are no rows and no handlers.
LEMMA InitChained == Init => Chained
  BY DEF Init, Chained, RowsChained, HandlersChained, OneRotation, Issued,
     Unissued, Unrevoked, Idle, Rotating

\* A step that leaves the rows alone and only adds harmless handlers.
LEMMA QuietStep ==
  ASSUME TypeOK, Chained, UNCHANGED <<tokens, jwt>>, now' \in Nat, now' >= now,
         \A x \in Request : req'[x] = req[x] \/ Harmless(req'[x])
  PROVE  Chained'
  <1>1. RowsChained'
    BY DEF Chained, RowsChained, Issued, Unrevoked, TypeOK, RefreshRow
  <1>2. HandlersChained'
    BY DEF Chained, HandlersChained, HoldsRow, ContinuesChain, Harmless,
       Rotating, Issued
  <1>3. OneRotation'
    BY DEF Chained, OneRotation, Harmless, Rotating
  <1> QED
    BY <1>1, <1>2, <1>3 DEF Chained

\* A revocation for any reason but rotation, by a handler that then ends.
LEMMA RevokeStep ==
  ASSUME TypeOK, Chained, NEW S \in SUBSET Unrevoked,
         NEW reason \in Reason \ {"rotated"}, tokens' = Revoked(S, reason),
         UNCHANGED <<jwt, now>>,
         \A x \in Request : req'[x] = req[x] \/ Harmless(req'[x])
  PROVE  Chained'
  <1>1. \A t \in Token :
          /\ tokens'[t].st = tokens[t].st
          /\ tokens'[t].user = tokens[t].user
          /\ tokens'[t].ses = tokens[t].ses
          /\ tokens'[t].exp = tokens[t].exp
          /\ tokens'[t].keep = tokens[t].keep
          /\ tokens'[t].rev = IF t \in S THEN reason ELSE tokens[t].rev
    BY RevokedRows DEF TypeOK
  <1>2. \A t \in S : tokens[t].st = "row" /\ tokens[t].rev = "none"
    BY DEF Unrevoked
  <1>3. RowsChained'
    BY <1>1, <1>2 DEF Chained, RowsChained, Issued, Unrevoked
  <1>4. \A h : HoldsRow(h) => HoldsRow(h)'
    BY <1>1 DEF HoldsRow, Issued
  <1>5. \A h : ContinuesChain(h) => ContinuesChain(h)'
    BY <1>1, <1>2 DEF ContinuesChain, Issued
  <1>6. HandlersChained'
    BY <1>4, <1>5
       DEF Chained, HandlersChained, Harmless, HoldsRow, ContinuesChain
  <1>7. OneRotation'
    BY DEF Chained, OneRotation, Harmless, Rotating
  <1> QED
    BY <1>3, <1>6, <1>7 DEF Chained

\* findActiveRefreshToken hands the row's columns to the handler.
LEMMA FindStep ==
  ASSUME TypeOK, Chained, NEW r \in Request, NEW t \in Token, RefreshFind(r, t)
  PROVE  Chained'
  <1> DEFINE h == Holding(t, IF tokens[t].rev = "none" THEN "loadUser"
                                                       ELSE "replay")
  <1>1. /\ req' = [req EXCEPT ![r] = h]
        /\ UNCHANGED <<tokens, jwt, now>>
        /\ Issued(t)
    BY DEF RefreshFind, Issued
  <1>2. ~Rotating(h) /\ h.pc \in {"loadUser", "replay"} /\ HoldsRow(h)
    BY <1>1 DEF Holding, Idle, HoldsRow, Rotating
  <1>3. \A x \in Request : req'[x] = IF x = r THEN h ELSE req[x]
    BY <1>1 DEF TypeOK
  <1> HIDE DEF h
  <1>4. RowsChained'
    BY <1>1 DEF Chained, RowsChained, Issued, Unrevoked
  <1>5. HandlersChained'
    BY <1>1, <1>2, <1>3 DEF Chained, HandlersChained, HoldsRow, ContinuesChain,
       Issued, Rotating
  <1>6. OneRotation'
    BY <1>2, <1>3 DEF Chained, OneRotation, Rotating
  <1> QED
    BY <1>4, <1>5, <1>6 DEF Chained

\* Loading the user keeps the columns for the rotation.
LEMMA LoadUserStep ==
  ASSUME TypeOK, Chained, NEW r \in Request, RefreshLoadUser(r)
  PROVE  Chained'
  <1>1. PICK pc \in {"revokeDenied", "rotate"} :
          /\ \A x \in Request : x # r => req'[x] = req[x]
          /\ req'[r].pc = pc
          /\ req'[r].ses = req[r].ses /\ req'[r].user = req[r].user
          /\ req'[r].tok = req[r].tok /\ req'[r].keep = req[r].keep
    BY DEF RefreshLoadUser, Goto, TypeOK, Handler
  <1>2. UNCHANGED <<tokens, jwt, now>> /\ HoldsRow(req[r])
    BY DEF RefreshLoadUser, At, Chained, HandlersChained
  <1>3. ~Rotating(req'[r])
    BY <1>1 DEF Rotating
  <1>4. RowsChained'
    BY <1>2 DEF Chained, RowsChained, Issued, Unrevoked
  <1>5. HandlersChained'
    BY <1>1, <1>2, <1>3 DEF Chained, HandlersChained, HoldsRow, ContinuesChain,
       Issued, Rotating
  <1>6. OneRotation'
    BY <1>1, <1>3 DEF Chained, OneRotation, Rotating
  <1> QED
    BY <1>4, <1>5, <1>6 DEF Chained

\* The guarded UPDATE of a rotation: its winner finds the only unrevoked row
\* of the session, so every row is rotated once the handler goes on to mint.
LEMMA RotateStep ==
  ASSUME TypeOK, Chained, NEW r \in Request, RefreshRotate(r)
  PROVE  Chained'
  <1> DEFINE k == req[r].tok
             s == req[r].ses
  <1>1. HoldsRow(req[r]) /\ UNCHANGED <<jwt, now>>
    BY DEF RefreshRotate, At, Chained, HandlersChained
  <1>2. k \in Token /\ Issued(k) /\ tokens[k].ses = s
        /\ tokens[k].user = req[r].user /\ tokens[k].keep = req[r].keep
    BY <1>1 DEF HoldsRow
  <1>3. \A t \in Token :
          /\ tokens'[t].st = tokens[t].st
          /\ tokens'[t].user = tokens[t].user
          /\ tokens'[t].ses = tokens[t].ses
          /\ tokens'[t].exp = tokens[t].exp
          /\ tokens'[t].keep = tokens[t].keep
          /\ tokens'[t].rev = IF t \in {k} \cap Unrevoked THEN "rotated"
                                                         ELSE tokens[t].rev
    BY RevokedRows DEF TypeOK, RefreshRotate, RevokeToken, Reason
  <1>4. CASE k \notin Unrevoked
    <2>1. tokens' = tokens
      BY <1>4 DEF RefreshRotate, RevokeToken, Revoked, TypeOK
    <2>2. \A x \in Request : req'[x] = req[x] \/ Harmless(req'[x])
      BY <1>4 DEF RefreshRotate, Finish, TypeOK, Idle, Harmless, Rotating
    <2> QED
      BY <1>1, <2>1, <2>2, QuietStep DEF TypeOK
  <1>5. CASE k \in Unrevoked
    <2>1. /\ \A x \in Request : x # r => req'[x] = req[x]
          /\ req'[r].pc = "issue" /\ req'[r].ses = s
          /\ req'[r].user = req[r].user /\ req'[r].keep = req[r].keep
      BY <1>5 DEF RefreshRotate, Goto, TypeOK, Handler
    <2>2. \A t \in Token : (Issued(t) /\ tokens[t].ses = s)
            => /\ tokens'[t].rev = "rotated"
               /\ tokens[t].user = req[r].user /\ tokens[t].keep = req[r].keep
      BY <1>2, <1>3, <1>5 DEF Chained, RowsChained
    <2>3. tokens[k].st = "row" /\ tokens[k].rev = "none"
      BY <1>5 DEF Unrevoked
    <2>4. RowsChained'
      BY <1>1, <1>3, <2>3 DEF Chained, RowsChained, Issued, Unrevoked
    <2>5. \A h : HoldsRow(h) => HoldsRow(h)'
      BY <1>3 DEF HoldsRow, Issued
    <2>6. \A h : ContinuesChain(h) => ContinuesChain(h)' /\ h.ses # s
      BY <1>1, <1>2, <1>3, <2>3 DEF ContinuesChain, Issued
    <2>7. ContinuesChain(req[r])'
      BY <1>1, <1>2, <1>3, <2>1, <2>2
         DEF ContinuesChain, Issued, Chained, RowsChained
    <2>8. HandlersChained'
      BY <2>1, <2>5, <2>6, <2>7 DEF Chained, HandlersChained, HoldsRow,
         ContinuesChain
    <2>9. OneRotation'
      BY <2>1, <2>6 DEF Chained, OneRotation, HandlersChained, Rotating
    <2> QED
      BY <2>4, <2>8, <2>9 DEF Chained
  <1> QED
    BY <1>4, <1>5

\* The opportunistic DELETE only reaches expired rows.
LEMMA PruneStep ==
  ASSUME TypeOK, Chained, NEW r \in Request, IssuePrune(r)
  PROVE  Chained'
  <1>1. /\ \A x \in Request : x # r => req'[x] = req[x]
        /\ req'[r].pc = "insert" /\ req[r].pc = "issue"
        /\ req'[r].ses = req[r].ses
        /\ req'[r].user = req[r].user /\ req'[r].keep = req[r].keep
        /\ UNCHANGED <<jwt, now>>
    BY DEF IssuePrune, At, TypeOK, Handler
  <1>2. \A t \in Token :
          /\ tokens'[t].user = tokens[t].user
          /\ tokens'[t].ses = tokens[t].ses
          /\ tokens'[t].exp = tokens[t].exp
          /\ tokens'[t].keep = tokens[t].keep
          /\ tokens'[t].rev = tokens[t].rev
          /\ \/ tokens'[t].st = tokens[t].st
             \/ /\ tokens[t].st = "row" /\ tokens'[t].st = "pruned"
                /\ tokens[t].exp < now
    BY DEF IssuePrune, TypeOK, RefreshRow
  <1>3. RowsChained'
    BY <1>1, <1>2 DEF Chained, RowsChained, Issued, Unrevoked
  <1>4. \A h : HoldsRow(h) => HoldsRow(h)'
    BY <1>2 DEF HoldsRow, Issued
  <1>5. \A h : ContinuesChain(h) => ContinuesChain(h)'
    BY <1>1, <1>2 DEF ContinuesChain, Issued
  <1>6. Rotating(req[r])' => ContinuesChain(req[r])'
    BY <1>1, <1>2 DEF Chained, HandlersChained, Rotating, ContinuesChain, Issued
  <1>7. HandlersChained'
    BY <1>1, <1>4, <1>5, <1>6 DEF Chained, HandlersChained, Rotating
  <1>8. OneRotation'
    BY <1>1 DEF Chained, OneRotation, Rotating
  <1> QED
    BY <1>3, <1>7, <1>8 DEF Chained

\* The INSERT opens a new session or adds the next row of a rotated chain.
LEMMA InsertStep ==
  ASSUME TypeInv, Chained, NEW r \in Request, IssueInsert(r)
  PROVE  Chained'
  <1>0. TypeOK /\ UsersBound
    BY DEF TypeInv
  <1>1. PICK t \in Token, s \in SessionOf(r) :
          /\ tokens[t].st = "unissued"
          /\ tokens' = [tokens EXCEPT ![t] =
                          [st |-> "row", user |-> req[r].user, ses |-> s,
                           exp |-> req[r].at + Ttl(req[r].keep),
                           rev |-> "none", keep |-> req[r].keep,
                           cred |-> req[r].pw]]
          /\ jwt' = [jwt EXCEPT ![s] = [sub |-> req[r].user,
                                        exp |-> req[r].at + AccessTtl]]
    BY DEF IssueInsert
  <1>2. req[r].pc = "insert" /\ req[r].user \in User /\ now' = now
    BY <1>0 DEF IssueInsert, At, UsersBound, HandlerBound
  <1>3. s \in Session
    BY <1>0 DEF SessionOf, TypeOK, Handler
  <1>4. /\ \A x \in Request : x # r => req'[x] = req[x]
        /\ Harmless(req[r])'
    BY <1>0 DEF IssueInsert, Finish, TypeOK, Idle, Harmless, Rotating
  <1>5. /\ \A x \in Token : x # t => tokens'[x] = tokens[x]
        /\ tokens'[t].st = "row" /\ tokens'[t].rev = "none"
        /\ tokens'[t].ses = s /\ tokens'[t].user = req[r].user
        /\ tokens'[t].keep = req[r].keep
    BY <1>0, <1>1 DEF TypeOK
  <1>6. \A x \in Session : jwt[x].sub # NoUser => jwt'[x].sub # NoUser
    BY <1>0, <1>1, <1>2, AccountAssumption DEF TypeOK
  <1>7. jwt'[s].sub # NoUser
    BY <1>0, <1>1, <1>2, <1>3, AccountAssumption DEF TypeOK
  <1>8. \A x \in Token : (Issued(x) /\ tokens[x].ses = s) =>
          /\ tokens[x].rev = "rotated"
          /\ tokens[x].user = req[r].user
          /\ tokens[x].keep = req[r].keep
    <2>1. CASE req[r].ses # NoSession
      <3>1. s = req[r].ses
        BY <2>1 DEF SessionOf
      <3> QED
        BY <1>2, <2>1, <3>1 DEF Chained, HandlersChained, Rotating,
           ContinuesChain
    <2>2. CASE req[r].ses = NoSession
      <3>1. jwt[s].sub = NoUser
        BY <2>2 DEF SessionOf
      <3> QED
        BY <3>1 DEF Chained, RowsChained
    <2> QED
      BY <2>1, <2>2
  <1>9. \A x \in Request : (x # r /\ Rotating(req[x])) => req[x].ses # s
    <2> SUFFICES ASSUME NEW x \in Request, x # r, Rotating(req[x]),
                        req[x].ses = s
                 PROVE  FALSE
      OBVIOUS
    <2>1. jwt[s].sub # NoUser
      BY DEF Chained, HandlersChained, ContinuesChain
    <2>2. s = req[r].ses /\ req[r].ses # NoSession
      BY <2>1 DEF SessionOf
    <2> QED
      BY <1>2, <2>2 DEF Chained, OneRotation, Rotating
  <1>10. RowsChained'
    <2>1. \A x \in Token :
            /\ tokens'[x].st = "unissued" => tokens'[x].rev = "none"
            /\ tokens'[x].st = "pruned" => tokens'[x].exp < now
            /\ tokens'[x].st # "unissued" => /\ tokens'[x].ses \in Session
                                             /\ jwt'[tokens'[x].ses].sub # NoUser
      BY <1>3, <1>5, <1>6, <1>7 DEF Chained, RowsChained, Issued
    <2>2. ASSUME NEW t1 \in Token, NEW t2 \in Token,
                 tokens'[t1].st # "unissued", tokens'[t2].st # "unissued",
                 tokens'[t1].ses = tokens'[t2].ses
          PROVE  /\ tokens'[t1].user = tokens'[t2].user
                 /\ tokens'[t1].keep = tokens'[t2].keep
                 /\ (/\ t1 # t2 /\ tokens'[t1].st = "row"
                     /\ tokens'[t1].rev = "none")
                    => tokens'[t2].rev = "rotated"
      <3>1. CASE t1 # t /\ t2 # t
        BY <1>5, <2>2, <3>1 DEF Chained, RowsChained, Issued, Unrevoked
      <3>2. CASE t1 = t /\ t2 # t
        BY <1>5, <1>8, <2>2, <3>2 DEF Issued
      <3>3. CASE t1 # t /\ t2 = t
        BY <1>5, <1>8, <2>2, <3>3 DEF Issued
      <3>4. CASE t1 = t /\ t2 = t
        BY <1>5, <2>2, <3>4
      <3> QED
        BY <3>1, <3>2, <3>3, <3>4
    <2> QED
      BY <1>2, <2>1, <2>2 DEF RowsChained, Issued, Unrevoked
  <1>11. HandlersChained'
    <2>1. ASSUME NEW x \in Request, x # r, req[x].pc \in {"loadUser", "rotate"}
          PROVE  HoldsRow(req[x])'
      BY <1>1, <1>4, <1>5, <2>1 DEF Chained, HandlersChained, HoldsRow, Issued
    <2>2. ASSUME NEW x \in Request, x # r, Rotating(req[x])
          PROVE  ContinuesChain(req[x])'
      BY <1>4, <1>5, <1>6, <1>9, <2>2
         DEF Chained, HandlersChained, ContinuesChain, Issued
    <2> QED
      BY <1>4, <2>1, <2>2 DEF Chained, HandlersChained, Harmless, Rotating
  <1>12. OneRotation'
    BY <1>4 DEF Chained, OneRotation, Harmless, Rotating
  <1> QED
    BY <1>10, <1>11, <1>12 DEF Chained

\* Arriving calls, except a refresh, start harmless handlers.
LEMMA CallChained ==
  ASSUME TypeOK, Chained, NEW r \in Request, Call(r) \/ AuthenticatedCall(r)
  PROVE  Chained'
  <1>0. ASSUME NEW h, Harmless(h), req' = [req EXCEPT ![r] = h],
               UNCHANGED <<tokens, jwt, now>>
        PROVE  Chained'
    <2>1. \A x \in Request : req'[x] = req[x] \/ Harmless(req'[x])
      BY <1>0 DEF TypeOK
    <2> QED
      BY <1>0, <2>1, QuietStep DEF TypeOK
  <1>1. ASSUME NEW u \in User, NEW pw \in Password, RegisterCheck(r, u, pw)
        PROVE  Chained'
    BY <1>0, <1>1 DEF RegisterCheck, Idle, Harmless, Rotating
  <1>2. ASSUME NEW u \in User, NEW pw \in Password, NEW keep \in BOOLEAN,
               Login(r, u, pw, keep)
        PROVE  Chained'
    BY <1>0, <1>2 DEF Login, Idle, Harmless, Rotating
  <1>3. ASSUME NEW t \in Token, RefreshFind(r, t)
        PROVE  Chained'
    BY <1>3, FindStep
  <1>4. ASSUME NEW t \in Token \cup {NoToken}, StatusFind(r, t)
        PROVE  Chained'
    BY <1>0, <1>4 DEF StatusFind, Holding, Idle, Harmless, Rotating
  <1>5. ASSUME NEW u \in User, Recover(r, u)
        PROVE  Chained'
    BY <1>0, <1>5 DEF Recover, Idle, Harmless, Rotating
  <1>6. ASSUME NEW k \in ResetToken, NEW pw \in Password, ResetFind(r, k, pw)
        PROVE  Chained'
    BY <1>0, <1>6 DEF ResetFind, Idle, Harmless, Rotating
  <1>7. CASE Call(r)
    BY <1>1, <1>2, <1>3, <1>4, <1>5, <1>6, <1>7 DEF Call
  <1>8. CASE AuthenticatedCall(r)
    <2> PICK s \in Session : AuthenticatedCall(r)!(s)
      BY <1>8 DEF AuthenticatedCall
    <2>1. ASSUME NEW target \in Session, Revoke(r, s, target)
          PROVE  Chained'
      BY <1>0, <2>1 DEF Revoke, Admit, Idle, Harmless, Rotating
    <2>2. ASSUME NEW t \in Token, RevokeOthers(r, s, t)
          PROVE  Chained'
      BY <1>0, <2>2 DEF RevokeOthers, Admit, Idle, Harmless, Rotating
    <2>3. ASSUME NEW t \in Token \cup {NoToken}, NEW pw \in Password \cup {NoPw},
                 UpdateAccount(r, s, t, pw)
          PROVE  Chained'
      <3> DEFINE h == [Idle EXCEPT !.pc = "loadAccount", !.user = jwt[s].sub,
                         !.tok = t,
                         !.ses = IF t \in Unrevoked /\ tokens[t].user = jwt[s].sub
                                   THEN tokens[t].ses ELSE NoSession,
                         !.pw = pw, !.why = "password_change"]
      <3>1. Harmless(h)
        BY DEF Idle, Harmless, Rotating
      <3>2. req' = [req EXCEPT ![r] = h] /\ UNCHANGED <<tokens, jwt, now>>
        BY <2>3 DEF UpdateAccount, Admit
      <3> HIDE DEF h
      <3> QED
        BY <1>0, <3>1, <3>2
    <2>4. ASSUME NEW u \in User, NEW pw \in Password \cup {NoPw},
                 EditUser(r, s, u, pw)
          PROVE  Chained'
      BY <1>0, <2>4, ZenonT(60)
         DEF EditUser, AdmitAdmin, Admit, Idle, Harmless, Rotating
    <2>5. ASSUME NEW u \in User,
                 ApproveUser(r, s, u) \/ DenyUser(r, s, u)
                 \/ GenerateRecoveryLink(r, s, u)
          PROVE  Chained'
      BY <1>0, <2>5, Zenon DEF ApproveUser, DenyUser, GenerateRecoveryLink,
         AdmitAdmin, Admit, Idle, Harmless, Rotating
    <2> QED
      BY <2>1, <2>2, <2>3, <2>4, <2>5
  <1> QED
    BY <1>7, <1>8

\* Statements that write no token row and leave a harmless handler.
LEMMA QuietStatements ==
  ASSUME TypeOK, Chained, NEW r \in Request,
         \/ RegisterSave(r) \/ StatusLoadUser(r) \/ AutoLogin(r)
         \/ RevokeOthersFind(r) \/ LoadAccount(r) \/ LoadEdit(r)
         \/ ApplyUserUpdate(r) \/ ApproveUpdate(r) \/ DenyUpdate(r)
         \/ PruneSpentTokens(r) \/ SaveReset(r) \/ ResetLoadUser(r)
         \/ ResetPassword(r) \/ ResetMark(r) \/ Abort(r)
  PROVE  Chained'
  <1>0. ASSUME Harmless(req[r])', \A x \in Request : x # r => req'[x] = req[x],
               UNCHANGED <<tokens, jwt, now>>
        PROVE  Chained'
    BY <1>0, QuietStep DEF TypeOK, Harmless, Rotating
  <1> USE DEF At, Goto, Finish, Idle, Harmless, Rotating
  <1>1. CASE RegisterSave(r)
    <2>1. req[r].ses = NoSession
      BY <1>1 DEF RegisterSave, Chained, HandlersChained
    <2> QED
      BY <1>0, <1>1, <2>1 DEF RegisterSave, TypeOK, Handler
  <1>2. CASE StatusLoadUser(r)
    BY <1>0, <1>2 DEF StatusLoadUser, TypeOK, Handler
  <1>3. CASE AutoLogin(r)
    BY <1>0, <1>3 DEF AutoLogin, TypeOK
  <1>4. CASE RevokeOthersFind(r)
    BY <1>0, <1>4 DEF RevokeOthersFind, TypeOK, Handler
  <1>5. CASE LoadAccount(r) \/ LoadEdit(r)
    BY <1>0, <1>5 DEF LoadAccount, LoadEdit, TypeOK, Handler
  <1>6. CASE ApplyUserUpdate(r)
    BY <1>0, <1>6 DEF ApplyUserUpdate, TypeOK, Handler
  <1>7. CASE ApproveUpdate(r) \/ DenyUpdate(r)
    BY <1>0, <1>7 DEF ApproveUpdate, DenyUpdate, TypeOK, Handler
  <1>8. CASE PruneSpentTokens(r) \/ SaveReset(r)
    BY <1>0, <1>8 DEF PruneSpentTokens, SaveReset, TypeOK, Handler
  <1>9. CASE ResetLoadUser(r) \/ ResetPassword(r) \/ ResetMark(r)
    BY <1>0, <1>9 DEF ResetLoadUser, ResetPassword, ResetMark, TypeOK, Handler
  <1>10. CASE Abort(r)
    BY <1>0, <1>10 DEF Abort, TypeOK
  <1> QED
    BY <1>1, <1>2, <1>3, <1>4, <1>5, <1>6, <1>7, <1>8, <1>9, <1>10

\* Statements that revoke rows for a reason other than rotation.
LEMMA RevokingStatements ==
  ASSUME TypeInv, Chained, NEW r \in Request,
         \/ RefreshReplay(r) \/ RefreshRevokeDenied(r) \/ StatusRevokeDenied(r)
         \/ RevokeUpdate(r) \/ RevokeOthersUpdate(r) \/ RevokeUser(r)
         \/ BootRevoke(r)
  PROVE  Chained'
  <1>0. TypeOK /\ HandlerBound(req[r]) /\ req[r] \in Handler
    BY DEF TypeInv, TypeOK, UsersBound
  <1>1. \A x \in Request : req'[x] = req[x] \/ Harmless(req'[x])
    BY <1>0 DEF TypeOK, RefreshReplay, RefreshRevokeDenied, StatusRevokeDenied,
       RevokeUpdate, RevokeOthersUpdate, RevokeUser, BootRevoke, Finish, Idle,
       Harmless, Rotating
  <1>2. \A u, t : {x \in Unrevoked : tokens[x].user = u /\ x # t}
                    \in SUBSET Unrevoked
    OBVIOUS
  <1>3. CASE RefreshReplay(r) \/ BootRevoke(r)
    BY <1>0, <1>1, <1>2, <1>3, RevokeStep
       DEF RefreshReplay, BootRevoke, RevokeUserTokens, Reason
  <1>4. CASE RefreshRevokeDenied(r) \/ StatusRevokeDenied(r)
    BY <1>0, <1>1, <1>4, RevokeStep
       DEF RefreshRevokeDenied, StatusRevokeDenied, RevokeToken, Reason
  <1>5. CASE RevokeUpdate(r)
    BY <1>0, <1>1, <1>5, RevokeStep DEF RevokeUpdate, Reason
  <1>6. CASE RevokeOthersUpdate(r)
    BY <1>0, <1>1, <1>6, RevokeStep DEF RevokeOthersUpdate, Reason
  <1>7. CASE RevokeUser(r)
    <2>1. req[r].why \in Reason \ {"rotated"}
      BY <1>0, <1>7 DEF RevokeUser, At, HandlerBound, WillRevoke, Handler
    <2> QED
      BY <1>0, <1>1, <1>2, <1>7, <2>1, RevokeStep
         DEF RevokeUser, RevokeUserTokens
  <1> QED
    BY <1>3, <1>4, <1>5, <1>6, <1>7

\* A restart, a logout and the clock.
LEMMA EnvironmentChained ==
  ASSUME TypeOK, Chained,
         \/ \E r \in Request, pw \in Password : Boot(r, pw)
         \/ \E t \in Token : Logout(t)
         \/ Tick
  PROVE  Chained'
  <1>1. ASSUME NEW r \in Request, NEW pw \in Password, Boot(r, pw)
        PROVE  Chained'
    <2>1. \A x \in Request : Harmless(req'[x])
      BY <1>1 DEF Boot, Idle, Harmless, Rotating
    <2> QED
      BY <1>1, <2>1, QuietStep DEF Boot, TypeOK
  <1>2. ASSUME NEW t \in Token, Logout(t)
        PROVE  Chained'
    BY <1>2, RevokeStep DEF Logout, RevokeToken, Reason
  <1>3. CASE Tick
    BY <1>3, QuietStep DEF Tick, TypeOK
  <1> QED
    BY <1>1, <1>2, <1>3

\* Every step keeps the chains.
LEMMA NextChained == TypeInv /\ Chained /\ [Next]_vars => Chained'
  <1> SUFFICES ASSUME TypeInv, Chained, [Next]_vars PROVE Chained'
    OBVIOUS
  <1>0. TypeOK
    BY DEF TypeInv
  <1>1. ASSUME NEW r \in Request, Step(r) PROVE Chained'
    BY <1>0, <1>1, PruneStep, InsertStep, RotateStep, LoadUserStep,
       QuietStatements, RevokingStatements DEF Step
  <1>2. ASSUME NEW r \in Request, Call(r) \/ AuthenticatedCall(r) \/ Abort(r)
        PROVE  Chained'
    BY <1>0, <1>2, CallChained, QuietStatements
  <1>3. CASE UNCHANGED vars
    BY <1>0, <1>3, QuietStep DEF vars, TypeOK
  <1> QED
    BY <1>0, <1>1, <1>2, <1>3, EnvironmentChained DEF Next

\* The inductive invariant of the session chains holds in every reachable
\* state, whatever the handlers interleave.
THEOREM ChainsHold == Spec => []ChainInv
  <1>1. Init => TypeInv /\ Chained
    BY InitType, InitChained
  <1>2. TypeInv /\ Chained /\ [Next]_vars => (TypeInv /\ Chained)'
    BY NextType, NextChained
  <1>3. TypeInv /\ Chained => ChainInv
    BY DEF TypeInv, Chained, ChainInv
  <1> QED
    BY <1>1, <1>2, <1>3, PTL DEF Spec

\* A session never has two unrevoked tokens: concurrent refreshes of one token
\* have one winner, and a failure between rotation and insert adds none.
THEOREM OneLiveToken == Spec => []OneLiveTokenPerSession
  <1>1. ChainInv => OneLiveTokenPerSession
    BY DEF ChainInv, RowsChained, OneLiveTokenPerSession, Unrevoked, Issued
  <1> QED
    BY <1>1, ChainsHold, PTL

\* A session that was ended (logout, revoke, password change, replay, deny) is
\* never brought back by a refresh that was in flight.
THEOREM EndedStaysEnded == Spec => []EndedSessionStaysEnded
  <1>1. ChainInv => EndedSessionStaysEnded
    BY DEF ChainInv, RowsChained, EndedSessionStaysEnded, Unrevoked, Issued
  <1> QED
    BY <1>1, ChainsHold, PTL

\* All rows of a session belong to one user and share keepSignedIn.
THEOREM IdentityKept == Spec => []SessionIdentityKept
  <1>1. ChainInv => SessionIdentityKept
    BY DEF ChainInv, RowsChained, SessionIdentityKept, Issued
  <1> QED
    BY <1>1, ChainsHold, PTL

\* A rotated row is still there as long as refresh would recognise a replay.
THEOREM ReplayDetectable == Spec => []ReplayStaysDetectable
  <1>1. TypeOK /\ ChainInv => ReplayStaysDetectable
    BY DEF ChainInv, RowsChained, ReplayStaysDetectable, TypeOK, RefreshRow
  <1> QED
    BY <1>1, ChainsHold, TypeCorrect, PTL

\* What a step may do to a row that is already revoked: nothing to its reason.
LEMMA RevokedRowsKept ==
  ASSUME TypeOK, RowsChained, [Next]_vars, NEW t \in Token,
         tokens[t].rev # "none"
  PROVE  tokens'[t].rev = tokens[t].rev
  <1>1. ASSUME NEW S \in SUBSET Unrevoked, NEW reason,
               tokens' = Revoked(S, reason)
        PROVE  tokens'[t].rev = tokens[t].rev
    <2>1. t \notin S
      BY DEF Unrevoked
    <2> QED
      BY <1>1, <2>1 DEF Revoked
  <1>2. ASSUME NEW u, NEW reason, NEW k, RevokeUserTokens(u, reason, k)
        PROVE  tokens'[t].rev = tokens[t].rev
    BY <1>1, <1>2 DEF RevokeUserTokens
  <1>3. ASSUME NEW k, NEW reason, RevokeToken(k, reason)
        PROVE  tokens'[t].rev = tokens[t].rev
    BY <1>1, <1>3, SMTT(40) DEF RevokeToken
  <1>4. ASSUME NEW r \in Request, Step(r)
        PROVE  tokens'[t].rev = tokens[t].rev
    <2>1. CASE IssuePrune(r)
      BY <2>1 DEF IssuePrune, TypeOK, RefreshRow
    <2>2. CASE IssueInsert(r)
      BY <2>2 DEF IssueInsert, TypeOK, RowsChained
    <2>3. CASE RefreshReplay(r) \/ RevokeUser(r) \/ BootRevoke(r)
      BY <1>2, <2>3 DEF RefreshReplay, RevokeUser, BootRevoke
    <2>4. CASE RefreshRevokeDenied(r) \/ RefreshRotate(r) \/ StatusRevokeDenied(r)
      BY <1>3, <2>4 DEF RefreshRevokeDenied, RefreshRotate, StatusRevokeDenied
    <2>5. CASE RevokeUpdate(r) \/ RevokeOthersUpdate(r)
      BY <1>1, <2>5 DEF RevokeUpdate, RevokeOthersUpdate
    <2>6. CASE tokens' = tokens
      BY <2>6, ZenonT(60)
    <2> QED
      BY <1>4, <2>1, <2>2, <2>3, <2>4, <2>5, <2>6
         DEF Step, RegisterSave, RefreshLoadUser, StatusLoadUser, AutoLogin,
             RevokeOthersFind, LoadAccount, LoadEdit, ApplyUserUpdate,
             ApproveUpdate, DenyUpdate, PruneSpentTokens, SaveReset,
             ResetLoadUser, ResetPassword, ResetMark
  <1>5. ASSUME NEW r \in Request, Call(r) \/ AuthenticatedCall(r) \/ Abort(r)
        PROVE  tokens' = tokens
    BY <1>5, ZenonT(60)
       DEF Call, RegisterCheck, Login, RefreshFind, StatusFind, Recover,
       ResetFind, AuthenticatedCall, Revoke, RevokeOthers, UpdateAccount,
       EditUser, ApproveUser, DenyUser, GenerateRecoveryLink, AdmitAdmin,
       Admit, Abort
  <1>6. ASSUME NEW k \in Token, Logout(k)
        PROVE  tokens'[t].rev = tokens[t].rev
    BY <1>3, <1>6 DEF Logout
  <1> QED
    BY <1>4, <1>5, <1>6 DEF Next, Boot, Tick, vars

\* A revoked token stays revoked, and for the reason first recorded.
THEOREM RevocationPermanent == Spec => RevocationIsPermanent
  <1>1. TypeOK /\ ChainInv /\ [Next]_vars
        => [\A t \in Token : tokens[t].rev # "none"
                               => tokens'[t].rev = tokens[t].rev]_tokens
    BY RevokedRowsKept DEF ChainInv
  <1> QED
    BY <1>1, ChainsHold, TypeCorrect, PTL DEF Spec, RevocationIsPermanent

-----------------------------------------------------------------------------
(* The handlers' own slots: what a step of one leaves to the others.       *)

\* A step of one handler leaves every other handler where it is.
LEMMA OwnSlot ==
  ASSUME TypeOK, NEW r \in Request,
         Call(r) \/ AuthenticatedCall(r) \/ Step(r) \/ Abort(r),
         NEW x \in Request, x # r
  PROVE  req'[x] = req[x]
  <1> DEFINE Mine == \A y \in Request : y # r => req'[y] = req[y]
  <1> SUFFICES Mine
    OBVIOUS
  <1>0. req \in [Request -> Handler]
    BY DEF TypeOK
  <1>1. ASSUME NEW h, req' = [req EXCEPT ![r] = h] PROVE Mine
    BY <1>0, <1>1
  <1>2. ASSUME NEW pc, Goto(r, pc) PROVE Mine
    BY <1>0, <1>2 DEF Goto
  <1>3. Finish(r) => Mine
    BY <1>1 DEF Finish
  <1> HIDE DEF Mine
  <1>4. CASE Call(r)
    BY <1>1, <1>4, ZenonT(60)
       DEF Call, RegisterCheck, Login, RefreshFind, StatusFind,
       Recover, ResetFind
  <1>5. CASE AuthenticatedCall(r)
    BY <1>1, <1>5, ZenonT(60)
       DEF AuthenticatedCall, Revoke, RevokeOthers, UpdateAccount,
       EditUser, ApproveUser, DenyUser, GenerateRecoveryLink, AdmitAdmin, Admit
  <1>6. CASE IssuePrune(r)
    <2>1. req' = [req EXCEPT ![r] = [req[r] EXCEPT !.pc = "insert", !.at = now]]
      BY <1>0, <1>6 DEF IssuePrune
    <2> QED
      BY <1>1, <2>1
  <1>7. CASE \/ IssueInsert(r) \/ RefreshReplay(r) \/ RefreshRevokeDenied(r)
             \/ RevokeUpdate(r) \/ RevokeOthersUpdate(r) \/ RevokeUser(r)
             \/ ApproveUpdate(r) \/ SaveReset(r) \/ BootRevoke(r) \/ Abort(r)
    BY <1>3, <1>7 DEF IssueInsert, RefreshReplay, RefreshRevokeDenied,
       RevokeUpdate, RevokeOthersUpdate, RevokeUser, ApproveUpdate, SaveReset,
       BootRevoke, Abort
  <1>8. CASE \/ RegisterSave(r) \/ RefreshLoadUser(r) \/ RefreshRotate(r)
             \/ StatusLoadUser(r) \/ ApplyUserUpdate(r) \/ DenyUpdate(r)
             \/ PruneSpentTokens(r) \/ ResetLoadUser(r) \/ ResetPassword(r)
             \/ ResetMark(r)
    BY <1>2, <1>3, <1>8 DEF RegisterSave, RefreshLoadUser, RefreshRotate,
       StatusLoadUser, ApplyUserUpdate, DenyUpdate, PruneSpentTokens,
       ResetLoadUser, ResetPassword, ResetMark
  <1>9. CASE StatusRevokeDenied(r) \/ AutoLogin(r)
    BY <1>1, <1>3, <1>9 DEF StatusRevokeDenied, AutoLogin
  <1>10. CASE RevokeOthersFind(r)
    <2>1. \/ req' = [req EXCEPT ![r] = [req[r] EXCEPT
                       !.pc = "revokeOthersUpdate",
                       !.ses = tokens[req[r].tok].ses]]
          \/ Finish(r)
      BY <1>0, <1>10 DEF RevokeOthersFind
    <2> QED
      BY <1>1, <1>3, <2>1
  <1>11. CASE LoadAccount(r) \/ LoadEdit(r)
    <2>1. \/ req' = [req EXCEPT ![r] = [req[r] EXCEPT
                       !.pc = "save", !.snap = users[req[r].user]]]
          \/ Finish(r)
      BY <1>0, <1>11 DEF LoadAccount, LoadEdit
    <2> QED
      BY <1>1, <1>3, <2>1
  <1> QED
    BY <1>4, <1>5, <1>6, <1>7, <1>8, <1>9, <1>10, <1>11 DEF Step

-----------------------------------------------------------------------------
(* The default user: only a boot changes it.                               *)

\* The states of a handler that will write a loaded or named account.
AccountWriter == {"loadAccount", "loadEdit", "save", "deny", "resetUser",
                  "resetPassword"}

\* assertNotDefaultUser ran before the handler got there.
SparesDefaultUser(h) == h.pc \in AccountWriter => ~IsDefaultUser(h.user)

\* The default user is approved, so that the guarded writes of register and
\* approve miss it, and no unguarded write is on its way to it.
Managed ==
    DefaultUser # NoUser =>
        /\ users[DefaultUser].status = "approved"
        /\ \A r \in Request : SparesDefaultUser(req[r])

\* The default user is one of the seeded accounts, and no handler runs yet.
LEMMA InitManaged == Init => Managed
  BY AccountAssumption DEF Init, Managed, SparesDefaultUser, AccountWriter, Idle

\* A handler at its first statement: not on its way to write the default
\* user, and with the read of revokeOthers still before it.
Starts(h) == SparesDefaultUser(h) /\ h.pc # "revokeOthersUpdate"

\* A call that arrives writes no account, and assertNotDefaultUser stops it
\* where it would lead to such a write.
LEMMA CallStarts ==
  ASSUME TypeOK, NEW r \in Request, Call(r) \/ AuthenticatedCall(r)
  PROVE  users' = users /\ Starts(req'[r])
  <1> DEFINE Goal == users' = users /\ Starts(req'[r])
  <1> SUFFICES Goal
    OBVIOUS
  <1>0. ASSUME NEW h, Starts(h), req' = [req EXCEPT ![r] = h], users' = users
        PROVE  Goal
    BY <1>0 DEF TypeOK
  <1> HIDE DEF Goal
  <1> USE DEF Starts, SparesDefaultUser, AccountWriter, Idle, IsDefaultUser
  <1>1. ASSUME NEW u \in User, NEW pw \in Password, RegisterCheck(r, u, pw)
        PROVE  Goal
    BY <1>0, <1>1 DEF RegisterCheck
  <1>2. ASSUME NEW u \in User, NEW pw \in Password, NEW keep \in BOOLEAN,
               Login(r, u, pw, keep)
        PROVE  Goal
    BY <1>0, <1>2 DEF Login
  <1>3. ASSUME NEW t \in Token, RefreshFind(r, t)
        PROVE  Goal
    <2> DEFINE h == Holding(t, IF tokens[t].rev = "none" THEN "loadUser"
                                                         ELSE "replay")
    <2>1. Starts(h)
      <3>1. h.pc \in {"loadUser", "replay"}
        BY DEF Holding
      <3> QED
        BY <3>1
    <2>2. req' = [req EXCEPT ![r] = h] /\ users' = users
      BY <1>3 DEF RefreshFind
    <2> HIDE DEF h
    <2> QED
      BY <1>0, <2>1, <2>2
  <1>4. ASSUME NEW t \in Token \cup {NoToken}, StatusFind(r, t)
        PROVE  Goal
    BY <1>0, <1>4 DEF StatusFind, Holding
  <1>5. ASSUME NEW u \in User, Recover(r, u)
        PROVE  Goal
    BY <1>0, <1>5 DEF Recover
  <1>6. ASSUME NEW k \in ResetToken, NEW pw \in Password, ResetFind(r, k, pw)
        PROVE  Goal
    BY <1>0, <1>6 DEF ResetFind
  <1>7. CASE Call(r)
    BY <1>1, <1>2, <1>3, <1>4, <1>5, <1>6, <1>7 DEF Call
  <1>8. CASE AuthenticatedCall(r)
    <2> PICK s \in Session : AuthenticatedCall(r)!(s)
      BY <1>8 DEF AuthenticatedCall
    <2>1. ASSUME NEW target \in Session, Revoke(r, s, target)
          PROVE  Goal
      BY <1>0, <2>1 DEF Revoke, Admit
    <2>2. ASSUME NEW t \in Token, RevokeOthers(r, s, t)
          PROVE  Goal
      BY <1>0, <2>2 DEF RevokeOthers, Admit
    <2>3. ASSUME NEW t \in Token \cup {NoToken}, NEW pw \in Password \cup {NoPw},
                 UpdateAccount(r, s, t, pw)
          PROVE  Goal
      <3> DEFINE h == [Idle EXCEPT !.pc = "loadAccount", !.user = jwt[s].sub,
                         !.tok = t,
                         !.ses = IF t \in Unrevoked /\ tokens[t].user = jwt[s].sub
                                   THEN tokens[t].ses ELSE NoSession,
                         !.pw = pw, !.why = "password_change"]
      <3>1. jwt[s].sub # DefaultUser
        BY <2>3 DEF UpdateAccount
      <3>2. h.pc = "loadAccount" /\ h.user = jwt[s].sub
        OBVIOUS
      <3>3. req' = [req EXCEPT ![r] = h] /\ users' = users
        BY <2>3 DEF UpdateAccount, Admit
      <3> HIDE DEF h
      <3> QED
        BY <1>0, <3>1, <3>2, <3>3
    <2>4. ASSUME NEW u \in User, NEW pw \in Password \cup {NoPw},
                 EditUser(r, s, u, pw)
          PROVE  Goal
      BY <1>0, <2>4, ZenonT(60) DEF EditUser, AdmitAdmin, Admit
    <2>5. ASSUME NEW u \in User,
                 ApproveUser(r, s, u) \/ DenyUser(r, s, u)
                 \/ GenerateRecoveryLink(r, s, u)
          PROVE  Goal
      BY <1>0, <2>5, Zenon DEF ApproveUser, DenyUser, GenerateRecoveryLink,
         AdmitAdmin, Admit
    <2> QED
      BY <2>1, <2>2, <2>3, <2>4, <2>5
  <1> QED
    BY <1>7, <1>8

\* No statement of a handler writes the default user, or leads to one that
\* would.
LEMMA StatementSpares ==
  ASSUME TypeOK, Managed, DefaultUser # NoUser,
         NEW r \in Request, Step(r) \/ Abort(r)
  PROVE  users'[DefaultUser] = users[DefaultUser] /\ SparesDefaultUser(req'[r])
  <1>0. /\ DefaultUser \in User
        /\ users[DefaultUser].status = "approved"
        /\ SparesDefaultUser(req[r])
        /\ req[r] \in Handler
    BY AccountAssumption DEF Managed, TypeOK
  <1> USE DEF TypeOK, Handler, SparesDefaultUser, AccountWriter, Idle,
          IsDefaultUser, At, Goto, Finish
  <1>1. CASE IssuePrune(r) \/ IssueInsert(r) \/ AutoLogin(r)
    <2>1. CASE IssuePrune(r)
      BY <2>1 DEF IssuePrune
    <2>2. CASE IssueInsert(r)
      BY <2>2 DEF IssueInsert
    <2>3. CASE AutoLogin(r)
      BY <2>3 DEF AutoLogin
    <2> QED
      BY <1>1, <2>1, <2>2, <2>3
  <1>2. CASE RefreshLoadUser(r) \/ RefreshRotate(r) \/ StatusLoadUser(r)
    BY <1>2 DEF RefreshLoadUser, RefreshRotate, StatusLoadUser
  <1>3. CASE \/ RefreshReplay(r) \/ RefreshRevokeDenied(r)
             \/ StatusRevokeDenied(r) \/ RevokeUpdate(r)
             \/ RevokeOthersUpdate(r) \/ RevokeUser(r) \/ BootRevoke(r)
    BY <1>3 DEF RefreshReplay, RefreshRevokeDenied, StatusRevokeDenied,
       RevokeUpdate, RevokeOthersUpdate, RevokeUser, BootRevoke
  <1>4. CASE \/ RevokeOthersFind(r) \/ PruneSpentTokens(r) \/ SaveReset(r)
             \/ ResetMark(r) \/ Abort(r)
    BY <1>4 DEF RevokeOthersFind, PruneSpentTokens, SaveReset, ResetMark, Abort
  <1>5. CASE LoadAccount(r) \/ LoadEdit(r) \/ ResetLoadUser(r)
    BY <1>0, <1>5 DEF LoadAccount, LoadEdit, ResetLoadUser
  <1>6. CASE RegisterSave(r)
    <2>1. users'[DefaultUser] = users[DefaultUser]
      BY <1>0, <1>6 DEF RegisterSave
    <2>2. SparesDefaultUser(req'[r])
      BY <1>6 DEF RegisterSave
    <2> QED
      BY <2>1, <2>2
  <1>7. CASE ApplyUserUpdate(r)
    <2>1. users'[DefaultUser] = users[DefaultUser]
      BY <1>0, <1>7 DEF ApplyUserUpdate
    <2>2. SparesDefaultUser(req'[r])
      BY <1>7 DEF ApplyUserUpdate
    <2> QED
      BY <2>1, <2>2
  <1>8. CASE ApproveUpdate(r)
    <2>1. users'[DefaultUser] = users[DefaultUser]
      BY <1>0, <1>8 DEF ApproveUpdate
    <2>2. SparesDefaultUser(req'[r])
      BY <1>8 DEF ApproveUpdate
    <2> QED
      BY <2>1, <2>2
  <1>9. CASE DenyUpdate(r) \/ ResetPassword(r)
    <2>1. users'[DefaultUser] = users[DefaultUser]
      BY <1>0, <1>9 DEF DenyUpdate, ResetPassword
    <2>2. SparesDefaultUser(req'[r])
      BY <1>9 DEF DenyUpdate, ResetPassword
    <2> QED
      BY <2>1, <2>2
  <1> QED
    BY <1>1, <1>2, <1>3, <1>4, <1>5, <1>6, <1>7, <1>8, <1>9 DEF Step

\* Whatever a step does, the default user stays as it is, or a boot wrote it
\* and ends its sessions if the password is another one.
LEMMA DefaultUserStep ==
  ASSUME TypeOK, Managed, DefaultUser # NoUser, [Next]_vars
  PROVE  /\ \A r \in Request : SparesDefaultUser(req'[r])
         /\ \/ users'[DefaultUser] = users[DefaultUser]
            \/ /\ users'[DefaultUser].status = "approved"
               /\ users'[DefaultUser].pw # users[DefaultUser].pw
                  => \E r \in Request : req'[r].pc = "bootRevoke"
  <1>0. DefaultUser \in User /\ \A r \in Request : SparesDefaultUser(req[r])
    BY AccountAssumption DEF Managed
  <1>1. ASSUME NEW r \in Request,
               Call(r) \/ AuthenticatedCall(r) \/ Step(r) \/ Abort(r)
        PROVE  /\ \A x \in Request : SparesDefaultUser(req'[x])
               /\ users'[DefaultUser] = users[DefaultUser]
    <2>1. \A x \in Request : x # r => req'[x] = req[x]
      BY <1>1, OwnSlot
    <2>2. /\ SparesDefaultUser(req'[r])
          /\ users'[DefaultUser] = users[DefaultUser]
      BY <1>1, CallStarts, StatementSpares DEF Starts
    <2> QED
      BY <1>0, <2>1, <2>2
  <1>2. ASSUME NEW r \in Request, NEW pw \in Password, Boot(r, pw)
        PROVE  /\ \A x \in Request : SparesDefaultUser(req'[x])
               /\ users'[DefaultUser].status = "approved"
               /\ users'[DefaultUser].pw # users[DefaultUser].pw
                  => \E x \in Request : req'[x].pc = "bootRevoke"
    <2>1. users'[DefaultUser].status = "approved" /\ users'[DefaultUser].pw = pw
      BY <1>0, <1>2 DEF Boot, TypeOK
    <2>2. \A x \in Request : req'[x].pc \in {"idle", "bootRevoke"}
      BY <1>2 DEF Boot, Idle
    <2>3. users[DefaultUser].pw # pw => req'[r].pc = "bootRevoke"
      BY <1>2 DEF Boot, Idle
    <2> QED
      BY <2>1, <2>2, <2>3 DEF SparesDefaultUser, AccountWriter
  <1>3. ASSUME UNCHANGED <<users, req>>
        PROVE  /\ \A x \in Request : SparesDefaultUser(req'[x])
               /\ users'[DefaultUser] = users[DefaultUser]
    BY <1>0, <1>3
  <1> QED
    BY <1>1, <1>2, <1>3 DEF Next, Logout, Tick, vars

\* Between boots nothing changes the default user's status or password, and a
\* boot that changes the password revokes (or dies doing so).
THEOREM DefaultUsersManaged == Spec => DefaultUserManaged
  <1>1. TypeOK /\ Managed /\ [Next]_vars => Managed'
    BY DefaultUserStep DEF Managed
  <1>2. TypeOK /\ Managed /\ [Next]_vars
        => [DefaultUser # NoUser =>
              /\ users'[DefaultUser].status = "approved"
              /\ users'[DefaultUser].pw # users[DefaultUser].pw
                 => \E r \in Request : req'[r].pc = "bootRevoke"]_users
    BY DefaultUserStep DEF Managed
  <1> QED
    BY <1>1, <1>2, InitManaged, TypeCorrect, PTL DEF Spec, DefaultUserManaged

-----------------------------------------------------------------------------
(* revokeOthers and the session it keeps.                                  *)

\* A handler between the two statements of revokeOthers holds the session of
\* the token it was called with, whatever became of that token meanwhile.
KeepsSession ==
    \A r \in Request :
        At(r, "revokeOthersUpdate") =>
            /\ req[r].tok \in Token /\ Issued(req[r].tok)
            /\ req[r].ses = tokens[req[r].tok].ses

\* A row, once issued, stays in its session.
LEMMA RowsKeepSession ==
  ASSUME TypeOK, [Next]_vars, NEW t \in Token, Issued(t)
  PROVE  tokens'[t].ses = tokens[t].ses /\ Issued(t)'
  <1> DEFINE Same == tokens'[t].ses = tokens[t].ses /\ tokens'[t].st # "unissued"
  <1>0. tokens[t].st # "unissued" /\ tokens \in [Token -> RefreshRow]
    BY DEF Issued, TypeOK
  <1>1. ASSUME NEW S, NEW reason, tokens' = Revoked(S, reason)
        PROVE  Same
    BY <1>0, <1>1, SMTT(40) DEF Revoked, RefreshRow
  <1>2. ASSUME NEW r \in Request, Step(r)
        PROVE  Same
    <2>1. CASE IssuePrune(r)
      BY <1>0, <2>1 DEF IssuePrune, RefreshRow
    <2>2. CASE IssueInsert(r)
      BY <1>0, <2>2 DEF IssueInsert
    <2>3. CASE RefreshReplay(r) \/ RevokeUser(r) \/ BootRevoke(r)
      BY <1>1, <2>3 DEF RefreshReplay, RevokeUser, BootRevoke, RevokeUserTokens
    <2>4. CASE RefreshRevokeDenied(r) \/ RefreshRotate(r) \/ StatusRevokeDenied(r)
      BY <1>1, <2>4 DEF RefreshRevokeDenied, RefreshRotate, StatusRevokeDenied,
         RevokeToken
    <2>5. CASE RevokeUpdate(r) \/ RevokeOthersUpdate(r)
      BY <1>1, <2>5 DEF RevokeUpdate, RevokeOthersUpdate
    <2>6. CASE tokens' = tokens
      BY <1>0, <2>6, ZenonT(60)
    <2> QED
      BY <1>2, <2>1, <2>2, <2>3, <2>4, <2>5, <2>6
         DEF Step, RegisterSave, RefreshLoadUser, StatusLoadUser, AutoLogin,
             RevokeOthersFind, LoadAccount, LoadEdit, ApplyUserUpdate,
             ApproveUpdate, DenyUpdate, PruneSpentTokens, SaveReset,
             ResetLoadUser, ResetPassword, ResetMark
  <1>3. ASSUME NEW r \in Request, Call(r) \/ AuthenticatedCall(r) \/ Abort(r)
        PROVE  Same
    BY <1>0, <1>3, ZenonT(60)
       DEF Call, RegisterCheck, Login, RefreshFind, StatusFind,
       Recover, ResetFind, AuthenticatedCall, Revoke, RevokeOthers,
       UpdateAccount, EditUser, ApproveUser, DenyUser, GenerateRecoveryLink,
       AdmitAdmin, Admit, Abort
  <1>4. ASSUME NEW k \in Token, Logout(k)
        PROVE  Same
    BY <1>1, <1>4 DEF Logout, RevokeToken
  <1>5. ASSUME UNCHANGED tokens
        PROVE  Same
    BY <1>0, <1>5
  <1> QED
    BY <1>2, <1>3, <1>4, <1>5 DEF Next, Boot, Tick, vars, Issued

\* Only revokeOthersFind brings a handler to the UPDATE, and it copies the
\* session of the active row it has found.
LEMMA ArrivesWithSession ==
  ASSUME TypeOK, NEW r \in Request,
         Call(r) \/ AuthenticatedCall(r) \/ Step(r) \/ Abort(r),
         At(r, "revokeOthersUpdate")'
  PROVE  /\ RevokeOthersFind(r)
         /\ req[r].tok \in Active
         /\ req'[r].tok = req[r].tok
         /\ req'[r].ses = tokens[req[r].tok].ses
  <1>0. req \in [Request -> Handler] /\ req[r] \in Handler
        /\ req'[r].pc = "revokeOthersUpdate"
    BY DEF TypeOK, At
  <1>1. ~(Call(r) \/ AuthenticatedCall(r))
    BY <1>0, CallStarts DEF Starts
  <1>2. ~Finish(r)
    BY <1>0 DEF Finish, Idle
  <1>3. ASSUME NEW pc, pc # "revokeOthersUpdate" PROVE ~Goto(r, pc)
    BY <1>0, <1>3 DEF Goto, Handler
  <1>4. ~(\/ IssueInsert(r) \/ RefreshReplay(r) \/ RefreshRevokeDenied(r)
          \/ RevokeUpdate(r) \/ RevokeOthersUpdate(r) \/ RevokeUser(r)
          \/ ApproveUpdate(r) \/ SaveReset(r) \/ BootRevoke(r) \/ Abort(r))
    BY <1>2 DEF IssueInsert, RefreshReplay, RefreshRevokeDenied,
       RevokeUpdate, RevokeOthersUpdate, RevokeUser, ApproveUpdate, SaveReset,
       BootRevoke, Abort
  <1>5. ~(\/ RegisterSave(r) \/ RefreshLoadUser(r) \/ RefreshRotate(r)
          \/ StatusLoadUser(r) \/ ApplyUserUpdate(r) \/ DenyUpdate(r)
          \/ PruneSpentTokens(r) \/ ResetLoadUser(r) \/ ResetPassword(r)
          \/ ResetMark(r))
    BY <1>2, <1>3 DEF RegisterSave, RefreshLoadUser, RefreshRotate,
       StatusLoadUser, ApplyUserUpdate, DenyUpdate, PruneSpentTokens,
       ResetLoadUser, ResetPassword, ResetMark
  <1>6. ~(IssuePrune(r) \/ StatusRevokeDenied(r) \/ AutoLogin(r))
    <2>1. ~IssuePrune(r)
      BY <1>0 DEF IssuePrune, Handler
    <2>2. ~StatusRevokeDenied(r)
      BY <1>0, <1>2 DEF StatusRevokeDenied, Idle
    <2>3. ~AutoLogin(r)
      BY <1>0 DEF AutoLogin, Idle
    <2> QED
      BY <2>1, <2>2, <2>3
  <1>7. ~(LoadAccount(r) \/ LoadEdit(r))
    BY <1>0, <1>2 DEF LoadAccount, LoadEdit, Handler
  <1>8. RevokeOthersFind(r)
    BY <1>1, <1>4, <1>5, <1>6, <1>7 DEF Step
  <1>9. /\ req[r].tok \in Active
        /\ req' = [req EXCEPT ![r].pc = "revokeOthersUpdate",
                              ![r].ses = tokens[req[r].tok].ses]
    BY <1>2, <1>8 DEF RevokeOthersFind
  <1> QED
    BY <1>0, <1>8, <1>9 DEF Handler

\* Every step leaves the handlers of revokeOthers with their session.
LEMMA KeepsSessionStep ==
  ASSUME TypeOK, KeepsSession, [Next]_vars
  PROVE  KeepsSession'
  <1> SUFFICES ASSUME NEW x \in Request, At(x, "revokeOthersUpdate")'
               PROVE  /\ req'[x].tok \in Token /\ Issued(req[x].tok)'
                      /\ req'[x].ses = tokens'[req'[x].tok].ses
    BY DEF KeepsSession
  <1>1. ASSUME req'[x] = req[x]
        PROVE  /\ req'[x].tok \in Token /\ Issued(req[x].tok)'
               /\ req'[x].ses = tokens'[req'[x].tok].ses
    <2>1. /\ req[x].tok \in Token /\ Issued(req[x].tok)
          /\ req[x].ses = tokens[req[x].tok].ses
      BY <1>1 DEF KeepsSession, At
    <2>2. /\ tokens'[req[x].tok].ses = tokens[req[x].tok].ses
          /\ tokens'[req[x].tok].st # "unissued"
      BY <2>1, RowsKeepSession DEF Issued
    <2> QED
      BY <1>1, <2>1, <2>2 DEF Issued
  <1>2. ASSUME NEW r \in Request,
               Call(r) \/ AuthenticatedCall(r) \/ Step(r) \/ Abort(r)
        PROVE  /\ req'[x].tok \in Token /\ Issued(req[x].tok)'
               /\ req'[x].ses = tokens'[req'[x].tok].ses
    <2>1. CASE x # r
      BY <1>1, <1>2, <2>1, OwnSlot
    <2>2. CASE x = r
      <3>1. /\ RevokeOthersFind(x)
            /\ req[x].tok \in Active
            /\ req'[x].tok = req[x].tok
            /\ req'[x].ses = tokens[req[x].tok].ses
        BY <1>2, <2>2, ArrivesWithSession
      <3>2. tokens' = tokens
        BY <3>1 DEF RevokeOthersFind
      <3> QED
        BY <3>1, <3>2 DEF Active, Unrevoked, Issued
    <2> QED
      BY <2>1, <2>2
  <1>3. ASSUME NEW r \in Request, NEW pw \in Password, Boot(r, pw)
        PROVE  FALSE
    BY <1>3 DEF Boot, Idle, At
  <1>4. CASE req' = req
    BY <1>1, <1>4
  <1> QED
    BY <1>2, <1>3, <1>4 DEF Next, Logout, Tick, vars

\* The step in which such a handler moves on revokes nothing of the session
\* it keeps: it is the UPDATE, which leaves that session out, or the handler's
\* end by a failure or a restart, which writes no row.
LEMMA MovesOnSparingSession ==
  ASSUME TypeOK, KeepsSession, [Next]_vars, NEW r \in Request,
         At(r, "revokeOthersUpdate"), req[r].pc # req'[r].pc,
         NEW x \in Unrevoked, tokens[x].ses = tokens[req[r].tok].ses
  PROVE  tokens'[x].rev = "none"
  <1>0. /\ req[r].ses = tokens[x].ses
        /\ x \in Token /\ tokens[x].rev = "none"
    BY DEF KeepsSession, Unrevoked
  <1>1. ASSUME NEW q \in Request,
               Call(q) \/ AuthenticatedCall(q) \/ Step(q) \/ Abort(q)
        PROVE  tokens'[x].rev = "none"
    <2>1. q = r
      BY <1>1, OwnSlot
    <2>2. RevokeOthersUpdate(r) \/ Abort(r)
      <3>1. ~Call(r)
        BY DEF Call, RegisterCheck, Login, RefreshFind, StatusFind, Recover,
           ResetFind, Accepts, At
      <3>2. ~AuthenticatedCall(r)
        BY DEF AuthenticatedCall, Revoke, RevokeOthers, UpdateAccount,
           EditUser, ApproveUser, DenyUser, GenerateRecoveryLink, AdmitAdmin,
           Admit, Accepts, At
      <3>3. Step(r) => RevokeOthersUpdate(r)
        BY DEF Step, IssuePrune, IssueInsert, RegisterSave, RefreshReplay,
           RefreshLoadUser, RefreshRevokeDenied, RefreshRotate,
           StatusLoadUser, StatusRevokeDenied, AutoLogin, RevokeUpdate,
           RevokeOthersFind, LoadAccount, LoadEdit, ApplyUserUpdate,
           RevokeUser, ApproveUpdate, DenyUpdate, PruneSpentTokens, SaveReset,
           ResetLoadUser, ResetPassword, ResetMark, BootRevoke, At
      <3> QED
        BY <1>1, <2>1, <3>1, <3>2, <3>3
    <2>3. CASE RevokeOthersUpdate(r)
      BY <1>0, <2>3 DEF RevokeOthersUpdate, Revoked
    <2>4. CASE Abort(r)
      BY <1>0, <2>4 DEF Abort
    <2> QED
      BY <2>2, <2>3, <2>4
  <1>2. ASSUME UNCHANGED tokens
        PROVE  tokens'[x].rev = "none"
    BY <1>0, <1>2
  <1>3. ~UNCHANGED req
    OBVIOUS
  <1> QED
    BY <1>1, <1>2, <1>3 DEF Next, Boot, Logout, Tick, vars

\* revokeOthers never ends the session it was asked to keep, even when that
\* session's token is rotated between its read and its UPDATE.
THEOREM RevokeOthersKeepCurrent == Spec => RevokeOthersKeepsCurrent
  <1>1. Init => KeepsSession
    BY DEF Init, KeepsSession, At, Idle
  <1>2. TypeOK /\ KeepsSession /\ [Next]_vars => KeepsSession'
    BY KeepsSessionStep
  <1>3. TypeOK /\ KeepsSession /\ [Next]_vars
        => [\A r \in Request :
              (At(r, "revokeOthersUpdate") /\ req[r].pc # req'[r].pc)
              => \A x \in Unrevoked :
                   tokens[x].ses = tokens[req[r].tok].ses
                   => tokens'[x].rev = "none"]_vars
    BY MovesOnSparingSession
  <1> QED
    BY <1>1, <1>2, <1>3, TypeCorrect, PTL DEF Spec, RevokeOthersKeepsCurrent

-----------------------------------------------------------------------------
(* What a handler holds when it arrives, and what each statement leaves it. *)

\* A handler whose call has just been let through, about its first statement.
Arrival(g) ==
    /\ g.pc \notin {"idle", "insert", "rotate", "save", "revokeUser",
                    "resetPassword", "resetMark", "bootRevoke"}
    /\ g.pc = "issue" => /\ users[g.user].status # "denied"
                         /\ g.pw = users[g.user].pw
    /\ g.pc = "loadUser" => g.tok \in Token /\ g.pw = tokens[g.tok].cred
    /\ g.pc \in {"deny", "resetUser"} => g.tok = NoToken
    /\ g.pc = "resetUser" => g.rst \in ResetToken /\ resets[g.rst].st = "active"
    /\ g.why = "password_change" =>
         /\ g.pc = "loadAccount"
         /\ g.ses = IF g.tok \in Unrevoked /\ tokens[g.tok].user = g.user
                      THEN tokens[g.tok].ses ELSE NoSession

\* The accounts that rows, reset tokens and handlers name are there.
OfAccount(g) ==
    g.pc \notin {"idle", "autoLogin", "registerSave"}
        => users[g.user].status # "absent"

AccountsExist ==
    /\ \A t \in Token : Issued(t) => users[tokens[t].user].status # "absent"
    /\ \A k \in ResetToken :
         resets[k].st # "unissued" => users[resets[k].user].status # "absent"
    /\ \A r \in Request : OfAccount(req[r])
    /\ \A r \in Request : At(r, "save") => req[r].snap.status # "absent"

ReadsTables == UNCHANGED <<users, tokens, resets, jwt, now>>

\* A call changes nothing but its slot.
LEMMA CallArrives ==
  ASSUME TypeOK, NEW r \in Request, Call(r) \/ AuthenticatedCall(r)
  PROVE  /\ At(r, "idle") /\ ReadsTables
         /\ Arrival(req'[r])
         /\ AccountsExist => OfAccount(req'[r])
  <1> DEFINE Known(g) == AccountsExist => OfAccount(g)
             Goal == /\ At(r, "idle") /\ ReadsTables
                     /\ Arrival(req'[r]) /\ Known(req'[r])
  <1> SUFFICES Goal
    OBVIOUS
  <1>0. ASSUME NEW h, Arrival(h), Known(h), req' = [req EXCEPT ![r] = h],
               ReadsTables, At(r, "idle")
        PROVE  Goal
    BY <1>0 DEF TypeOK
  <1> HIDE DEF Goal
  <1> USE DEF Idle, ReadsTables, Accepts, OfAccount
  <1>1. ASSUME NEW u \in User, NEW pw \in Password, RegisterCheck(r, u, pw)
        PROVE  Goal
    BY <1>0, <1>1 DEF RegisterCheck, Arrival
  <1>2. ASSUME NEW u \in User, NEW pw \in Password, NEW keep \in BOOLEAN,
               Login(r, u, pw, keep)
        PROVE  Goal
    BY <1>0, <1>2 DEF Login, Arrival
  <1>3. ASSUME NEW t \in Token, NEW pc \in {"loadUser", "replay", "statusUser"},
               Issued(t)
        PROVE  Arrival(Holding(t, pc)) /\ Known(Holding(t, pc))
    BY <1>3 DEF Holding, Arrival, AccountsExist
  <1>4. ASSUME NEW t \in Token, RefreshFind(r, t)
        PROVE  Goal
    <2> DEFINE pc == IF tokens[t].rev = "none" THEN "loadUser" ELSE "replay"
    <2>1. Issued(t) /\ pc \in {"loadUser", "replay", "statusUser"}
      BY <1>4 DEF RefreshFind, Issued
    <2>2. /\ req' = [req EXCEPT ![r] = Holding(t, pc)]
          /\ ReadsTables /\ At(r, "idle")
      BY <1>4 DEF RefreshFind
    <2> HIDE DEF pc
    <2> QED
      BY <1>0, <1>3, <2>1, <2>2
  <1>5. ASSUME NEW t \in Token \cup {NoToken}, StatusFind(r, t)
        PROVE  Goal
    <2>1. CASE /\ t \in Active
               /\ req' = [req EXCEPT ![r] = Holding(t, "statusUser")]
      <3>1. t \in Token /\ Issued(t)
        BY <2>1 DEF Active, Unrevoked, Issued
      <3>2. ReadsTables /\ At(r, "idle")
        BY <1>5 DEF StatusFind
      <3> QED
        BY <1>0, <1>3, <2>1, <3>1, <3>2
    <2>2. CASE req' = [req EXCEPT ![r] = [Idle EXCEPT !.pc = "autoLogin"]]
      BY <1>0, <1>5, <2>2 DEF StatusFind, Arrival
    <2> QED
      BY <1>5, <2>1, <2>2 DEF StatusFind
  <1>6. ASSUME NEW u \in User, Recover(r, u)
        PROVE  Goal
    BY <1>0, <1>6 DEF Recover, Arrival
  <1>7. ASSUME NEW k \in ResetToken, NEW pw \in Password, ResetFind(r, k, pw)
        PROVE  Goal
    BY <1>0, <1>7 DEF ResetFind, Arrival, AccountsExist
  <1>8. CASE Call(r)
    BY <1>1, <1>2, <1>4, <1>5, <1>6, <1>7, <1>8 DEF Call
  <1>9. CASE AuthenticatedCall(r)
    <2> PICK s \in Session : AuthenticatedCall(r)!(s)
      BY <1>9 DEF AuthenticatedCall
    <2>1. Admits(s) => users[jwt[s].sub].status = "approved"
      BY DEF Admits
    <2>2. ASSUME NEW target \in Session, Revoke(r, s, target)
          PROVE  Goal
      BY <1>0, <2>1, <2>2 DEF Revoke, Admit, Arrival
    <2>3. ASSUME NEW t \in Token, RevokeOthers(r, s, t)
          PROVE  Goal
      BY <1>0, <2>1, <2>3 DEF RevokeOthers, Admit, Arrival
    <2>4. ASSUME NEW t \in Token \cup {NoToken}, NEW pw \in Password \cup {NoPw},
                 UpdateAccount(r, s, t, pw)
          PROVE  Goal
      <3> DEFINE ses == IF t \in Unrevoked /\ tokens[t].user = jwt[s].sub
                          THEN tokens[t].ses ELSE NoSession
                 h == [Idle EXCEPT !.pc = "loadAccount", !.user = jwt[s].sub,
                         !.tok = t, !.ses = ses, !.pw = pw,
                         !.why = "password_change"]
      <3>1. /\ h.pc = "loadAccount" /\ h.user = jwt[s].sub
            /\ h.tok = t /\ h.ses = ses
        OBVIOUS
      <3>2. /\ req' = [req EXCEPT ![r] = h] /\ ReadsTables
            /\ At(r, "idle") /\ Admits(s)
        BY <2>4 DEF UpdateAccount, Admit
      <3> HIDE DEF h
      <3>3. Arrival(h)
        BY <3>1 DEF Arrival
      <3>4. Known(h)
        BY <2>1, <3>1, <3>2
      <3> QED
        BY <1>0, <3>2, <3>3, <3>4
    <2>5. ASSUME NEW u \in User, NEW pw \in Password \cup {NoPw},
                 EditUser(r, s, u, pw)
          PROVE  Goal
      BY <1>0, <2>5 DEF EditUser, AdmitAdmin, Admit, Arrival
    <2>6. ASSUME NEW u \in User, ApproveUser(r, s, u)
          PROVE  Goal
      BY <1>0, <2>6 DEF ApproveUser, AdmitAdmin, Admit, Arrival
    <2>7. ASSUME NEW u \in User, DenyUser(r, s, u)
          PROVE  Goal
      BY <1>0, <2>7 DEF DenyUser, AdmitAdmin, Admit, Arrival
    <2>8. ASSUME NEW u \in User, GenerateRecoveryLink(r, s, u)
          PROVE  Goal
      BY <1>0, <2>8 DEF GenerateRecoveryLink, AdmitAdmin, Admit, Arrival
    <2> QED
      BY <2>2, <2>3, <2>4, <2>5, <2>6, <2>7, <2>8
  <1> QED
    BY <1>8, <1>9

\* Handlers between the statement that changes an account and the one that
\* ends its sessions (an update that keeps one session is not among them).
OwesRevocation(h) ==
    \/ h.pc \in {"resetMark", "bootRevoke"}
    \/ h.pc = "revokeUser" /\ h.tok \notin Token

\* Handlers about to insert a session's next row.
Minting(h) == h.pc \in {"issue", "insert"}

\* A handler that works on for the same user, with what it came with.
WorksOn(h, g) ==
    /\ g.user = h.user /\ g.tok = h.tok /\ g.pw = h.pw
    /\ g.rst = h.rst /\ g.why = h.why
    /\ g.pc # "revokeOthersUpdate" => g.ses = h.ses
    /\ g.pc # "save" => g.snap = h.snap

\* Which statement takes a handler to a program counter.
Reaches(r) ==
    LET pc == req'[r].pc IN
    /\ pc \in {"idle", "autoLogin", "issue", "insert", "rotate", "revokeDenied",
               "statusDenied", "revokeOthersUpdate", "save", "revokeUser",
               "saveReset", "resetPassword", "resetMark"}
    /\ pc = "issue" => RegisterSave(r) \/ RefreshRotate(r) \/ AutoLogin(r)
    /\ pc = "insert" => IssuePrune(r)
    /\ pc = "rotate" => RefreshLoadUser(r)
    /\ pc = "save" => /\ LoadAccount(r) \/ LoadEdit(r)
                      /\ req'[r].snap = users[req[r].user]
    /\ pc = "revokeUser" => \/ ApplyUserUpdate(r) \/ DenyUpdate(r)
                            \/ ResetMark(r)
    /\ pc = "resetPassword" => ResetLoadUser(r)
    /\ pc = "resetMark" => ResetPassword(r)
    /\ pc = "autoLogin" \/ AutoLogin(r) \/ WorksOn(req[r], req'[r])
         \/ req'[r] = Idle

\* What a statement, or its failure, leaves in its slot.
LEMMA StatementReaches ==
  ASSUME TypeOK, NEW r \in Request, Step(r) \/ Abort(r)
  PROVE  Reaches(r) /\ (req'[r].pc \in {"idle", "autoLogin"} => req'[r].why = "none")
  <1> DEFINE Goal == /\ Reaches(r)
                     /\ req'[r].pc \in {"idle", "autoLogin"} => req'[r].why = "none"
  <1> SUFFICES Goal
    OBVIOUS
  <1>0. req \in [Request -> Handler] /\ req[r] \in Handler
    BY DEF TypeOK
  <1>1. Finish(r) => Goal
    BY <1>0 DEF Finish, Idle, Reaches
  <1>2. ASSUME NEW pc, Goto(r, pc)
        PROVE  req'[r].pc = pc /\ WorksOn(req[r], req'[r])
    BY <1>0, <1>2 DEF Goto, WorksOn, Handler
  <1> HIDE DEF Goal
  <1>3. CASE \/ IssueInsert(r) \/ RefreshReplay(r) \/ RefreshRevokeDenied(r)
             \/ RevokeUpdate(r) \/ RevokeOthersUpdate(r) \/ RevokeUser(r)
             \/ ApproveUpdate(r) \/ SaveReset(r) \/ BootRevoke(r) \/ Abort(r)
    BY <1>1, <1>3 DEF IssueInsert, RefreshReplay, RefreshRevokeDenied,
       RevokeUpdate, RevokeOthersUpdate, RevokeUser, ApproveUpdate, SaveReset,
       BootRevoke, Abort
  <1>4. ASSUME NEW pc, Goto(r, pc), pc \in {"issue", "rotate", "revokeDenied",
                 "statusDenied", "revokeUser", "saveReset", "resetPassword",
                 "resetMark"},
               pc = "issue" => RegisterSave(r) \/ RefreshRotate(r),
               pc = "rotate" => RefreshLoadUser(r),
               pc = "revokeUser" => \/ ApplyUserUpdate(r) \/ DenyUpdate(r)
                                    \/ ResetMark(r),
               pc = "resetPassword" => ResetLoadUser(r),
               pc = "resetMark" => ResetPassword(r)
        PROVE  Goal
    <2>1. req'[r].pc = pc /\ WorksOn(req[r], req'[r])
      BY <1>2, <1>4
    <2> QED
      BY <1>4, <2>1 DEF Goal, Reaches
  <1>5. CASE RegisterSave(r)
    BY <1>1, <1>4, <1>5 DEF RegisterSave
  <1>6. CASE RefreshLoadUser(r)
    BY <1>1, <1>4, <1>6 DEF RefreshLoadUser
  <1>7. CASE RefreshRotate(r)
    BY <1>1, <1>4, <1>7 DEF RefreshRotate
  <1>8. CASE StatusLoadUser(r)
    BY <1>1, <1>4, <1>8 DEF StatusLoadUser
  <1>9. CASE ApplyUserUpdate(r)
    BY <1>1, <1>4, <1>9 DEF ApplyUserUpdate
  <1>10. CASE DenyUpdate(r) \/ PruneSpentTokens(r)
    BY <1>4, <1>10 DEF DenyUpdate, PruneSpentTokens
  <1>11. CASE ResetLoadUser(r)
    BY <1>1, <1>4, <1>11 DEF ResetLoadUser
  <1>12. CASE ResetPassword(r) \/ ResetMark(r)
    BY <1>4, <1>12 DEF ResetPassword, ResetMark
  <1>13. CASE IssuePrune(r)
    <2>1. req' = [req EXCEPT ![r] = [req[r] EXCEPT !.pc = "insert", !.at = now]]
      BY <1>0, <1>13 DEF IssuePrune
    <2>2. req'[r].pc = "insert" /\ WorksOn(req[r], req'[r])
      BY <1>0, <2>1 DEF WorksOn, Handler
    <2> QED
      BY <1>13, <2>2 DEF Goal, Reaches
  <1>14. CASE StatusRevokeDenied(r)
    <2>1. Finish(r) \/ req'[r] = [Idle EXCEPT !.pc = "autoLogin"]
      BY <1>0, <1>14 DEF StatusRevokeDenied
    <2>2. CASE req'[r] = [Idle EXCEPT !.pc = "autoLogin"]
      BY <2>2 DEF Idle, Goal, Reaches
    <2> QED
      BY <1>1, <2>1, <2>2
  <1>15. CASE AutoLogin(r)
    BY <1>0, <1>15 DEF AutoLogin, Idle, Goal, Reaches
  <1>16. CASE RevokeOthersFind(r)
    <2>1. \/ req' = [req EXCEPT ![r] = [req[r] EXCEPT
                       !.pc = "revokeOthersUpdate",
                       !.ses = tokens[req[r].tok].ses]]
          \/ Finish(r)
      BY <1>0, <1>16 DEF RevokeOthersFind
    <2>2. ASSUME ~Finish(r)
          PROVE  /\ req'[r].pc = "revokeOthersUpdate"
                 /\ WorksOn(req[r], req'[r])
      <3>1. req' = [req EXCEPT ![r] = [req[r] EXCEPT
                      !.pc = "revokeOthersUpdate",
                      !.ses = tokens[req[r].tok].ses]]
        BY <2>1, <2>2
      <3> QED
        BY <1>0, <3>1 DEF WorksOn, Handler
    <2> QED
      BY <1>1, <2>2 DEF Goal, Reaches
  <1>17. CASE LoadAccount(r) \/ LoadEdit(r)
    <2>1. \/ req' = [req EXCEPT ![r] = [req[r] EXCEPT
                       !.pc = "save", !.snap = users[req[r].user]]]
          \/ Finish(r)
      BY <1>0, <1>17 DEF LoadAccount, LoadEdit
    <2>2. ASSUME ~Finish(r)
          PROVE  /\ req'[r].pc = "save"
                 /\ req'[r].snap = users[req[r].user]
                 /\ WorksOn(req[r], req'[r])
      <3>1. req' = [req EXCEPT ![r] = [req[r] EXCEPT
                      !.pc = "save", !.snap = users[req[r].user]]]
        BY <2>1, <2>2
      <3> QED
        BY <1>0, <3>1 DEF WorksOn, Handler
    <2> QED
      BY <1>1, <1>17, <2>2 DEF Goal, Reaches
  <1> QED
    BY <1>3, <1>5, <1>6, <1>7, <1>8, <1>9, <1>10, <1>11, <1>12, <1>13, <1>14,
       <1>15, <1>16, <1>17 DEF Step

\* An issued row keeps its user, its session and its history, and is never
\* unrevoked again.
LEMMA RowsKept ==
  ASSUME TypeOK, [Next]_vars, NEW t \in Token, Issued(t)
  PROVE  /\ tokens'[t].user = tokens[t].user
         /\ tokens'[t].ses = tokens[t].ses
         /\ tokens'[t].cred = tokens[t].cred
         /\ Issued(t)'
         /\ t \in Unrevoked' => t \in Unrevoked
  <1> DEFINE Same == /\ tokens'[t].user = tokens[t].user
                     /\ tokens'[t].ses = tokens[t].ses
                     /\ tokens'[t].cred = tokens[t].cred
                     /\ tokens'[t].st # "unissued"
                     /\ tokens'[t].st = "row" /\ tokens'[t].rev = "none"
                        => t \in Unrevoked
  <1> SUFFICES Same
    BY DEF Issued, Unrevoked
  <1>0. /\ tokens[t].st # "unissued" /\ tokens \in [Token -> RefreshRow]
        /\ tokens[t] \in RefreshRow
        /\ t \in Unrevoked <=> tokens[t].st = "row" /\ tokens[t].rev = "none"
    BY DEF Issued, TypeOK, Unrevoked
  <1>1. ASSUME NEW S \in SUBSET Unrevoked, NEW reason,
               tokens' = Revoked(S, reason)
        PROVE  Same
    BY <1>0, <1>1, SMTT(40) DEF Revoked, RefreshRow
  <1>2. ASSUME tokens' = tokens PROVE Same
    BY <1>0, <1>2
  <1> HIDE DEF Same
  <1>3. ASSUME NEW u, NEW reason, NEW k, RevokeUserTokens(u, reason, k)
        PROVE  Same
    BY <1>1, <1>3 DEF RevokeUserTokens
  <1>4. ASSUME NEW k, NEW reason, RevokeToken(k, reason)
        PROVE  Same
    BY <1>1, <1>4, SMTT(40) DEF RevokeToken
  <1>5. ASSUME NEW r \in Request, Step(r)
        PROVE  Same
    <2>1. CASE IssuePrune(r)
      BY <1>0, <2>1 DEF IssuePrune, RefreshRow, Same
    <2>2. CASE IssueInsert(r)
      BY <1>0, <2>2 DEF IssueInsert, Same
    <2>3. CASE RefreshReplay(r) \/ RevokeUser(r) \/ BootRevoke(r)
      BY <1>3, <2>3 DEF RefreshReplay, RevokeUser, BootRevoke
    <2>4. CASE RefreshRevokeDenied(r) \/ RefreshRotate(r) \/ StatusRevokeDenied(r)
      BY <1>4, <2>4 DEF RefreshRevokeDenied, RefreshRotate, StatusRevokeDenied
    <2>5. CASE RevokeUpdate(r) \/ RevokeOthersUpdate(r)
      BY <1>1, <2>5 DEF RevokeUpdate, RevokeOthersUpdate
    <2> QED
      BY <1>2, <1>5, <2>1, <2>2, <2>3, <2>4, <2>5
         DEF Step, RegisterSave, RefreshLoadUser, StatusLoadUser, AutoLogin,
             RevokeOthersFind, LoadAccount, LoadEdit, ApplyUserUpdate,
             ApproveUpdate, DenyUpdate, PruneSpentTokens, SaveReset,
             ResetLoadUser, ResetPassword, ResetMark
  <1>6. ASSUME NEW r \in Request, Call(r) \/ AuthenticatedCall(r) \/ Abort(r)
        PROVE  Same
    BY <1>2, <1>6, CallArrives DEF ReadsTables, Abort
  <1>7. ASSUME NEW k \in Token, Logout(k)
        PROVE  Same
    BY <1>4, <1>7 DEF Logout
  <1> QED
    BY <1>2, <1>5, <1>6, <1>7 DEF Next, Boot, Tick, vars

\* A slot changes by a step of its own, or in a restart.
LEMMA SlotChange ==
  ASSUME TypeOK, [Next]_vars, NEW x \in Request, req'[x] # req[x]
  PROVE  \/ Call(x) \/ AuthenticatedCall(x) \/ Step(x) \/ Abort(x)
         \/ \E r \in Request, pw \in Password : Boot(r, pw)
  <1>1. ASSUME NEW r \in Request,
               Call(r) \/ AuthenticatedCall(r) \/ Step(r) \/ Abort(r)
        PROVE  r = x
    BY <1>1, OwnSlot
  <1>2. req' # req
    OBVIOUS
  <1> QED
    BY <1>1, <1>2 DEF Next, Logout, Tick, vars

\* A restart leaves only a boot sync behind.
LEMMA BootSlots ==
  ASSUME NEW r \in Request, NEW pw \in Password, Boot(r, pw), NEW x \in Request
  PROVE  req'[x].pc \in {"idle", "bootRevoke"} /\ req'[x].why = "none"
  BY DEF Boot, Idle

-----------------------------------------------------------------------------
(* A password-reset token sets at most one password, unless two requests     *)
(* with it overlap or one of them dies before it has marked it used.         *)

Resetting(h) == h.pc \in {"resetUser", "resetPassword", "resetMark"}

\* The hypotheses.  findActiveToken reads the token's row, and only the last
\* statement but one marks it used: nothing else stops a second request from
\* getting past the same read, or a failure from leaving the token active.
ResetsApart ==
    \A r, x \in Request :
        (Resetting(req[r]) /\ Resetting(req[x]) /\ req[r].rst = req[x].rst)
        => r = x

MarkFollows ==
    \A r \in Request :
        At(r, "resetMark") /\ req'[r] # req[r] => ResetMark(r)

\* A token on its way to the password has set none; a spent one that is still
\* active is about to be marked.
ResetInv ==
    /\ \A r \in Request : req[r].pc \in {"resetUser", "resetPassword"} =>
         req[r].rst \in ResetToken /\ resets[req[r].rst].uses = 0
    /\ \A k \in ResetToken : resets[k].st = "active" =>
         \/ resets[k].uses = 0
         \/ \E r \in Request : At(r, "resetMark") /\ req[r].rst = k
    /\ \A k \in ResetToken : resets[k].uses <= 1

\* Apart from the UPDATE of the password, a step leaves the tokens' history
\* alone, and makes none active but a new one.
LEMMA ResetRowsKept ==
  ASSUME TypeOK, [Next]_vars, \A r \in Request : ~ResetPassword(r),
         NEW k \in ResetToken
  PROVE  /\ resets'[k].uses \in {0, resets[k].uses}
         /\ resets'[k].st = "active" =>
              \/ resets'[k].uses = 0
              \/ /\ resets[k].st = "active"
                 /\ resets'[k].uses = resets[k].uses
  <1> DEFINE Goal == /\ resets'[k].uses \in {0, resets[k].uses}
                     /\ resets'[k].st = "active" =>
                          \/ resets'[k].uses = 0
                          \/ /\ resets[k].st = "active"
                             /\ resets'[k].uses = resets[k].uses
  <1> SUFFICES Goal
    OBVIOUS
  <1>0. resets \in [ResetToken -> ResetRow] /\ resets[k] \in ResetRow
    BY DEF TypeOK
  <1>1. ASSUME UNCHANGED resets PROVE Goal
    BY <1>0, <1>1
  <1>2. ASSUME NEW r \in Request, PruneSpentTokens(r) PROVE Goal
    BY <1>0, <1>2 DEF PruneSpentTokens, ResetRow
  <1>3. ASSUME NEW r \in Request, SaveReset(r) PROVE Goal
    BY <1>0, <1>3 DEF SaveReset
  <1>4. ASSUME NEW r \in Request, ResetMark(r) PROVE Goal
    BY <1>0, <1>4, SMTT(40) DEF ResetMark, ResetRow
  <1> HIDE DEF Goal
  <1>5. ASSUME NEW r \in Request, Step(r) PROVE Goal
    BY <1>1, <1>2, <1>3, <1>4, <1>5
       DEF Step, IssuePrune, IssueInsert, RegisterSave, RefreshReplay,
           RefreshLoadUser, RefreshRevokeDenied, RefreshRotate, StatusLoadUser,
           StatusRevokeDenied, AutoLogin, RevokeUpdate, RevokeOthersFind,
           RevokeOthersUpdate, LoadAccount, LoadEdit, ApplyUserUpdate,
           RevokeUser, ApproveUpdate, DenyUpdate, ResetLoadUser, BootRevoke
  <1>6. ASSUME NEW r \in Request, Call(r) \/ AuthenticatedCall(r) \/ Abort(r)
        PROVE  Goal
    BY <1>1, <1>6, CallArrives DEF ReadsTables, Abort
  <1> QED
    BY <1>1, <1>5, <1>6 DEF Next, Boot, Logout, Tick, vars

\* The UPDATE of the password uses a token for the first time, and its handler
\* is the one that will mark it.
LEMMA FirstUse ==
  ASSUME TypeOK, ResetInv, ResetsApart, NEW r \in Request, ResetPassword(r)
  PROVE  ResetInv'
  <1>0. /\ req \in [Request -> Handler] /\ req[r] \in Handler
        /\ resets \in [ResetToken -> ResetRow]
        /\ At(r, "resetPassword")
    BY DEF TypeOK, ResetPassword
  <1>1. PICK k \in ResetToken : k = req[r].rst /\ resets[k].uses = 0
    BY <1>0 DEF ResetInv, At
  <1>2. \A x \in Request : x # r => req'[x] = req[x]
    BY OwnSlot DEF Step
  <1>3. req'[r].pc = "resetMark" /\ req'[r].rst = k
    BY <1>0, <1>1 DEF ResetPassword, Goto, Handler
  <1>4. /\ resets'[k].uses = 1
        /\ \A j \in ResetToken : resets'[j].st = resets[j].st
        /\ \A j \in ResetToken : j # k => resets'[j].uses = resets[j].uses
    BY <1>0, <1>1 DEF ResetPassword, ResetRow
  <1>5. ASSUME NEW x \in Request, req'[x].pc \in {"resetUser", "resetPassword"}
        PROVE  req'[x].rst \in ResetToken /\ resets'[req'[x].rst].uses = 0
    <2>1. x # r /\ req'[x] = req[x]
      BY <1>2, <1>3, <1>5
    <2>2. req[x].rst # k
      BY <1>0, <1>1, <1>5, <2>1 DEF ResetsApart, Resetting, At
    <2> QED
      BY <1>4, <1>5, <2>1, <2>2 DEF ResetInv
  <1>6. ASSUME NEW j \in ResetToken, resets'[j].st = "active", resets'[j].uses # 0
        PROVE  \E x \in Request : At(x, "resetMark")' /\ req'[x].rst = j
    <2>1. CASE j = k
      BY <1>3, <2>1 DEF At
    <2>2. CASE j # k
      <3>1. PICK x \in Request : At(x, "resetMark") /\ req[x].rst = j
        BY <1>4, <1>6, <2>2 DEF ResetInv
      <3> QED
        BY <1>0, <1>2, <3>1 DEF At
    <2> QED
      BY <2>1, <2>2
  <1>7. \A j \in ResetToken : resets'[j].uses <= 1
    BY <1>4 DEF ResetInv
  <1> QED
    BY <1>5, <1>6, <1>7, SMTT(20) DEF ResetInv

\* Every other step keeps the token's one use.
LEMMA ResetStep ==
  ASSUME TypeOK, ResetInv, ResetsApart', MarkFollows, [Next]_vars,
         \A r \in Request : ~ResetPassword(r)
  PROVE  ResetInv'
  <1>1. ASSUME NEW x \in Request, req'[x].pc \in {"resetUser", "resetPassword"},
               req'[x] # req[x]
        PROVE  /\ req'[x].rst \in ResetToken
               /\ resets[req'[x].rst].uses = 0
    <2>1. CASE Call(x) \/ AuthenticatedCall(x)
      <3>0. req'[x].pc = "resetUser"
        BY <1>1, <2>1, CallArrives DEF Arrival
      <3>1. req'[x].rst \in ResetToken /\ resets[req'[x].rst].st = "active"
        BY <2>1, <3>0, CallArrives DEF Arrival
      <3>2. ASSUME NEW y \in Request, At(y, "resetMark"),
                   req[y].rst = req'[x].rst
            PROVE  FALSE
        <4>1. At(x, "idle")
          BY <2>1, CallArrives
        <4>2. y # x /\ req'[y] = req[y]
          BY <2>1, <3>2, <4>1, OwnSlot DEF At
        <4> QED
          BY <1>1, <3>2, <4>2 DEF ResetsApart, Resetting, At
      <3> QED
        BY <3>1, <3>2 DEF ResetInv
    <2>2. CASE Step(x) \/ Abort(x)
      <3>1. Reaches(x)
        BY <2>2, StatementReaches
      <3>2. ResetLoadUser(x)
        BY <1>1, <3>1 DEF Reaches
      <3>3. req'[x].rst = req[x].rst
        BY <1>1, <3>2 DEF ResetLoadUser, Goto, Finish, Idle, TypeOK, Handler
      <3> QED
        BY <3>2, <3>3 DEF ResetInv, ResetLoadUser, At
    <2> QED
      BY <1>1, <2>1, <2>2, SlotChange, BootSlots
  <1>2. ASSUME NEW x \in Request, req'[x].pc \in {"resetUser", "resetPassword"}
        PROVE  req'[x].rst \in ResetToken /\ resets'[req'[x].rst].uses = 0
    <2>1. req'[x].rst \in ResetToken /\ resets[req'[x].rst].uses = 0
      BY <1>1, <1>2 DEF ResetInv
    <2> QED
      BY <2>1, ResetRowsKept
  <1>3. ASSUME NEW k \in ResetToken, resets'[k].st = "active", resets'[k].uses # 0
        PROVE  \E x \in Request : At(x, "resetMark")' /\ req'[x].rst = k
    <2>1. resets[k].st = "active" /\ resets'[k].uses = resets[k].uses
      BY <1>3, ResetRowsKept
    <2>2. PICK x \in Request : At(x, "resetMark") /\ req[x].rst = k
      BY <1>3, <2>1 DEF ResetInv
    <2>3. ~ResetMark(x)
      BY <1>3, <2>1, <2>2 DEF ResetMark, TypeOK, ResetRow
    <2>4. req'[x] = req[x]
      BY <2>2, <2>3 DEF MarkFollows
    <2> QED
      BY <2>2, <2>4 DEF At
  <1>4. \A k \in ResetToken : resets'[k].uses <= 1
    BY ResetRowsKept DEF ResetInv
  <1> QED
    BY <1>2, <1>3, <1>4, SMTT(20) DEF ResetInv

\* A password-reset token sets at most one password, as long as no two requests
\* with one token overlap and none dies between setting and marking it.
THEOREM ResetTokenOnce ==
  Spec /\ []ResetsApart /\ [][MarkFollows]_vars => []ResetTokenSingleUse
  <1>1. Init => ResetInv
    BY DEF Init, ResetInv, Idle
  <1>2. ASSUME TypeOK, ResetInv, ResetsApart, ResetsApart', [Next]_vars,
               [MarkFollows]_vars
        PROVE  ResetInv'
    <2>1. CASE UNCHANGED vars
      <3>1. UNCHANGED <<req, resets>>
        BY <2>1 DEF vars
      <3> QED
        BY <1>2, <3>1 DEF ResetInv, At
    <2>2. CASE MarkFollows
      BY <1>2, <2>2, FirstUse, ResetStep
    <2> QED
      BY <1>2, <2>1, <2>2
  <1>3. ResetInv => ResetTokenSingleUse
    BY DEF ResetInv, ResetTokenSingleUse
  <1> QED
    BY <1>1, <1>2, <1>3, TypeCorrect, PTL DEF Spec

-----------------------------------------------------------------------------
(* updateAccount and the session it keeps.                                 *)

\* Only IssueInsert makes a row, for the user of its handler and with the
\* password its handler saw.
LEMMA NewRow ==
  ASSUME TypeOK, [Next]_vars, NEW t \in Token, ~Issued(t), Issued(t)'
  PROVE  \E r \in Request : /\ IssueInsert(r)
                            /\ tokens'[t].user = req[r].user
                            /\ tokens'[t].cred = req[r].pw
  <1>0. tokens \in [Token -> RefreshRow] /\ tokens[t].st = "unissued"
        /\ tokens'[t].st # "unissued"
    BY DEF TypeOK, Issued
  <1>1. ASSUME NEW S, NEW reason, tokens' = Revoked(S, reason)
        PROVE  FALSE
    BY <1>0, <1>1, SMTT(40) DEF Revoked, RefreshRow
  <1>2. tokens' # tokens
    BY <1>0, SMTT(40)
  <1>3. ASSUME NEW r \in Request, Step(r)
        PROVE  IssueInsert(r)
    <2>1. ~IssuePrune(r)
      BY <1>0 DEF IssuePrune
    <2>2. ~(RefreshReplay(r) \/ RevokeUser(r) \/ BootRevoke(r))
      BY <1>1 DEF RefreshReplay, RevokeUser, BootRevoke, RevokeUserTokens
    <2>3. ~(RefreshRevokeDenied(r) \/ RefreshRotate(r) \/ StatusRevokeDenied(r))
      BY <1>1 DEF RefreshRevokeDenied, RefreshRotate, StatusRevokeDenied,
         RevokeToken
    <2>4. ~(RevokeUpdate(r) \/ RevokeOthersUpdate(r))
      BY <1>1 DEF RevokeUpdate, RevokeOthersUpdate
    <2> QED
      BY <1>2, <1>3, <2>1, <2>2, <2>3, <2>4
         DEF Step, RegisterSave, RefreshLoadUser, StatusLoadUser, AutoLogin,
             RevokeOthersFind, LoadAccount, LoadEdit, ApplyUserUpdate,
             ApproveUpdate, DenyUpdate, PruneSpentTokens, SaveReset,
             ResetLoadUser, ResetPassword, ResetMark
  <1>4. ASSUME NEW r \in Request, IssueInsert(r)
        PROVE  tokens'[t].user = req[r].user /\ tokens'[t].cred = req[r].pw
    BY <1>0, <1>4 DEF IssueInsert
  <1>5. ASSUME NEW r \in Request, Call(r) \/ AuthenticatedCall(r) \/ Abort(r)
        PROVE  FALSE
    BY <1>2, <1>5, CallArrives DEF ReadsTables, Abort
  <1>6. ASSUME NEW k \in Token, Logout(k)
        PROVE  FALSE
    BY <1>1, <1>6 DEF Logout, RevokeToken
  <1> QED
    BY <1>2, <1>3, <1>4, <1>5, <1>6 DEF Next, Boot, Tick, vars

ChangesPassword(h) == h.why = "password_change"

\* The hypothesis: no token row is inserted for a user whose updateAccount is
\* in flight.  The kept session is named by its token, read on arrival: a
\* refresh in between replaces that token and the update revokes the new one.
InsertsApart ==
    \A r, x \in Request :
        ChangesPassword(req[r]) /\ At(x, "insert") => req[r].user # req[x].user

\* Of the user's unrevoked rows, the presented token's is the one of the
\* session that the token named on arrival.
KeepInv ==
    \A r \in Request :
        ChangesPassword(req[r]) =>
            /\ req[r].pc # "revokeOthers"
            /\ \A x \in Unrevoked :
                 tokens[x].user = req[r].user
                 => (x = req[r].tok <=> tokens[x].ses = req[r].ses)

\* The slot of a password change: it has just arrived, or came with the same
\* token and session.
LEMMA ChangeKeepsSlot ==
  ASSUME TypeOK, KeepInv, [Next]_vars, NEW r \in Request,
         ChangesPassword(req'[r])
  PROVE  /\ req'[r].pc # "revokeOthers"
         /\ \/ /\ ReadsTables /\ Arrival(req'[r])
            \/ /\ ChangesPassword(req[r])
               /\ req'[r].user = req[r].user
               /\ req'[r].tok = req[r].tok /\ req'[r].ses = req[r].ses
  <1>1. CASE req'[r] = req[r]
    BY <1>1 DEF KeepInv
  <1>2. CASE Call(r) \/ AuthenticatedCall(r)
    BY <1>2, CallArrives DEF Arrival, ChangesPassword
  <1>3. CASE Step(r) \/ Abort(r)
    <2>1. Reaches(r) /\ req'[r].pc \notin {"idle", "autoLogin"}
      BY <1>3, StatementReaches DEF ChangesPassword
    <2>2. ~AutoLogin(r) /\ req'[r] # Idle
      <3>1. ~AutoLogin(r)
        BY ZenonT(60) DEF AutoLogin, Idle, ChangesPassword, TypeOK
      <3>2. req'[r] # Idle
        BY DEF Idle, ChangesPassword
      <3> QED
        BY <3>1, <3>2
    <2>3. WorksOn(req[r], req'[r]) /\ req'[r].pc # "revokeOthers"
      BY <2>1, <2>2 DEF Reaches
    <2>4. req'[r].pc # "revokeOthersUpdate"
      <3> SUFFICES ASSUME req'[r].pc = "revokeOthersUpdate" PROVE FALSE
        OBVIOUS
      <3>1. RevokeOthersFind(r)
        BY <1>3, ArrivesWithSession DEF At
      <3> QED
        BY <2>3, <3>1 DEF RevokeOthersFind, At, KeepInv, WorksOn,
           ChangesPassword
    <2> QED
      BY <2>3, <2>4 DEF WorksOn, ChangesPassword
  <1>4. ASSUME NEW q \in Request, NEW pw \in Password, Boot(q, pw)
        PROVE  FALSE
    BY <1>4, BootSlots DEF ChangesPassword
  <1> QED
    BY <1>1, <1>2, <1>3, <1>4, SlotChange

\* A row that is unrevoked after the step: the user had it, or it is another
\* user's.
LEMMA ChangeKeepsRows ==
  ASSUME TypeOK, InsertsApart, [Next]_vars, NEW r \in Request,
         ChangesPassword(req[r]), ChangesPassword(req'[r]),
         NEW x \in Unrevoked', tokens'[x].user = req[r].user
  PROVE  x \in Unrevoked /\ tokens'[x].user = tokens[x].user
         /\ tokens'[x].ses = tokens[x].ses
  <1>0. x \in Token /\ Issued(x)'
    BY DEF Unrevoked, Issued
  <1>1. Issued(x)
    <2> SUFFICES ASSUME ~Issued(x) PROVE FALSE
      OBVIOUS
    <2>1. PICK y \in Request : IssueInsert(y) /\ tokens'[x].user = req[y].user
      BY <1>0, NewRow
    <2> QED
      BY <2>1 DEF InsertsApart, IssueInsert
  <1> QED
    BY <1>0, <1>1, RowsKept

\* Every step leaves a password change with the session it keeps.
LEMMA KeepStep ==
  ASSUME TypeOK, ChainInv, KeepInv, InsertsApart, [Next]_vars
  PROVE  KeepInv'
  <1> SUFFICES ASSUME NEW r \in Request, ChangesPassword(req'[r])
               PROVE  /\ req'[r].pc # "revokeOthers"
                      /\ \A x \in Unrevoked' :
                           tokens'[x].user = req'[r].user
                           => (x = req'[r].tok <=> tokens'[x].ses = req'[r].ses)
    BY DEF KeepInv
  <1>1. req'[r].pc # "revokeOthers"
    BY ChangeKeepsSlot
  <1>2. ASSUME NEW x \in Unrevoked', tokens'[x].user = req'[r].user
        PROVE  x = req'[r].tok <=> tokens'[x].ses = req'[r].ses
    <2>1. CASE ReadsTables /\ Arrival(req'[r])
      <3>1. x \in Unrevoked /\ tokens' = tokens
        BY <1>2, <2>1 DEF ReadsTables, Unrevoked
      <3>2. \A y \in Unrevoked : tokens[x].ses = tokens[y].ses => x = y
        BY <3>1 DEF ChainInv, RowsChained, Unrevoked, Issued
      <3>3. tokens[x].ses # NoSession
        BY <3>1, PoolAssumption DEF ChainInv, RowsChained, Unrevoked, Issued
      <3>4. req'[r].ses = IF /\ req'[r].tok \in Unrevoked
                             /\ tokens[req'[r].tok].user = req'[r].user
                            THEN tokens[req'[r].tok].ses ELSE NoSession
        BY <2>1 DEF Arrival, ChangesPassword
      <3> QED
        BY <1>2, <3>1, <3>2, <3>3, <3>4
    <2>2. CASE /\ ChangesPassword(req[r])
               /\ req'[r].user = req[r].user
               /\ req'[r].tok = req[r].tok /\ req'[r].ses = req[r].ses
      <3>1. x \in Unrevoked /\ tokens'[x].user = tokens[x].user
            /\ tokens'[x].ses = tokens[x].ses
        BY <1>2, <2>2, ChangeKeepsRows
      <3> QED
        BY <1>2, <2>2, <3>1 DEF KeepInv
    <2> QED
      BY <2>1, <2>2, ChangeKeepsSlot
  <1> QED
    BY <1>1, <1>2

\* The step that ends a password change with a revocation is its own last one.
LEMMA ChangeRevokes ==
  ASSUME TypeOK, KeepInv, [Next]_vars, NEW r \in Request,
         At(r, "revokeUser"), ChangesPassword(req[r]),
         tokens' # tokens, req'[r].pc = "idle",
         NEW x \in Unrevoked, tokens[x].user = req[r].user
  PROVE  tokens'[x].rev = "none" <=> tokens[x].ses = req[r].ses
  <1>0. req'[r] # req[r]
    BY DEF At
  <1>1. ~Call(r) /\ ~AuthenticatedCall(r)
    BY CallArrives DEF At
  <1>2. ~Abort(r) /\ ~\E q \in Request, pw \in Password : Boot(q, pw)
    BY DEF Abort, Boot
  <1>3. Step(r)
    BY <1>0, <1>1, <1>2, SlotChange
  <1>4. RevokeUser(r)
    BY <1>3
       DEF Step, IssuePrune, IssueInsert, RegisterSave, RefreshReplay,
           RefreshLoadUser, RefreshRevokeDenied, RefreshRotate, StatusLoadUser,
           StatusRevokeDenied, AutoLogin, RevokeUpdate, RevokeOthersFind,
           RevokeOthersUpdate, LoadAccount, LoadEdit, ApplyUserUpdate,
           ApproveUpdate, DenyUpdate, PruneSpentTokens, SaveReset,
           ResetLoadUser, ResetPassword, ResetMark, BootRevoke, At
  <1>5. x \in Token /\ tokens[x].rev = "none" /\ tokens \in [Token -> RefreshRow]
    BY DEF Unrevoked, TypeOK
  <1>6. tokens'[x].rev = "none" <=> x = req[r].tok
    <2>1. tokens' = Revoked({t \in Unrevoked : /\ tokens[t].user = req[r].user
                                               /\ t # req[r].tok},
                            "password_change")
      BY <1>4 DEF RevokeUser, RevokeUserTokens, ChangesPassword
    <2> QED
      BY <1>5, <2>1 DEF Revoked, RefreshRow
  <1> QED
    BY <1>6 DEF KeepInv

\* updateAccount keeps the session that the cookie named and ends every other
\* one, as long as no row of the user is inserted while it is in flight.
THEOREM PasswordChangeKeepsCurrent ==
  Spec /\ []InsertsApart => PasswordChangeKeepsCurrentSession
  <1>1. Init => KeepInv
    BY DEF Init, KeepInv, ChangesPassword, Idle
  <1>2. ASSUME TypeOK, ChainInv, KeepInv, InsertsApart, [Next]_vars
        PROVE  KeepInv'
    BY <1>2, KeepStep
  <1>3. TypeOK /\ KeepInv /\ [Next]_vars
        => [\A r \in Request :
              (At(r, "revokeUser") /\ req[r].why = "password_change"
               /\ tokens' # tokens /\ req'[r].pc = "idle")
              => \A x \in Unrevoked :
                   tokens[x].user = req[r].user
                   => (tokens'[x].rev = "none"
                         <=> tokens[x].ses = req[r].ses)]_vars
    BY ChangeRevokes DEF ChangesPassword
  <1> QED
    BY <1>1, <1>2, <1>3, TypeCorrect, ChainsHold, PTL
       DEF Spec, PasswordChangeKeepsCurrentSession

-----------------------------------------------------------------------------
(* Who writes the accounts, and that the accounts that are named exist.    *)

\* Every write of an account, and what it leaves.
Registers(r, u) ==
    /\ RegisterSave(r) /\ users[u].status = "absent"
    /\ req'[r].pc = "issue"
    /\ users'[u] = [status |-> RegistrationStatus, pw |-> req[r].pw]

Updates(r, u) ==
    /\ ApplyUserUpdate(r)
    /\ users'[u].status = req[r].snap.status
    /\ IF req[r].pw = NoPw
         THEN users'[u].pw = req[r].snap.pw
         ELSE req'[r].pc = "revokeUser"

Boots(r, u) ==
    \E pw \in Password : /\ Boot(r, pw) /\ u = DefaultUser
                         /\ users'[u] = [status |-> "approved", pw |-> pw]

Writes(r, u) ==
    \/ /\ req[r].user = u
       /\ \/ Registers(r, u)
          \/ Updates(r, u)
          \/ /\ ApproveUpdate(r)
             /\ users'[u].status = "approved" /\ users'[u].pw = users[u].pw
          \/ /\ DenyUpdate(r)
             /\ users'[u].status = "denied" /\ users'[u].pw = users[u].pw
          \/ ResetPassword(r) /\ users'[u].status = users[u].status
    \/ Boots(r, u)

\* An account that a step changes is written by one of these.
LEMMA AccountWrites ==
  ASSUME TypeOK, [Next]_vars, NEW u \in User, users'[u] # users[u]
  PROVE  \E r \in Request : Writes(r, u)
  <1> DEFINE Goal == \E r \in Request : Writes(r, u)
  <1> SUFFICES Goal
    OBVIOUS
  <1>0. /\ users \in [User -> Account] /\ users[u] \in Account
        /\ req \in [Request -> Handler] /\ users' # users
    BY DEF TypeOK
  <1>1. ASSUME NEW r \in Request, Writes(r, u) PROVE Goal
    BY <1>1
  <1> HIDE DEF Goal
  <1>2. ASSUME NEW r \in Request, RegisterSave(r) PROVE Goal
    <2>1. /\ req[r].user = u /\ users[u].status = "absent"
          /\ users'[u] = [status |-> RegistrationStatus, pw |-> req[r].pw]
          /\ Goto(r, "issue")
      BY <1>0, <1>2 DEF RegisterSave
    <2>2. req'[r].pc = "issue"
      BY <1>0, <2>1 DEF Goto, Handler
    <2> QED
      BY <1>1, <1>2, <2>1, <2>2 DEF Writes, Registers
  <1>3. ASSUME NEW r \in Request, ApplyUserUpdate(r) PROVE Goal
    <2>1. /\ req[r].user = u
          /\ users'[u] = [status |-> req[r].snap.status,
                          pw |-> IF req[r].pw = NoPw THEN req[r].snap.pw
                                                     ELSE req[r].pw]
      BY <1>0, <1>3 DEF ApplyUserUpdate
    <2>2. req[r].pw # NoPw => req'[r].pc = "revokeUser"
      BY <1>0, <1>3 DEF ApplyUserUpdate, Goto, Handler
    <2>3. /\ users'[u].status = req[r].snap.status
          /\ req[r].pw = NoPw => users'[u].pw = req[r].snap.pw
      BY <2>1
    <2> QED
      BY <1>1, <1>3, <2>1, <2>2, <2>3 DEF Writes, Updates
  <1>4. ASSUME NEW r \in Request, ApproveUpdate(r) PROVE Goal
    <2>1. /\ req[r].user = u /\ users'[u].status = "approved"
          /\ users'[u].pw = users[u].pw
      BY <1>0, <1>4 DEF ApproveUpdate, Account
    <2> QED
      BY <1>1, <1>4, <2>1 DEF Writes
  <1>5. ASSUME NEW r \in Request, DenyUpdate(r) PROVE Goal
    <2>1. /\ req[r].user = u /\ users'[u].status = "denied"
          /\ users'[u].pw = users[u].pw
      BY <1>0, <1>5 DEF DenyUpdate, Account
    <2> QED
      BY <1>1, <1>5, <2>1 DEF Writes
  <1>6. ASSUME NEW r \in Request, ResetPassword(r) PROVE Goal
    <2>1. req[r].user = u /\ users'[u].status = users[u].status
      BY <1>0, <1>6 DEF ResetPassword, Account
    <2> QED
      BY <1>1, <1>6, <2>1 DEF Writes
  <1>7. ASSUME NEW r \in Request, Step(r) PROVE Goal
    BY <1>0, <1>2, <1>3, <1>4, <1>5, <1>6, <1>7
       DEF Step, IssuePrune, IssueInsert, RefreshReplay, RefreshLoadUser,
           RefreshRevokeDenied, RefreshRotate, StatusLoadUser,
           StatusRevokeDenied, AutoLogin, RevokeUpdate, RevokeOthersFind,
           RevokeOthersUpdate, LoadAccount, LoadEdit, RevokeUser,
           PruneSpentTokens, SaveReset, ResetLoadUser, ResetMark, BootRevoke
  <1>8. ASSUME NEW r \in Request, Call(r) \/ AuthenticatedCall(r) \/ Abort(r)
        PROVE  Goal
    BY <1>0, <1>8, CallArrives DEF ReadsTables, Abort
  <1>9. ASSUME NEW r \in Request, NEW pw \in Password, Boot(r, pw)
        PROVE  Goal
    <2>1. u = DefaultUser /\ users'[u] = [status |-> "approved", pw |-> pw]
      BY <1>0, <1>9 DEF Boot
    <2> QED
      BY <1>1, <1>9, <2>1 DEF Writes, Boots
  <1> QED
    BY <1>0, <1>7, <1>8, <1>9 DEF Next, Logout, Tick, vars

\* No step removes an account.
LEMMA AccountStays ==
  ASSUME TypeOK, AccountsExist, [Next]_vars, NEW u \in User,
         users[u].status # "absent"
  PROVE  users'[u].status # "absent"
  <1>1. CASE users'[u] = users[u]
    BY <1>1
  <1>2. CASE users'[u] # users[u]
    <2>1. PICK r \in Request : Writes(r, u)
      BY <1>2, AccountWrites
    <2>2. ~Registers(r, u)
      BY DEF Registers
    <2>3. Updates(r, u) => users'[u].status # "absent"
      BY DEF Updates, ApplyUserUpdate, AccountsExist
    <2>4. Boots(r, u) => users'[u].status # "absent"
      BY DEF Boots
    <2> QED
      BY <2>1, <2>2, <2>3, <2>4 DEF Writes
  <1> QED
    BY <1>1, <1>2

\* A reset token keeps its user, and is issued for the user of its handler.
LEMMA ResetUsersKept ==
  ASSUME TypeOK, [Next]_vars, NEW k \in ResetToken, resets'[k].st # "unissued"
  PROVE  \/ /\ resets[k].st # "unissued"
            /\ resets'[k].user = resets[k].user
         \/ \E r \in Request : /\ At(r, "saveReset")
                               /\ resets'[k].user = req[r].user
  <1> DEFINE Goal == \/ /\ resets[k].st # "unissued"
                        /\ resets'[k].user = resets[k].user
                     \/ \E r \in Request : /\ At(r, "saveReset")
                                           /\ resets'[k].user = req[r].user
  <1> SUFFICES Goal
    OBVIOUS
  <1>0. resets \in [ResetToken -> ResetRow] /\ resets[k] \in ResetRow
    BY DEF TypeOK
  <1>1. ASSUME UNCHANGED resets PROVE Goal
    BY <1>0, <1>1
  <1>2. ASSUME NEW r \in Request, PruneSpentTokens(r) PROVE Goal
    BY <1>0, <1>2 DEF PruneSpentTokens, ResetRow
  <1>3. ASSUME NEW r \in Request, SaveReset(r) PROVE Goal
    BY <1>0, <1>3 DEF SaveReset
  <1>4. ASSUME NEW r \in Request, ResetMark(r) PROVE Goal
    BY <1>0, <1>4 DEF ResetMark, ResetRow
  <1>5. ASSUME NEW r \in Request, ResetPassword(r) PROVE Goal
    <2>1. resets'[k].st = resets[k].st /\ resets'[k].user = resets[k].user
      BY <1>0, <1>5, SMTT(40) DEF ResetPassword, ResetRow
    <2> QED
      BY <2>1
  <1> HIDE DEF Goal
  <1>6. ASSUME NEW r \in Request, Step(r) PROVE Goal
    BY <1>1, <1>2, <1>3, <1>4, <1>5, <1>6
       DEF Step, IssuePrune, IssueInsert, RegisterSave, RefreshReplay,
           RefreshLoadUser, RefreshRevokeDenied, RefreshRotate, StatusLoadUser,
           StatusRevokeDenied, AutoLogin, RevokeUpdate, RevokeOthersFind,
           RevokeOthersUpdate, LoadAccount, LoadEdit, ApplyUserUpdate,
           RevokeUser, ApproveUpdate, DenyUpdate, ResetLoadUser, BootRevoke
  <1>7. ASSUME NEW r \in Request, Call(r) \/ AuthenticatedCall(r) \/ Abort(r)
        PROVE  Goal
    BY <1>1, <1>7, CallArrives DEF ReadsTables, Abort
  <1> QED
    BY <1>1, <1>6, <1>7 DEF Next, Boot, Logout, Tick, vars

\* A handler's account exists, or its statement has just created it, or it is
\* the default user's.
LEMMA HandlerAccounts ==
  ASSUME TypeInv, Managed, AccountsExist, [Next]_vars, NEW r \in Request
  PROVE  OfAccount(req[r])'
  <1> SUFFICES ASSUME req'[r].pc \notin {"idle", "autoLogin", "registerSave"}
               PROVE  users'[req'[r].user].status # "absent"
    BY DEF OfAccount
  <1>0. TypeOK /\ \A x \in Request : HandlerBound(req[x])
    BY DEF TypeInv, UsersBound
  <1>1. ASSUME req'[r].user \in User, users[req'[r].user].status # "absent"
        PROVE  users'[req'[r].user].status # "absent"
    BY <1>0, <1>1, AccountStays
  <1>2. CASE req'[r] = req[r]
    BY <1>0, <1>1, <1>2 DEF HandlerBound, AccountsExist, OfAccount
  <1>3. CASE Call(r) \/ AuthenticatedCall(r)
    <2>1. OfAccount(req'[r])
      BY <1>0, <1>3, CallArrives
    <2>2. req'[r].user \in User
      BY NextType DEF TypeInv, UsersBound, HandlerBound
    <2> QED
      BY <1>1, <2>1, <2>2 DEF OfAccount
  <1>4. CASE Step(r) \/ Abort(r)
    <2>1. Reaches(r)
      BY <1>0, <1>4, StatementReaches
    <2>2. CASE AutoLogin(r)
      <3>1. req'[r].user = DefaultUser /\ DefaultUser \in User
        BY <1>0, <2>2 DEF AutoLogin, TypeOK, Idle, HandlerBound, At
      <3>2. users[DefaultUser].status = "approved"
        BY <3>1, AccountAssumption DEF Managed
      <3> QED
        BY <1>1, <3>1, <3>2
    <2>3. CASE RegisterSave(r) /\ req'[r].pc = "issue"
      <3>1. /\ req[r].user \in User /\ req'[r].user = req[r].user
            /\ users'[req[r].user].status = RegistrationStatus
        <4>1. req[r].user \in User
          BY <1>0, <2>3 DEF RegisterSave, At, HandlerBound
        <4>2. Goto(r, "issue") /\ users' = [users EXCEPT ![req[r].user] =
                [status |-> RegistrationStatus, pw |-> req[r].pw]]
          BY <1>0, <2>3 DEF RegisterSave, Finish, Idle, TypeOK
        <4> QED
          BY <1>0, <4>1, <4>2 DEF Goto, TypeOK, Handler
      <3> QED
        BY <3>1 DEF RegistrationStatus
    <2>4. CASE WorksOn(req[r], req'[r]) /\ ~RegisterSave(r) /\ ~AutoLogin(r)
      <3>1. req[r].pc \notin {"idle", "autoLogin", "registerSave"}
        <4>1. ~Abort(r)
          BY <1>0 DEF Abort, Finish, Idle, TypeOK
        <4> QED
          BY <1>4, <2>4, <4>1 DEF Step, IssuePrune, IssueInsert, RefreshReplay,
             RefreshLoadUser, RefreshRevokeDenied, RefreshRotate,
             StatusLoadUser, StatusRevokeDenied, RevokeUpdate,
             RevokeOthersFind, RevokeOthersUpdate, LoadAccount, LoadEdit,
             ApplyUserUpdate, RevokeUser, ApproveUpdate, DenyUpdate,
             PruneSpentTokens, SaveReset, ResetLoadUser, ResetPassword,
             ResetMark, BootRevoke, At
      <3>2. req'[r].user = req[r].user /\ req[r].user \in User
        BY <1>0, <2>4, <3>1 DEF WorksOn, HandlerBound
      <3> QED
        BY <1>1, <3>1, <3>2, SMTT(40) DEF AccountsExist, OfAccount
    <2>5. req'[r] # Idle
      BY DEF Idle
    <2>6. RegisterSave(r) => req'[r].pc = "issue"
      BY <1>0, <2>5 DEF RegisterSave, Goto, Finish, TypeOK, Handler
    <2> QED
      BY <2>1, <2>2, <2>3, <2>4, <2>5, <2>6 DEF Reaches
  <1>5. ASSUME NEW q \in Request, NEW pw \in Password, Boot(q, pw)
        PROVE  users'[req'[r].user].status # "absent"
    <2>1. req'[r].user = DefaultUser /\ DefaultUser \in User
      BY <1>5, AccountAssumption DEF Boot, Idle
    <2> QED
      BY <1>0, <1>5, <2>1 DEF Boot, TypeOK
  <1> QED
    BY <1>0, <1>2, <1>3, <1>4, <1>5, SlotChange

\* The accounts that rows, reset tokens and handlers name keep existing.
LEMMA AccountsStep ==
  ASSUME TypeInv, Managed, AccountsExist, [Next]_vars
  PROVE  AccountsExist'
  <1>0. TypeOK /\ UsersBound
    BY DEF TypeInv
  <1>1. ASSUME NEW r \in Request, At(r, "insert") \/ At(r, "saveReset")
        PROVE  req[r].user \in User /\ users[req[r].user].status # "absent"
    BY <1>0, <1>1 DEF UsersBound, HandlerBound, AccountsExist, OfAccount, At
  <1>2. ASSUME NEW t \in Token, Issued(t)'
        PROVE  users'[tokens'[t].user].status # "absent"
    <2>1. CASE Issued(t)
      BY <1>0, <2>1, RowsKept, AccountStays DEF UsersBound, AccountsExist
    <2>2. CASE ~Issued(t)
      <3>1. PICK r \in Request : IssueInsert(r) /\ tokens'[t].user = req[r].user
        BY <1>0, <1>2, <2>2, NewRow
      <3> QED
        BY <1>0, <1>1, <3>1, AccountStays DEF IssueInsert
    <2> QED
      BY <2>1, <2>2
  <1>3. ASSUME NEW k \in ResetToken, resets'[k].st # "unissued"
        PROVE  users'[resets'[k].user].status # "absent"
    <2>1. \/ /\ resets[k].st # "unissued"
             /\ resets'[k].user = resets[k].user
          \/ \E r \in Request : /\ At(r, "saveReset")
                                /\ resets'[k].user = req[r].user
      BY <1>0, <1>3, ResetUsersKept
    <2>2. /\ resets'[k].user \in User
          /\ users[resets'[k].user].status # "absent"
      BY <1>0, <1>1, <2>1 DEF UsersBound, AccountsExist
    <2> QED
      BY <1>0, <2>2, AccountStays
  <1>4. ASSUME NEW r \in Request, At(r, "save")'
        PROVE  req'[r].snap.status # "absent"
    <2>0. req'[r].pc = "save"
      BY <1>4 DEF At
    <2>1. CASE req'[r] = req[r]
      BY <2>0, <2>1 DEF AccountsExist, At
    <2>2. CASE Call(r) \/ AuthenticatedCall(r)
      BY <1>0, <2>0, <2>2, CallArrives DEF Arrival
    <2>3. CASE Step(r) \/ Abort(r)
      <3>1. /\ LoadAccount(r) \/ LoadEdit(r)
            /\ req'[r].snap = users[req[r].user]
        BY <1>0, <2>0, <2>3, StatementReaches DEF Reaches
      <3> QED
        BY <3>1 DEF LoadAccount, LoadEdit, At, AccountsExist, OfAccount
    <2>4. ASSUME NEW q \in Request, NEW pw \in Password, Boot(q, pw)
          PROVE  FALSE
      BY <2>0, <2>4, BootSlots
    <2> QED
      BY <1>0, <2>1, <2>2, <2>3, <2>4, SlotChange
  <1> QED
    BY <1>2, <1>3, <1>4, HandlerAccounts DEF AccountsExist

\* Handlers that will end every session of their user hold no token.
TokenFree ==
    \A r \in Request :
        req[r].pc \in {"deny", "resetUser", "resetPassword", "resetMark"}
        => req[r].tok \notin Token

\* The admin's routes and the reset arrive without a token, and take none up.
LEMMA TokenFreeStep ==
  ASSUME TypeOK, TokenFree, [Next]_vars
  PROVE  TokenFree'
  <1> SUFFICES ASSUME NEW r \in Request,
                      req'[r].pc \in {"deny", "resetUser", "resetPassword",
                                      "resetMark"}
               PROVE  req'[r].tok \notin Token
    BY DEF TokenFree
  <1>1. CASE req'[r] = req[r]
    BY <1>1 DEF TokenFree
  <1>2. CASE Call(r) \/ AuthenticatedCall(r)
    BY <1>2, CallArrives, PoolAssumption DEF Arrival
  <1>3. CASE Step(r) \/ Abort(r)
    <2>1. Reaches(r)
      BY <1>3, StatementReaches
    <2>2. ResetLoadUser(r) \/ ResetPassword(r)
      BY <2>1 DEF Reaches
    <2>3. req'[r] # Idle /\ ~AutoLogin(r)
      BY <2>2 DEF Idle, AutoLogin, ResetLoadUser, ResetPassword, At
    <2>4. req'[r].tok = req[r].tok
      BY <2>1, <2>3 DEF Reaches, WorksOn
    <2> QED
      BY <2>2, <2>4 DEF TokenFree, ResetLoadUser, ResetPassword, At
  <1>4. ASSUME NEW q \in Request, NEW pw \in Password, Boot(q, pw)
        PROVE  FALSE
    BY <1>4, BootSlots
  <1> QED
    BY <1>1, <1>2, <1>3, <1>4, SlotChange

AccountInv == AccountsExist /\ TokenFree

\* Every named account exists, and who signs a user out everywhere keeps no
\* token of theirs.
LEMMA AccountsHold == Spec => [](TypeInv /\ Managed /\ AccountInv)
  <1>1. Init => AccountInv
    BY DEF Init, AccountInv, AccountsExist, TokenFree, OfAccount, Issued,
       Unissued, Idle, At
  <1>2. TypeInv /\ Managed /\ AccountInv /\ [Next]_vars
        => (TypeInv /\ Managed /\ AccountInv)'
    <2> SUFFICES ASSUME TypeInv, Managed, AccountInv, [Next]_vars
                 PROVE  (TypeInv /\ Managed /\ AccountInv)'
      OBVIOUS
    <2>1. TypeInv'
      BY NextType
    <2>2. Managed'
      BY DefaultUserStep DEF Managed, TypeInv
    <2>3. AccountInv'
      BY AccountsStep, TokenFreeStep DEF AccountInv, TypeInv
    <2> QED
      BY <2>1, <2>2, <2>3
  <1> QED
    BY <1>1, <1>2, InitType, InitManaged, PTL DEF Spec

-----------------------------------------------------------------------------
(* Signing a user out: old passwords and denied users.                     *)

\* The hypotheses.  No session of a user is minted while a handler that has
\* changed the account has still to revoke its sessions; an update saves an
\* account as it was loaded; and a change is followed by its revocation, with
\* no failure or restart in between.
MintsApart ==
    \A r, x \in Request :
        OwesRevocation(req[r]) /\ Minting(req[x]) => req[r].user # req[x].user

FreshSaves ==
    \A r \in Request : At(r, "save") => req[r].snap = users[req[r].user]

RevocationsFollow ==
    \A r \in Request : OwesRevocation(req[r]) /\ req'[r] # req[r] => Step(r)

\* For passwords only: no updateAccount keeps the presented session (which
\* was opened with the old password, and is meant to survive).
NoSessionKept ==
    \A r \in Request : At(r, "revokeUser") => req[r].tok \notin Token

Waits(u) == \E r \in Request : OwesRevocation(req[r]) /\ req[r].user = u

\* The last of those revocations leaves no unrevoked row.
LEMMA RevocationEnds ==
  ASSUME TypeInv, TokenFree, RevocationsFollow, [Next]_vars,
         NEW u, Waits(u), ~Waits(u)', NEW t \in Unrevoked'
  PROVE  tokens'[t].user # u
  <1>0. /\ TypeOK /\ req \in [Request -> Handler]
        /\ tokens \in [Token -> RefreshRow]
        /\ t \in Token /\ tokens'[t].st = "row" /\ tokens'[t].rev = "none"
    BY DEF TypeInv, TypeOK, Unrevoked
  <1>1. PICK r \in Request : OwesRevocation(req[r]) /\ req[r].user = u
    BY DEF Waits
  <1>2. Step(r)
    BY <1>1 DEF RevocationsFollow, Waits
  <1>3. ~At(r, "resetMark")
    <2> SUFFICES ASSUME At(r, "resetMark") PROVE FALSE
      OBVIOUS
    <2>1. ResetMark(r)
      BY <1>2
         DEF Step, IssuePrune, IssueInsert, RegisterSave, RefreshReplay,
             RefreshLoadUser, RefreshRevokeDenied, RefreshRotate,
             StatusLoadUser, StatusRevokeDenied, AutoLogin, RevokeUpdate,
             RevokeOthersFind, RevokeOthersUpdate, LoadAccount, LoadEdit,
             ApplyUserUpdate, RevokeUser, ApproveUpdate, DenyUpdate,
             PruneSpentTokens, SaveReset, ResetLoadUser, ResetPassword,
             BootRevoke, At
    <2>2. /\ req'[r].pc = "revokeUser" /\ req'[r].user = u
          /\ req'[r].tok = req[r].tok
      BY <1>0, <1>1, <2>1 DEF ResetMark, Goto, Handler
    <2>3. req[r].tok \notin Token
      BY SMTT(40) DEF TokenFree, At
    <2> QED
      BY <2>2, <2>3 DEF Waits, OwesRevocation
  <1>4. RevokeUser(r) \/ BootRevoke(r)
    BY <1>1, <1>2, <1>3
       DEF OwesRevocation, Step, IssuePrune, IssueInsert, RegisterSave,
           RefreshReplay, RefreshLoadUser, RefreshRevokeDenied, RefreshRotate,
           StatusLoadUser, StatusRevokeDenied, AutoLogin, RevokeUpdate,
           RevokeOthersFind, RevokeOthersUpdate, LoadAccount, LoadEdit,
           ApplyUserUpdate, ApproveUpdate, DenyUpdate, PruneSpentTokens,
           SaveReset, ResetLoadUser, ResetPassword, ResetMark, At
  <1>5. PICK reason, k : /\ reason # "none" /\ k \notin Token
                         /\ RevokeUserTokens(u, reason, k)
    <2>1. CASE RevokeUser(r)
      <3>1. req[r].why # "none"
        BY <2>1 DEF TypeInv, UsersBound, HandlerBound, WillRevoke, RevokeUser,
           At
      <3>2. req[r].tok \notin Token
        BY <1>1, <2>1 DEF OwesRevocation, RevokeUser, At
      <3> QED
        BY <1>1, <2>1, <3>1, <3>2 DEF RevokeUser
    <2>2. CASE BootRevoke(r)
      BY <1>1, <2>2, PoolAssumption DEF BootRevoke
    <2> QED
      BY <1>4, <2>1, <2>2
  <1>6. tokens' = Revoked({x \in Unrevoked : tokens[x].user = u /\ x # k}, reason)
    BY <1>5 DEF RevokeUserTokens
  <1> QED
    BY <1>0, <1>5, <1>6, SMTT(20) DEF Revoked, RefreshRow, Unrevoked

\* Whoever changes a password will revoke the sessions opened with the old one.
LEMMA PasswordWrites ==
  ASSUME TypeOK, FreshSaves, NoSessionKept', [Next]_vars, NEW u \in User,
         users'[u].pw # users[u].pw
  PROVE  \/ \E r \in Request : req[r].user = u /\ Registers(r, u)
         \/ Waits(u)'
  <1>1. PICK r \in Request : Writes(r, u)
    BY AccountWrites
  <1>2. ASSUME Updates(r, u), req[r].user = u
        PROVE  Waits(u)'
    <2>1. req'[r].pc = "revokeUser"
      BY <1>2 DEF Updates, FreshSaves, ApplyUserUpdate
    <2>2. req'[r].user = u
      BY <1>2, <2>1 DEF Updates, ApplyUserUpdate, Goto, Finish, Idle, TypeOK,
         Handler
    <2>3. req'[r].tok \notin Token
      BY <2>1 DEF NoSessionKept, At
    <2> QED
      BY <2>1, <2>2, <2>3 DEF Waits, OwesRevocation
  <1>3. ASSUME ResetPassword(r), req[r].user = u
        PROVE  Waits(u)'
    <2>1. req'[r].pc = "resetMark" /\ req'[r].user = u
      BY <1>3 DEF ResetPassword, Goto, TypeOK, Handler
    <2> QED
      BY <2>1 DEF Waits, OwesRevocation
  <1>4. ASSUME Boots(r, u)
        PROVE  Waits(u)'
    <2>1. req'[r].pc = "bootRevoke" /\ req'[r].user = u
      BY <1>4 DEF Boots, Boot, Idle
    <2> QED
      BY <2>1 DEF Waits, OwesRevocation
  <1> QED
    BY <1>1, <1>2, <1>3, <1>4 DEF Writes

\* Whoever denies a user will revoke their sessions.
LEMMA StatusWrites ==
  ASSUME TypeOK, FreshSaves, TokenFree, [Next]_vars, NEW u \in User,
         users'[u].status = "denied", users[u].status # "denied"
  PROVE  Waits(u)'
  <1>1. PICK r \in Request : Writes(r, u)
    BY AccountWrites
  <1>2. ~Updates(r, u) \/ req[r].user # u
    BY DEF Updates, FreshSaves, ApplyUserUpdate
  <1>3. ~Registers(r, u) /\ ~Boots(r, u)
    <2>1. ~Registers(r, u)
      <3>1. RegistrationStatus # "denied"
        BY DEF RegistrationStatus
      <3>2. Registers(r, u) => users'[u].status = RegistrationStatus
        BY DEF Registers
      <3> QED
        BY <3>1, <3>2
    <2>2. ~Boots(r, u)
      <3>1. Boots(r, u) => users'[u].status = "approved"
        BY DEF Boots
      <3> QED
        BY <3>1
    <2> QED
      BY <2>1, <2>2
  <1>4. DenyUpdate(r) /\ req[r].user = u
    BY <1>1, <1>2, <1>3 DEF Writes
  <1>5. /\ req'[r].pc = "revokeUser" /\ req'[r].user = u
        /\ req'[r].tok = req[r].tok
    BY <1>4 DEF DenyUpdate, Goto, TypeOK, Handler
  <1>6. req[r].tok \notin Token
    BY <1>4 DEF DenyUpdate, At, TokenFree
  <1> QED
    BY <1>5, <1>6 DEF Waits, OwesRevocation

\* How a handler comes to mint a session.
LEMMA MintingMoves ==
  ASSUME TypeOK, [Next]_vars, NEW r \in Request, Minting(req'[r])
  PROVE  \/ req'[r] = req[r]
         \/ ReadsTables /\ Arrival(req'[r]) /\ req'[r].pc = "issue"
         \/ IssuePrune(r) /\ WorksOn(req[r], req'[r])
         \/ RegisterSave(r) /\ WorksOn(req[r], req'[r])
         \/ RefreshRotate(r) /\ WorksOn(req[r], req'[r])
         \/ AutoLogin(r)
  <1>1. CASE Call(r) \/ AuthenticatedCall(r)
    BY <1>1, CallArrives DEF Arrival, Minting
  <1>2. CASE Step(r) \/ Abort(r)
    <2>1. Reaches(r)
      BY <1>2, StatementReaches
    <2>2. req'[r] # Idle /\ req'[r].pc # "autoLogin"
      BY DEF Minting, Idle
    <2> QED
      BY <2>1, <2>2 DEF Reaches, Minting
  <1>3. ASSUME NEW q \in Request, NEW pw \in Password, Boot(q, pw)
        PROVE  FALSE
    BY <1>3, BootSlots DEF Minting
  <1> QED
    BY <1>1, <1>2, <1>3, SlotChange

\* A refresh that wins its rotation does so from a row that was unrevoked, with
\* no revocation of its user's sessions under way.
LEMMA RotatesUnrevoked ==
  ASSUME TypeInv, HandlersChained, MintsApart', [Next]_vars, NEW r \in Request,
         RefreshRotate(r), WorksOn(req[r], req'[r]), Minting(req'[r])
  PROVE  /\ req[r].tok \in Unrevoked
         /\ tokens[req[r].tok].user = req[r].user
         /\ ~Waits(req[r].user)
         /\ users' = users
  <1>0. TypeOK /\ At(r, "rotate") /\ users' = users
    BY DEF TypeInv, RefreshRotate
  <1>1. req[r].tok \in Unrevoked
    BY <1>0 DEF RefreshRotate, Finish, Idle, Minting, TypeOK
  <1>2. tokens[req[r].tok].user = req[r].user
    BY <1>0 DEF HandlersChained, HoldsRow, At
  <1>3. ASSUME NEW x \in Request, OwesRevocation(req[x]),
               req[x].user = req[r].user
        PROVE  FALSE
    <2>1. x # r
      BY <1>0, <1>3 DEF OwesRevocation, At
    <2>2. req'[x] = req[x]
      BY <1>0, <2>1, OwnSlot DEF Step
    <2> QED
      BY <1>3, <2>2 DEF MintsApart, WorksOn
  <1> QED
    BY <1>0, <1>1, <1>2, <1>3 DEF Waits

\* Once nothing is left to revoke, a user's unrevoked rows were opened with
\* the current password; so will the ones being minted be, and a refresh
\* carries the password of its row along.
CredInv ==
    /\ \A u \in User :
         ~Waits(u) => \A t \in Unrevoked :
                        tokens[t].user = u => tokens[t].cred = users[u].pw
    /\ \A r \in Request :
         Minting(req[r]) => req[r].pw = users[req[r].user].pw
    /\ \A r \in Request :
         req[r].pc \in {"loadUser", "rotate"}
         => req[r].pw = tokens[req[r].tok].cred

\* Once nothing is left to revoke, a denied user has no unrevoked row; and
\* nobody mints one for a denied user.
DenyInv ==
    /\ \A u \in User :
         (users[u].status = "denied" /\ ~Waits(u))
         => \A t \in Unrevoked : tokens[t].user # u
    /\ \A r \in Request :
         Minting(req[r]) => users[req[r].user].status # "denied"

AccountFacts == TypeInv /\ Managed /\ AccountInv /\ HandlersChained

\* The user of a handler that mints is an existing account.
LEMMA MintingUser ==
  ASSUME AccountFacts, NEW r \in Request, Minting(req[r])
  PROVE  req[r].user \in User /\ users[req[r].user].status # "absent"
  BY DEF AccountFacts, TypeInv, UsersBound, HandlerBound, AccountInv,
     AccountsExist, OfAccount, Minting

\* The rows of a user, after a step.
LEMMA CredRows ==
  ASSUME AccountFacts, CredInv, MintsApart, FreshSaves, NoSessionKept',
         RevocationsFollow, [Next]_vars,
         NEW u \in User, ~Waits(u)', NEW t \in Unrevoked', tokens'[t].user = u
  PROVE  tokens'[t].cred = users'[u].pw
  <1>0. TypeInv /\ TypeOK /\ AccountsExist /\ TokenFree /\ t \in Token
        /\ Issued(t)'
    BY DEF AccountFacts, AccountInv, TypeInv, Unrevoked, Issued
  <1>1. CASE users'[u].pw # users[u].pw
    <2>1. PICK r \in Request : req[r].user = u /\ Registers(r, u)
      BY <1>0, <1>1, PasswordWrites
    <2>2. tokens' = tokens /\ users[u].status = "absent"
      BY <2>1 DEF Registers, RegisterSave
    <2> QED
      BY <1>0, <2>2 DEF AccountsExist, Issued
  <1>2. CASE users'[u].pw = users[u].pw
    <2>1. ~Waits(u)
      BY <1>0, RevocationEnds
    <2>2. CASE Issued(t)
      BY <1>0, <1>2, <2>1, <2>2, RowsKept DEF CredInv
    <2>3. CASE ~Issued(t)
      <3>1. PICK r \in Request : /\ IssueInsert(r)
                                 /\ tokens'[t].user = req[r].user
                                 /\ tokens'[t].cred = req[r].pw
        BY <1>0, <2>3, NewRow
      <3>2. Minting(req[r])
        BY <3>1 DEF IssueInsert, At, Minting
      <3> QED
        BY <1>2, <3>1, <3>2 DEF CredInv
    <2> QED
      BY <2>2, <2>3
  <1> QED
    BY <1>1, <1>2

\* A handler that mints, after a step.
LEMMA CredMinting ==
  ASSUME AccountFacts, AccountFacts', CredInv, MintsApart', FreshSaves,
         NoSessionKept', [Next]_vars, NEW r \in Request, Minting(req'[r])
  PROVE  req'[r].pw = users'[req'[r].user].pw
  <1>0. /\ TypeInv /\ TypeOK /\ HandlersChained
        /\ req'[r].user \in User
    BY MintingUser DEF AccountFacts, TypeInv, UsersBound, HandlerBound, Minting
  <1>u. PICK u \in User : u = req'[r].user
    BY <1>0
  <1>1. ~Waits(u)'
    BY <1>u DEF MintsApart, Waits
  <1>2. CASE req'[r] = req[r]
    <2>1. Minting(req[r]) /\ users[req[r].user].status # "absent"
      BY <1>2, MintingUser
    <2>2. users'[u].pw = users[u].pw
      BY <1>0, <1>u, <1>1, <1>2, <2>1, PasswordWrites DEF Registers
    <2> QED
      BY <1>u, <1>2, <2>1, <2>2 DEF CredInv
  <1>3. CASE ReadsTables /\ Arrival(req'[r]) /\ req'[r].pc = "issue"
    BY <1>3 DEF Arrival, ReadsTables
  <1>4. CASE IssuePrune(r) /\ WorksOn(req[r], req'[r])
    BY <1>4 DEF IssuePrune, WorksOn, CredInv, Minting, At
  <1>5. CASE RegisterSave(r) /\ WorksOn(req[r], req'[r])
    <2>1. users' = [users EXCEPT ![req[r].user] =
                      [status |-> RegistrationStatus, pw |-> req[r].pw]]
      BY <1>0, <1>5 DEF RegisterSave, Finish, Idle, TypeOK, Minting
    <2>2. users \in [User -> Account] /\ req[r].user \in User
      BY <1>0, <1>5 DEF TypeOK, WorksOn
    <2> QED
      BY <1>5, <2>1, <2>2 DEF WorksOn
  <1>6. CASE RefreshRotate(r) /\ WorksOn(req[r], req'[r])
    <2>1. /\ req[r].tok \in Unrevoked
          /\ tokens[req[r].tok].user = req[r].user
          /\ ~Waits(req[r].user)
          /\ users' = users
      BY <1>0, <1>6, RotatesUnrevoked
    <2>2. req[r].pw = tokens[req[r].tok].cred
      BY <1>6 DEF CredInv, RefreshRotate, At
    <2> QED
      BY <1>0, <1>6, <2>1, <2>2 DEF WorksOn, CredInv
  <1>7. CASE AutoLogin(r)
    <2>1. /\ req'[r].user = DefaultUser /\ req'[r].pw = users[DefaultUser].pw
          /\ users' = users
      BY <1>0, <1>7 DEF AutoLogin, Idle, TypeOK
    <2> QED
      BY <2>1
  <1> QED
    BY <1>0, <1>2, <1>3, <1>4, <1>5, <1>6, <1>7, MintingMoves

\* A refresh between its read and its rotation, after a step.
LEMMA CredHeld ==
  ASSUME AccountFacts, CredInv, [Next]_vars, NEW r \in Request,
         req'[r].pc \in {"loadUser", "rotate"}
  PROVE  req'[r].pw = tokens'[req'[r].tok].cred
  <1>0. TypeOK /\ HandlersChained
    BY DEF AccountFacts, TypeInv
  <1>1. ASSUME req[r].pc \in {"loadUser", "rotate"}
        PROVE  req[r].pw = tokens'[req[r].tok].cred
    <2>1. req[r].tok \in Token /\ Issued(req[r].tok)
      BY <1>0, <1>1 DEF HandlersChained, HoldsRow
    <2> QED
      BY <1>0, <1>1, <2>1, RowsKept DEF CredInv
  <1>2. CASE req'[r] = req[r]
    BY <1>1, <1>2
  <1>3. CASE Call(r) \/ AuthenticatedCall(r)
    BY <1>0, <1>3, CallArrives DEF Arrival, ReadsTables
  <1>4. CASE Step(r) \/ Abort(r)
    <2>1. Reaches(r)
      BY <1>0, <1>4, StatementReaches
    <2>2. RefreshLoadUser(r)
      BY <2>1 DEF Reaches
    <2>3. req'[r].pw = req[r].pw /\ req'[r].tok = req[r].tok
      BY <1>0, <2>2 DEF RefreshLoadUser, Goto, TypeOK, Handler
    <2> QED
      BY <1>1, <2>2, <2>3 DEF RefreshLoadUser, At
  <1>5. ASSUME NEW q \in Request, NEW pw \in Password, Boot(q, pw)
        PROVE  FALSE
    BY <1>5, BootSlots
  <1> QED
    BY <1>0, <1>2, <1>3, <1>4, <1>5, SlotChange

\* The facts that the two theorems start from.
LEMMA AccountFactsHold == Spec => []AccountFacts
  <1>1. TypeInv /\ Managed /\ AccountInv /\ ChainInv => AccountFacts
    BY DEF AccountFacts, ChainInv
  <1> QED
    BY <1>1, AccountsHold, ChainsHold, PTL

\* Once no handler works on a user, every unrevoked session of theirs was
\* opened with the current password: resetPassword, editUser and the boot sync
\* end all the others.
THEOREM OldPasswordsEnd ==
  Spec /\ []MintsApart /\ []FreshSaves /\ []NoSessionKept
       /\ [][RevocationsFollow]_vars
  => []OldPasswordSessionsEnd
  <1>1. Init => CredInv
    BY DEF Init, CredInv, Unrevoked, Unissued, Minting, Idle
  <1>2. ASSUME AccountFacts, AccountFacts', CredInv, MintsApart, MintsApart',
               FreshSaves, NoSessionKept', [Next]_vars,
               [RevocationsFollow]_vars
        PROVE  CredInv'
    <2>1. CASE UNCHANGED vars
      <3>1. UNCHANGED <<users, tokens, req>>
        BY <2>1 DEF vars
      <3>2. Unrevoked' = Unrevoked /\ \A u : Waits(u)' <=> Waits(u)
        BY <3>1 DEF Unrevoked, Waits
      <3> QED
        BY <1>2, <3>1, <3>2 DEF CredInv
    <2>2. CASE RevocationsFollow
      BY <1>2, <2>2, CredRows, CredMinting, CredHeld DEF CredInv
    <2> QED
      BY <1>2, <2>1, <2>2
  <1>3. CredInv => OldPasswordSessionsEnd
    BY DEF CredInv, OldPasswordSessionsEnd, Waits
  <1> QED
    BY <1>1, <1>2, <1>3, AccountFactsHold, PTL DEF Spec

\* The rows of a denied user, after a step.
LEMMA DenyRows ==
  ASSUME AccountFacts, DenyInv, FreshSaves, RevocationsFollow, [Next]_vars,
         NEW u \in User, users'[u].status = "denied", ~Waits(u)',
         NEW t \in Unrevoked'
  PROVE  tokens'[t].user # u
  <1>0. TypeInv /\ TypeOK /\ TokenFree /\ t \in Token /\ Issued(t)'
    BY DEF AccountFacts, AccountInv, TypeInv, Unrevoked, Issued
  <1>1. users[u].status = "denied"
    BY <1>0, StatusWrites
  <1>2. CASE Waits(u)
    BY <1>0, <1>2, RevocationEnds
  <1>3. CASE ~Waits(u)
    <2>1. CASE Issued(t)
      BY <1>0, <1>1, <1>3, <2>1, RowsKept DEF DenyInv
    <2>2. CASE ~Issued(t)
      <3>1. PICK r \in Request : IssueInsert(r) /\ tokens'[t].user = req[r].user
        BY <1>0, <2>2, NewRow
      <3>2. Minting(req[r])
        BY <3>1 DEF IssueInsert, At, Minting
      <3> QED
        BY <1>1, <3>1, <3>2 DEF DenyInv
    <2> QED
      BY <2>1, <2>2
  <1> QED
    BY <1>2, <1>3

\* A handler that mints, after a step: not for a denied user.
LEMMA DenyMinting ==
  ASSUME AccountFacts, AccountFacts', DenyInv, MintsApart', FreshSaves,
         [Next]_vars, NEW r \in Request, Minting(req'[r])
  PROVE  users'[req'[r].user].status # "denied"
  <1>0. /\ TypeInv /\ TypeOK /\ HandlersChained /\ TokenFree
        /\ req'[r].user \in User
    BY MintingUser DEF AccountFacts, AccountInv, TypeInv, UsersBound,
       HandlerBound, Minting
  <1>u. PICK u \in User : u = req'[r].user
    BY <1>0
  <1>1. ~Waits(u)'
    BY <1>u DEF MintsApart, Waits
  <1>2. users[req'[r].user].status # "denied"
        => users'[req'[r].user].status # "denied"
    BY <1>0, <1>u, <1>1, StatusWrites
  <1>3. CASE req'[r] = req[r]
    BY <1>2, <1>3 DEF DenyInv
  <1>4. CASE ReadsTables /\ Arrival(req'[r]) /\ req'[r].pc = "issue"
    BY <1>2, <1>4 DEF Arrival
  <1>5. CASE IssuePrune(r) /\ WorksOn(req[r], req'[r])
    BY <1>2, <1>5 DEF IssuePrune, WorksOn, DenyInv, Minting, At
  <1>6. CASE RegisterSave(r) /\ WorksOn(req[r], req'[r])
    <2>1. users[req[r].user].status = "absent"
      BY <1>0, <1>6 DEF RegisterSave, Finish, Idle, TypeOK, Minting
    <2> QED
      BY <1>2, <1>6, <2>1 DEF WorksOn
  <1>7. CASE RefreshRotate(r) /\ WorksOn(req[r], req'[r])
    <2>1. /\ req[r].tok \in Unrevoked
          /\ tokens[req[r].tok].user = req[r].user
          /\ ~Waits(req[r].user)
      BY <1>0, <1>7, RotatesUnrevoked
    <2> QED
      BY <1>0, <1>2, <1>7, <2>1 DEF WorksOn, DenyInv
  <1>8. CASE AutoLogin(r)
    <2>1. req'[r].user = DefaultUser
      BY <1>0, <1>8 DEF AutoLogin, Idle, TypeOK
    <2>2. users[DefaultUser].status = "approved"
      BY <1>0, <2>1, AccountAssumption DEF AccountFacts, Managed
    <2> QED
      BY <1>2, <2>1, <2>2
  <1> QED
    BY <1>0, <1>3, <1>4, <1>5, <1>6, <1>7, <1>8, MintingMoves

\* denyUser signs the user out, and no handler lets a denied user back in.
THEOREM DeniedSignedOut ==
  Spec /\ []MintsApart /\ []FreshSaves /\ [][RevocationsFollow]_vars
  => []DeniedUserSignedOut
  <1>1. Init => DenyInv
    BY DEF Init, DenyInv, Unrevoked, Unissued, Minting, Idle
  <1>2. ASSUME AccountFacts, AccountFacts', DenyInv, MintsApart', FreshSaves,
               [Next]_vars, [RevocationsFollow]_vars
        PROVE  DenyInv'
    <2>1. CASE UNCHANGED vars
      <3>1. UNCHANGED <<users, tokens, req>>
        BY <2>1 DEF vars
      <3>2. Unrevoked' = Unrevoked /\ \A u : Waits(u)' <=> Waits(u)
        BY <3>1 DEF Unrevoked, Waits
      <3> QED
        BY <1>2, <3>1, <3>2 DEF DenyInv
    <2>2. CASE RevocationsFollow
      BY <1>2, <2>2, DenyRows, DenyMinting DEF DenyInv
    <2> QED
      BY <1>2, <2>1, <2>2
  <1>3. DenyInv => DeniedUserSignedOut
    BY DEF DenyInv, DeniedUserSignedOut, Waits
  <1> QED
    BY <1>1, <1>2, <1>3, AccountFactsHold, PTL DEF Spec
=============================================================================
