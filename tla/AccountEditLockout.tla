------------------------- MODULE AccountEditLockout -------------------------
(***************************************************************************)
(* One user's cool-off around the edit of their account                    *)
(* (AccountEditAbuseGuardService, used by AccountService.updateAccount):   *)
(* a counter that is read and then written, in a row that the first        *)
(* failure inserts.  What the edit does to the account and its sessions is *)
(* in AuthSessions.  until = 0 stands for locked_until NULL.               *)
(***************************************************************************)
EXTENDS Naturals, FiniteSets

CONSTANTS
    Slot,                   \* requests in flight together
    MaxAttempts, LockTime,
    MaxCount,               \* bound: the highest count that is read
    MaxNow                  \* bound: the last tick of the clock

ASSUME EditAssumption ==
    /\ MaxAttempts \in Nat \ {0} /\ LockTime \in Nat \ {0}
    /\ MaxCount \in Nat /\ MaxNow \in Nat

VARIABLES
    edit,       \* auth_account_edit_lockouts: the user's row
    hs,         \* handlers
    now,
    recorded,   \* history: failures written down since the last reset, up to 2
    cleared     \* history: whether a successful edit has reset the row

vars == <<edit, hs, now, recorded, cleared>>

Lockout == [exists: BOOLEAN, failed: Nat, until: Nat]

PC == {"idle", "verify", "register", "insert", "recover", "apply", "clearFind",
       "clear"}

Handler == [pc: PC, read: Nat]

Idle == [pc |-> "idle", read |-> 0]

\* What each variable may hold.
TypeOK ==
    /\ edit \in Lockout
    /\ hs \in [Slot -> Handler]
    /\ now \in Nat
    /\ recorded \in 0..2
    /\ cleared \in BOOLEAN

At(h, pc) == hs[h].pc = pc

Counted == IF recorded = 2 THEN 2 ELSE recorded + 1

Goto(h, x) == hs' = [hs EXCEPT ![h] = x]

-----------------------------------------------------------------------------

\* assertNotLockedOut lets the request pass.
Edit(h) ==
    /\ At(h, "idle")
    /\ ~(edit.until > now)
    /\ Goto(h, [Idle EXCEPT !.pc = "verify"])
    /\ UNCHANGED <<edit, now, recorded, cleared>>

\* applyGuardedChecks.
EditChecked(h, passes) ==
    /\ At(h, "verify")
    /\ Goto(h, [hs[h] EXCEPT !.pc = IF passes THEN "clearFind" ELSE "register"])
    /\ UNCHANGED <<edit, now, recorded, cleared>>

\* registerFailure's lookup.
RegisterFailure(h) ==
    /\ At(h, "register")
    /\ edit.failed <= MaxCount
    /\ Goto(h, [hs[h] EXCEPT !.pc = IF edit.exists THEN "apply" ELSE "insert",
                             !.read = edit.failed])
    /\ UNCHANGED <<edit, now, recorded, cleared>>

\* computeLockoutState.
AttemptState(n) ==
    [exists |-> TRUE, failed |-> n + 1,
     until |-> IF n + 1 >= MaxAttempts THEN now + LockTime ELSE 0]

\* Mutant: the loser of the insert race is dropped.
InsertLost(h) ==
    /\ At(h, "insert")
    /\ edit' = IF edit.exists THEN edit ELSE AttemptState(0)
    /\ recorded' = Counted
    /\ Goto(h, Idle)
    /\ UNCHANGED <<now, cleared>>

\* insertFirstFailure: the unique index on user_id.
InsertFirstFailure(h) ==
    /\ At(h, "insert")
    /\ IF edit.exists
         THEN /\ Goto(h, [hs[h] EXCEPT !.pc = "recover"])
              /\ UNCHANGED <<edit, recorded>>
         ELSE /\ edit' = AttemptState(0)
              /\ recorded' = Counted
              /\ Goto(h, Idle)
    /\ UNCHANGED <<now, cleared>>

\* recoverFromInsertRace's lookup.
RecoverFromInsertRace(h) ==
    /\ At(h, "recover")
    /\ Goto(h, [hs[h] EXCEPT !.pc = "apply", !.read = edit.failed])
    /\ UNCHANGED <<edit, now, recorded, cleared>>

\* applyFailure: from the count that was read.
ApplyFailure(h) ==
    /\ At(h, "apply")
    /\ edit' = AttemptState(hs[h].read)
    /\ recorded' = Counted
    /\ Goto(h, Idle)
    /\ UNCHANGED <<now, cleared>>

\* reset's lookup.
ResetFind(h) ==
    /\ At(h, "clearFind")
    /\ Goto(h, IF edit.exists THEN [hs[h] EXCEPT !.pc = "clear"] ELSE Idle)
    /\ UNCHANGED <<edit, now, recorded, cleared>>

\* reset's update.
ResetEdit(h) ==
    /\ At(h, "clear")
    /\ edit' = [edit EXCEPT !.failed = 0, !.until = 0]
    /\ recorded' = 0
    /\ cleared' = TRUE
    /\ Goto(h, Idle)
    /\ UNCHANGED <<now>>

\* Time passes.
Tick ==
    /\ now < MaxNow
    /\ now' = now + 1
    /\ UNCHANGED <<edit, hs, recorded, cleared>>

-----------------------------------------------------------------------------

Init ==
    /\ edit = [exists |-> FALSE, failed |-> 0, until |-> 0]
    /\ hs = [h \in Slot |-> Idle]
    /\ now = 0
    /\ recorded = 0 /\ cleared = FALSE

Step(h) ==
    \/ Edit(h)
    \/ \E passes \in BOOLEAN : EditChecked(h, passes)
    \/ RegisterFailure(h) \/ InsertFirstFailure(h) \/ RecoverFromInsertRace(h)
    \/ ApplyFailure(h) \/ ResetFind(h) \/ ResetEdit(h)

Next == (\E h \in Slot : Step(h)) \/ Tick

Spec == Init /\ [][Next]_vars

-----------------------------------------------------------------------------

\* Until a success resets the row, it counts at least two of the failures
\* that were written down, and any single one: two that both try to insert
\* the row are both counted (recoverFromInsertRace).  Later ones can be lost.
FirstFailuresCounted ==
    ~cleared => /\ recorded >= 1 => edit.failed >= 1
                /\ recorded >= 2 => edit.failed >= 2
=============================================================================
