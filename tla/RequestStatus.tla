---------------------------- MODULE RequestStatus ---------------------------
(***************************************************************************)
(* What the device-authorization flow promises of each request: the status *)
(* machine open -> approved -> logged, with open -> denied, open ->        *)
(* expired and logged -> denied, and at most one session per request,      *)
(* minted by the poll that turned the request logged.                      *)
(***************************************************************************)
EXTENDS Naturals

CONSTANT Row

VARIABLES
    status,     \* status of each request, "none" before it is created
    minted      \* sessions minted for each request

vars == <<status, minted>>

Edges == {<<"none", "open">>, <<"open", "approved">>, <<"open", "denied">>,
          <<"open", "expired">>, <<"approved", "logged">>,
          <<"logged", "denied">>}

Init ==
    /\ status = [a \in Row |-> "none"]
    /\ minted = [a \in Row |-> 0]

\* One request follows one edge of the machine.
Move(a) ==
    /\ \E e \in Edges : /\ status[a] = e[1]
                        /\ status' = [status EXCEPT ![a] = e[2]]
    /\ UNCHANGED minted

\* The winning poll mints the request's only session.
Mint(a) ==
    /\ status[a] = "logged"
    /\ minted[a] = 0
    /\ minted' = [minted EXCEPT ![a] = 1]
    /\ UNCHANGED status

Next == \E a \in Row : Move(a) \/ Mint(a)

Spec == Init /\ [][Next]_vars
=============================================================================
