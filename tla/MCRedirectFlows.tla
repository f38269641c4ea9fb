--------------------------- MODULE MCRedirectFlows --------------------------
(* TLC instances of RedirectFlows.                                         *)
EXTENDS RedirectFlows, TLC

CONSTANTS h1, h2, ana, bob, i1, i2, i3

\* Ana's GitHub account sees two of the installations, Bob's sees none.
AnaOnly == [u \in User |-> IF u = ana THEN {i1, i2} ELSE {}]

\* One slot starts flows, runs the OAuth callbacks and deletes, the other one
\* renames and selects, and both run the GitHub App callbacks; Bob only
\* presents states.
OneOauth ==
    [h \in Slot |->
       IF h = h1
         THEN {"oauthStart", "appStart", "oauthCallback", "appCallback",
               "delete"} \X {ana}
         ELSE ({"rename"} \X {ana}) \cup
              ({"appCallback", "appSelect"} \X User)]

\* Both slots run the OAuth flows and delete.
TwoOauth == [h \in Slot |-> {"oauthStart", "oauthCallback", "delete"} \X {ana}]

Symmetry == Permutations(Cred) \cup Permutations(Label) \cup Permutations({i1, i2})
=============================================================================
