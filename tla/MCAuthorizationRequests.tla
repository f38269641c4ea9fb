----------------------- MODULE MCAuthorizationRequests ----------------------
(* TLC instances of AuthorizationRequests.                                 *)
EXTENDS AuthorizationRequests, TLC

CONSTANTS h1, h2, h3

\* One device creates, authorizes and denies, one call after the other, while
\* the other slots poll for the approval; any statement may fail.  A poll that
\* expires an open row comes between two calls of the device.
PollersApart ==
    [h \in Slot |-> IF h = h1 THEN {"create", "authorize", "deny",
                                   "pollExpired", "abort"}
                              ELSE {"poll", "abort"}]

SymmetryRows == Permutations(Row)
=============================================================================
