--------------------------- MODULE MCIntegrations ---------------------------
(* TLC instances of Integrations.                                          *)
EXTENDS Integrations, TLC

CONSTANTS h1, h2

\* One slot replaces and deletes while the other one creates, renames and
\* tests.
Secrets == [h \in Slot |-> (IF h = h1 THEN {"replace", "delete"}
                                      ELSE {"create", "rename", "test"}) \X User]

Symmetry == Permutations(Cred) \cup Permutations(Label)
=============================================================================
