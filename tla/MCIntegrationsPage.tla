------------------------- MODULE MCIntegrationsPage -------------------------
(* TLC instances of IntegrationsPage.                                      *)
EXTENDS IntegrationsPage, TLC

SymmetryPage == Permutations(Row) \cup Permutations(Call)
=============================================================================
