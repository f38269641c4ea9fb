----------------------------- MODULE MCCoolOffs -----------------------------
(* TLC instances of CoolOffs.                                              *)
EXTENDS CoolOffs, TLC

CONSTANTS h1, h2

\* One slot runs every GitHub flow, the other one pastes tokens.
Mixed == [h \in Slot |-> IF h = h1 THEN Ops ELSE {"pat"}]

\* Pasted tokens only.
Pasted == [h \in Slot |-> {"pat"}]

Symmetry == Permutations(Installation)
=============================================================================
