------------------------ MODULE MCAccountEditLockout ------------------------
(* TLC instances of AccountEditLockout.                                    *)
EXTENDS AccountEditLockout, TLC

Symmetry == Permutations(Slot)
=============================================================================
