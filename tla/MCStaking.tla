----------------------------- MODULE MCStaking -----------------------------
(* Two accounts of interchangeable names.                                  *)
EXTENDS Staking, TLC
Symmetry == Permutations(User)
=============================================================================
