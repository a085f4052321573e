----------------------------- MODULE MCWLFlash ------------------------------
(* WLFlash for TLC: two interchangeable values. *)
EXTENDS WLFlash, TLC

Symmetry == Permutations(Values)
=============================================================================
