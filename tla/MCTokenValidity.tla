-------------------------- MODULE MCTokenValidity --------------------------
(* Overlapping checks of one contract, for TLC. *)
EXTENDS TokenValidity, TLC

CONSTANTS c1, c2

CheckSymmetry == Permutations({c1, c2})
=============================================================================
