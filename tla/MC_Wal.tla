------------------------------- MODULE MC_Wal -------------------------------
(* Three addresses, so that a write can leave both ends of an earlier one;   *)
(* writers are interchangeable.                                              *)
EXTENDS Wal
Symmetry == Permutations(Writers)
=============================================================================
