---------------------------- MODULE MC_BlockFile ----------------------------
(* A table is built from each log of two or more writes; a log name comes    *)
(* back after the log is deleted.                                            *)
EXTENDS BlockFile, TLC
Symmetry == Permutations(Blocks) \cup Permutations(Flushers)
=============================================================================
