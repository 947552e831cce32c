-------------------------- MODULE MC_WriterTracker --------------------------
(* Three writers, a flusher and three logs: a log can be swapped, closed    *)
(* and dropped while writes and a flush that captured it, and ones that     *)
(* captured its successor, are in flight.                                   *)
EXTENDS WriterLocks, TLC
Symmetry == Permutations(Blocks) \cup Permutations(Flushers) \cup Permutations(Logs)
=============================================================================
