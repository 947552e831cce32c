-------------------------- MODULE MC_ReaderTracker --------------------------
(* Logs enough for one to be written, one to be pending or merged and one    *)
(* to be compacted (two of the three where liveness is checked), tables      *)
(* enough for two compactions, and a recovered file in the place of either.  *)
EXTENDS ReaderTracker, TLC
Symmetry == Permutations(Clients) \cup Permutations(Logs) \cup Permutations(Tables)
=============================================================================
