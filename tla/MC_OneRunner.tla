---------------------------- MODULE MC_OneRunner ----------------------------
(* Three callers, two threads and four requests: requests arrive while f    *)
(* runs, while do() is about to stop and after it has stopped, with one or  *)
(* two callers in Wait.                                                     *)
EXTENDS OneRunner
=============================================================================
