--------------------------- MODULE MC_WaitBarrier ---------------------------
(* Three operations, three barriers and up to five wait groups: a barrier   *)
(* can be called while two earlier ones are waiting.                        *)
EXTENDS WaitBarrier
=============================================================================
