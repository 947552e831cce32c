---------------------------- MODULE BlockDevice -----------------------------
(***************************************************************************)
(* What a block device promises: a read returns the last write, a process  *)
(* may end at any time and nothing is lost, and after a power failure each *)
(* block has some version between the one the last flush vouched for and   *)
(* the last one written.  Versions of a block are numbered.                *)
(***************************************************************************)
EXTENDS Naturals

CONSTANT Blocks

VARIABLES val,      \* per block, the version a read returns
          stable,   \* per block, the version that cannot be lost
          outages   \* number of power failures

vars == <<val, stable, outages>>

Init ==
    /\ val = [b \in Blocks |-> 0]
    /\ stable = [b \in Blocks |-> 0]
    /\ outages = 0

\* A write: the blocks it covers have newer versions, the others stay as they are.
Write ==
    /\ UNCHANGED <<stable, outages>>
    /\ \A b \in Blocks : val'[b] >= val[b]

\* A flush returns and vouches for some of what has been written.
Flush ==
    /\ stable' # stable
    /\ \A b \in Blocks : stable[b] <= stable'[b] /\ stable'[b] <= val[b]
    /\ UNCHANGED <<val, outages>>

PowerFailure ==
    /\ outages' = outages + 1
    /\ \A b \in Blocks : stable[b] <= val'[b] /\ val'[b] <= val[b]
    /\ UNCHANGED stable

Next == Write \/ Flush \/ PowerFailure

Spec == Init /\ [][Next]_vars
=============================================================================
