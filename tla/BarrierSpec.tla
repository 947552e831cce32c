---------------------------- MODULE BarrierSpec ----------------------------
(***************************************************************************)
(* What util.WaitBarrier promises, without wait groups: a barrier waits    *)
(* for exactly the operations that were in flight when it was called.      *)
(* Operations started later never delay it, and it never returns before an *)
(* earlier one has called Done.  tracker.Writer and tracker.Reader are     *)
(* modelled on top of this promise; WaitBarrier is shown to implement it.  *)
(***************************************************************************)
CONSTANTS Ops,       \* callers of Start / Done
          Barriers   \* callers of Barrier / BarrierWithUnlock

VARIABLES inflight,  \* operations between Start and Done
          waitFor,   \* per barrier, the operations it still has to wait for
          phase      \* per barrier, "idle", "waiting" or "returned"

avars == <<inflight, waitFor, phase>>

Init ==
    /\ inflight = {}
    /\ waitFor = [q \in Barriers |-> {}]
    /\ phase = [q \in Barriers |-> "idle"]

Start(p) ==
    /\ p \notin inflight
    /\ inflight' = inflight \cup {p}
    /\ UNCHANGED <<waitFor, phase>>

Done(p) ==
    /\ p \in inflight
    /\ inflight' = inflight \ {p}
    /\ waitFor' = [q \in Barriers |-> waitFor[q] \ {p}]
    /\ UNCHANGED phase

\* The call: everything in flight now is what it waits for.
Call(q) ==
    /\ phase[q] # "waiting"
    /\ waitFor' = [waitFor EXCEPT ![q] = inflight]
    /\ phase' = [phase EXCEPT ![q] = "waiting"]
    /\ UNCHANGED inflight

\* A call that finds nothing in flight may return at once.
CallEmpty(q) ==
    /\ phase[q] # "waiting"
    /\ inflight = {}
    /\ phase' = [phase EXCEPT ![q] = "returned"]
    /\ UNCHANGED <<inflight, waitFor>>

Return(q) ==
    /\ phase[q] = "waiting"
    /\ waitFor[q] = {}
    /\ phase' = [phase EXCEPT ![q] = "returned"]
    /\ UNCHANGED <<inflight, waitFor>>

Next ==
    \/ \E p \in Ops : Start(p) \/ Done(p)
    \/ \E q \in Barriers : Call(q) \/ CallEmpty(q) \/ Return(q)

SafeSpec == Init /\ [][Next]_avars

\* A barrier with nothing left to wait for returns, whatever operations
\* that started after it do.
Spec == SafeSpec /\ \A q \in Barriers : WF_avars(Return(q))
=============================================================================
