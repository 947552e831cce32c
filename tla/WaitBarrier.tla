---------------------------- MODULE WaitBarrier ----------------------------
(***************************************************************************)
(* util/wait_barrier.go.  A WaitBarrier holds one current sync.WaitGroup.  *)
(* Start adds the caller to it; a barrier replaces it by a fresh one, adds *)
(* ITSELF to the fresh one, and waits for the old one.  The wait groups    *)
(* ever allocated are numbered 1, 2, ... in the order of allocation.       *)
(***************************************************************************)
EXTENDS Naturals

CONSTANTS Ops,       \* callers of Start / Done
          Barriers,  \* callers of BarrierWithUnlock
          MaxGen     \* bound on the wait groups allocated

ASSUME CallersAssumption == Ops \cap Barriers = {}
ASSUME MaxGenAssumption == MaxGen \in Nat \ {0}

VARIABLES wg,        \* number of b.wg, 0 for nil
          holders,   \* per wait group, who has called Add(1) and not yet Done:
                     \* the counter of the WaitGroup is the size of this set
          ctx,       \* per operation, the wait group of its context, 0 if none
          old,       \* per barrier, the wait group it waits for, 0 if none;
                     \* its barrierWg is the next one, old + 1
          phase      \* per barrier, "idle", "waiting" or "returned"

vars == <<wg, holders, ctx, old, phase>>

Gens == 1..MaxGen

Init ==
    /\ wg = 0
    /\ holders = [g \in Gens |-> {}]
    /\ ctx = [p \in Ops |-> 0]
    /\ old = [q \in Barriers |-> 0]
    /\ phase = [q \in Barriers |-> "idle"]

\* Mutated form: b.wg is read before b.lock is taken, so a barrier may have
\* replaced it by the time the caller joins it.
StartStale(p) ==
    /\ ctx[p] = 0
    /\ wg' = IF wg = 0 THEN 1 ELSE wg
    /\ \E g \in Gens \cap {1, wg - 1, wg} :
          /\ holders' = [holders EXCEPT ![g] = @ \cup {p}]
          /\ ctx' = [ctx EXCEPT ![p] = g]
    /\ UNCHANGED <<old, phase>>

\* Start allocates the first wait group lazily and joins the current one.
Start(p) ==
    /\ ctx[p] = 0
    /\ LET g == IF wg = 0 THEN 1 ELSE wg
       IN  /\ wg' = g
           /\ holders' = [holders EXCEPT ![g] = @ \cup {p}]
           /\ ctx' = [ctx EXCEPT ![p] = g]
    /\ UNCHANGED <<old, phase>>

\* WaitBarrierContext.Done: the operation leaves the wait group it joined,
\* which need not be the current one any more.
Done(p) ==
    /\ ctx[p] # 0
    /\ holders' = [holders EXCEPT ![ctx[p]] = @ \ {p}]
    /\ ctx' = [ctx EXCEPT ![p] = 0]
    /\ UNCHANGED <<wg, old, phase>>

\* BarrierWithUnlock before any Start: nothing to wait for, returns at once.
BarrierNil(q) ==
    /\ phase[q] # "waiting"
    /\ wg = 0
    /\ phase' = [phase EXCEPT ![q] = "returned"]
    /\ UNCHANGED <<wg, holders, ctx, old>>

\* Mutated form: wg is read after it was replaced.
BarrierSwapReadLate(q) ==
    /\ phase[q] # "waiting"
    /\ wg # 0
    /\ wg < MaxGen
    /\ wg' = wg + 1
    /\ old' = [old EXCEPT ![q] = wg + 1]
    /\ holders' = [holders EXCEPT ![wg + 1] = @ \cup {q}]
    /\ phase' = [phase EXCEPT ![q] = "waiting"]
    /\ UNCHANGED ctx

\* Mutated form: no barrierWg.Add(1), so barriers do not wait for each other.
BarrierSwapNoAdd(q) ==
    /\ phase[q] # "waiting"
    /\ wg # 0
    /\ wg < MaxGen
    /\ wg' = wg + 1
    /\ old' = [old EXCEPT ![q] = wg]
    /\ phase' = [phase EXCEPT ![q] = "waiting"]
    /\ UNCHANGED <<holders, ctx>>

\* BarrierWithUnlock up to wg.Wait(): under b.lock (and the caller's lock u)
\* the wait group is replaced and the barrier joins the fresh one.
BarrierSwap(q) ==
    /\ phase[q] # "waiting"
    /\ wg # 0
    /\ wg < MaxGen
    /\ wg' = wg + 1
    /\ old' = [old EXCEPT ![q] = wg]
    /\ holders' = [holders EXCEPT ![wg + 1] = @ \cup {q}]
    /\ phase' = [phase EXCEPT ![q] = "waiting"]
    /\ UNCHANGED ctx

\* wg.Wait() returns once the counter is zero; barrierWg.Done() follows.
BarrierReturn(q) ==
    /\ phase[q] = "waiting"
    /\ holders[old[q]] = {}
    /\ holders' = [holders EXCEPT ![old[q] + 1] = @ \ {q}]
    /\ old' = [old EXCEPT ![q] = 0]
    /\ phase' = [phase EXCEPT ![q] = "returned"]
    /\ UNCHANGED <<wg, ctx>>

Next ==
    \/ \E p \in Ops : Start(p) \/ Done(p)
    \/ \E q \in Barriers : BarrierNil(q) \/ BarrierSwap(q) \/ BarrierReturn(q)

SafeSpec == Init /\ [][Next]_vars

\* A goroutine blocked in wg.Wait() is woken when the counter is zero.  Done
\* gets no fairness: the callers of Start may be arbitrarily slow.
Spec == SafeSpec /\ \A q \in Barriers : WF_vars(BarrierReturn(q))

-----------------------------------------------------------------------------
\* Contexts and waiting barriers only refer to allocated wait groups, and a
\* waiting barrier waits for one that has been replaced.
TypeOK ==
    /\ wg \in 0..MaxGen
    /\ holders \in [Gens -> SUBSET (Ops \cup Barriers)]
    /\ ctx \in [Ops -> 0..wg]
    /\ old \in [Barriers -> 0..MaxGen]
    /\ phase \in [Barriers -> {"idle", "waiting", "returned"}]
    /\ \A q \in Barriers : phase[q] = "waiting" => old[q] \in 1..(wg - 1)
    /\ \A q \in Barriers : phase[q] # "waiting" => old[q] = 0

\* The operations in flight, and those a waiting barrier was called after.
Inflight == {p \in Ops : ctx[p] # 0}
WaitFor == [q \in Barriers |-> {p \in Ops : ctx[p] # 0 /\ ctx[p] <= old[q]}]

\* The counters are exact: a wait group counts the operations whose context
\* points at it and the barrier that allocated it, so no Done can drive a
\* counter below zero (a panic in sync.WaitGroup).
CountersExact ==
    \A g \in Gens :
        holders[g] = {p \in Ops : ctx[p] = g}
                     \cup {q \in Barriers : old[q] # 0 /\ old[q] + 1 = g}

\* The heart of the design: while a replaced wait group still counts someone,
\* the barrier that replaced it is still waiting on it ...
ReplacedIsGuarded ==
    \A g \in Gens : (g < wg /\ holders[g] # {}) => \E q \in Barriers : old[q] = g

\* ... and so every later wait group counts someone too: a barrier cannot
\* return before the barriers, and the operations, that came before it.
Chained ==
    \A g, h \in Gens : (g <= h /\ h <= wg /\ holders[g] # {}) => holders[h] # {}

\* Barriers return in the order they were called: the three facts above, from
\* which it follows that a barrier whose wait group has emptied has no earlier
\* operation left.
BarriersInOrder == CountersExact /\ ReplacedIsGuarded /\ Chained

\* No Add after Wait: a wait group that has been replaced, and may already be
\* waited for, never gains a member (sync.WaitGroup forbids that race).
NoAddAfterWait ==
    [][\A g \in Gens : g < wg => holders'[g] \subseteq holders[g]]_vars

\* The promise: replacing wait groups implements waiting for exactly the
\* operations in flight at the call, liveness included.
Promise == INSTANCE BarrierSpec WITH inflight <- Inflight, waitFor <- WaitFor
ImplementsBarrier == Promise!Spec
=============================================================================
