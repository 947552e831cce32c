------------------------- MODULE WaitBarrier_proofs -------------------------
(***************************************************************************)
(* WaitBarrier is correct for any set of callers and any number of wait    *)
(* groups: its type invariant, the order in which barriers return, and the *)
(* safety part of the refinement of BarrierSpec.                           *)
(***************************************************************************)
EXTENDS WaitBarrier, TLAPS

\* The type invariant is inductive on its own.
LEMMA TypeStep == TypeOK /\ [Next]_vars => TypeOK'
<1> SUFFICES ASSUME TypeOK, [Next]_vars PROVE TypeOK'
  OBVIOUS
<1> USE CallersAssumption, MaxGenAssumption DEF TypeOK, Gens
<1>1. ASSUME NEW p \in Ops, Start(p) PROVE TypeOK'
  BY <1>1 DEF Start
<1>2. ASSUME NEW p \in Ops, Done(p) PROVE TypeOK'
  BY <1>2 DEF Done
<1>3. ASSUME NEW q \in Barriers, BarrierNil(q) PROVE TypeOK'
  BY <1>3 DEF BarrierNil
<1>4. ASSUME NEW q \in Barriers, BarrierSwap(q) PROVE TypeOK'
  BY <1>4 DEF BarrierSwap
<1>5. ASSUME NEW q \in Barriers, BarrierReturn(q) PROVE TypeOK'
  BY <1>5 DEF BarrierReturn
<1>6. CASE UNCHANGED vars
  BY <1>6 DEF vars
<1> QED
  BY <1>1, <1>2, <1>3, <1>4, <1>5, <1>6 DEF Next

\* Wait groups, contexts and waiting barriers always refer to wait groups that
\* BarrierWithUnlock or Start has allocated.
THEOREM TypeCorrect == SafeSpec => []TypeOK
<1>1. Init => TypeOK
  BY MaxGenAssumption DEF Init, TypeOK, Gens
<1> QED
  BY <1>1, TypeStep, PTL DEF SafeSpec

\* Chained, at two given wait groups.
LEMMA ChainedAt ==
    ASSUME Chained, NEW g \in Gens, NEW h \in Gens, g <= h, h <= wg, holders[g] # {}
    PROVE  holders[h] # {}
  BY Zenon DEF Chained

\* Barriers return in the order they were called.
LEMMA OrderStep == TypeOK /\ BarriersInOrder /\ [Next]_vars => BarriersInOrder'
<1> SUFFICES ASSUME TypeOK, BarriersInOrder, [Next]_vars PROVE BarriersInOrder'
  OBVIOUS
<1> USE CallersAssumption, MaxGenAssumption DEF TypeOK, Gens
<1>1. ASSUME NEW p \in Ops, Start(p) PROVE BarriersInOrder'
  <2>1. CountersExact'
    BY <1>1 DEF Start, BarriersInOrder, CountersExact
  <2>2. ReplacedIsGuarded'
    BY <1>1 DEF Start, BarriersInOrder, ReplacedIsGuarded
  <2>3. Chained'
    <3> SUFFICES ASSUME NEW g \in Gens, NEW h \in Gens,
                        g <= h, h <= wg', holders'[g] # {}
                 PROVE  holders'[h] # {}
      BY DEF Chained
    <3>1. CASE g = wg'
      <4>1. h = g
        BY <3>1, <1>1 DEF Start
      <4> QED
        BY <4>1
    <3>2. CASE g # wg'
      <4>1. holders[g] # {} /\ h <= wg
        BY <3>2, <1>1 DEF Start
      <4>2. holders[h] # {}
        BY <4>1, ChainedAt DEF BarriersInOrder
      <4> QED
        BY <4>2, <1>1 DEF Start
    <3> QED
      BY <3>1, <3>2
  <2> QED
    BY <2>1, <2>2, <2>3 DEF BarriersInOrder
\* An operation leaves group ctx[p].  If an earlier group is not empty, the
\* group just before ctx[p] is not either, so the barrier that allocated
\* ctx[p] is still waiting and is counted by it.
<1>2. ASSUME NEW p \in Ops, Done(p) PROVE BarriersInOrder'
  <2>1. CountersExact'
    BY <1>2 DEF Done, BarriersInOrder, CountersExact
  <2>2. ReplacedIsGuarded'
    BY <1>2 DEF Done, BarriersInOrder, ReplacedIsGuarded
  <2>3. Chained'
    <3> SUFFICES ASSUME NEW g \in Gens, NEW h \in Gens,
                        g <= h, h <= wg, holders'[g] # {}
                 PROVE  holders'[h] # {}
      BY <1>2 DEF Done, Chained
    <3>1. holders[g] # {}
      BY <1>2 DEF Done
    <3>2. CASE g = h \/ h # ctx[p]
      BY <1>2, <3>1, <3>2 DEF Done, BarriersInOrder, Chained
    <3>3. CASE g < h /\ h = ctx[p]
      <4>1. PICK k \in Gens : k = h - 1 /\ g <= k /\ k < wg /\ k <= wg
        BY <3>3
      <4>2. holders[k] # {}
        BY <3>1, <4>1, ChainedAt DEF BarriersInOrder
      <4>3. PICK q \in Barriers : old[q] = k
        BY <4>1, <4>2 DEF BarriersInOrder, ReplacedIsGuarded
      <4>4. q \in holders[h]
        BY <4>1, <4>3 DEF BarriersInOrder, CountersExact
      <4> QED
        BY <1>2, <4>4 DEF Done
    <3> QED
      BY <3>2, <3>3
  <2> QED
    BY <2>1, <2>2, <2>3 DEF BarriersInOrder
<1>3. ASSUME NEW q \in Barriers, BarrierNil(q) PROVE BarriersInOrder'
  BY <1>3 DEF BarrierNil, BarriersInOrder, CountersExact, ReplacedIsGuarded, Chained
<1>4. ASSUME NEW q \in Barriers, BarrierSwap(q) PROVE BarriersInOrder'
  <2>1. CountersExact'
    BY <1>4 DEF BarrierSwap, BarriersInOrder, CountersExact
  <2>2. ReplacedIsGuarded'
    BY <1>4 DEF BarrierSwap, BarriersInOrder, ReplacedIsGuarded, CountersExact
  <2>3. Chained'
    <3> SUFFICES ASSUME NEW g \in Gens, NEW h \in Gens,
                        g <= h, h <= wg', holders'[g] # {}
                 PROVE  holders'[h] # {}
      BY DEF Chained
    <3>1. CASE h = wg + 1
      BY <3>1, <1>4 DEF BarrierSwap
    <3>2. CASE h # wg + 1
      <4>1. holders[g] # {} /\ h <= wg
        BY <3>2, <1>4 DEF BarrierSwap
      <4>2. holders[h] # {}
        BY <4>1, ChainedAt DEF BarriersInOrder
      <4> QED
        BY <4>2, <1>4 DEF BarrierSwap
    <3> QED
      BY <3>1, <3>2
  <2> QED
    BY <2>1, <2>2, <2>3 DEF BarriersInOrder
\* A barrier returns: its group is empty, hence by Chained all earlier ones
\* are, so that removing it from the next group breaks no chain.
<1>5. ASSUME NEW q \in Barriers, BarrierReturn(q) PROVE BarriersInOrder'
  <2>1. CountersExact'
    BY <1>5 DEF BarrierReturn, BarriersInOrder, CountersExact
  <2>2. ReplacedIsGuarded'
    BY <1>5 DEF BarrierReturn, BarriersInOrder, ReplacedIsGuarded
  <2>3. Chained'
    <3>1. \A g \in Gens : g <= old[q] => holders[g] = {}
      BY <1>5, ChainedAt DEF BarrierReturn, BarriersInOrder
    <3> SUFFICES ASSUME NEW g \in Gens, NEW h \in Gens,
                        g <= h, h <= wg', holders'[g] # {}
                 PROVE  holders'[h] # {}
      BY DEF Chained
    <3>2. holders[g] # {} /\ h <= wg
      BY <1>5 DEF BarrierReturn
    <3>3. g > old[q]
      BY <1>5, <3>1, <3>2 DEF BarrierReturn
    <3>4. holders[h] # {}
      BY <3>2, ChainedAt DEF BarriersInOrder
    <3>5. CASE h = g
      BY <3>5
    <3>6. CASE h # g
      BY <1>5, <3>3, <3>4, <3>6 DEF BarrierReturn
    <3> QED
      BY <3>5, <3>6
  <2> QED
    BY <2>1, <2>2, <2>3 DEF BarriersInOrder
<1>6. CASE UNCHANGED vars
  BY <1>6 DEF vars, BarriersInOrder, CountersExact, ReplacedIsGuarded, Chained
<1> QED
  BY <1>1, <1>2, <1>3, <1>4, <1>5, <1>6 DEF Next

\* In every reachable state the counters are exact and a wait group that still
\* counts someone keeps every later one from emptying, for any number of
\* callers and barriers.
THEOREM OrderCorrect == SafeSpec => []BarriersInOrder
<1>1. Init => TypeOK /\ BarriersInOrder
  BY CallersAssumption, MaxGenAssumption
  DEF Init, TypeOK, Gens, BarriersInOrder, CountersExact, ReplacedIsGuarded, Chained
<1> QED
  BY <1>1, TypeStep, OrderStep, PTL DEF SafeSpec

\* A barrier whose wait group has emptied has no earlier operation left.
LEMMA EmptyMeansNoEarlier ==
    ASSUME TypeOK, BarriersInOrder, NEW q \in Barriers,
           phase[q] = "waiting", holders[old[q]] = {}
    PROVE  WaitFor[q] = {}
<1> USE CallersAssumption, MaxGenAssumption DEF TypeOK, Gens
<1>1. SUFFICES ASSUME NEW p \in Ops, ctx[p] # 0, ctx[p] <= old[q] PROVE FALSE
  BY DEF WaitFor
<1>2. p \in holders[ctx[p]]
  BY <1>1 DEF BarriersInOrder, CountersExact
<1> QED
  BY <1>1, <1>2, ChainedAt DEF BarriersInOrder

\* Every step of the wait groups is a step of BarrierSpec or leaves its state
\* alone.
LEMMA PromiseStep ==
    TypeOK /\ BarriersInOrder /\ [Next]_vars => [Promise!Next]_(Promise!avars)
<1> SUFFICES ASSUME TypeOK, BarriersInOrder, [Next]_vars
             PROVE  [Promise!Next]_(Promise!avars)
  OBVIOUS
<1> USE CallersAssumption, MaxGenAssumption DEF TypeOK, Gens, Inflight, WaitFor
<1>1. ASSUME NEW p \in Ops, Start(p) PROVE Promise!Start(p)
  BY <1>1 DEF Start, Promise!Start
<1>2. ASSUME NEW p \in Ops, Done(p) PROVE Promise!Done(p)
  BY <1>2 DEF Done, Promise!Done
<1>3. ASSUME NEW q \in Barriers, BarrierNil(q) PROVE Promise!CallEmpty(q)
  BY <1>3 DEF BarrierNil, Promise!CallEmpty
<1>4. ASSUME NEW q \in Barriers, BarrierSwap(q) PROVE Promise!Call(q)
  <2>1. Inflight' = Inflight
    BY <1>4 DEF BarrierSwap
  <2>2. WaitFor'[q] = Inflight
    BY <1>4 DEF BarrierSwap
  <2>3. \A r \in Barriers \ {q} : WaitFor'[r] = WaitFor[r]
    BY <1>4 DEF BarrierSwap
  <2>4. WaitFor' = [WaitFor EXCEPT ![q] = Inflight]
    <3>1. /\ WaitFor' = [r \in Barriers |-> WaitFor'[r]]
          /\ WaitFor = [r \in Barriers |-> WaitFor[r]]
      BY Zenon DEF WaitFor
    <3> HIDE DEF WaitFor, Inflight
    <3> QED
      BY <2>2, <2>3, <3>1
  <2> QED
    BY <1>4, <2>1, <2>4 DEF BarrierSwap, Promise!Call
<1>5. ASSUME NEW q \in Barriers, BarrierReturn(q) PROVE Promise!Return(q)
  <2>1. WaitFor[q] = {}
    BY <1>5, EmptyMeansNoEarlier DEF BarrierReturn
  <2> QED
    BY <1>5, <2>1 DEF BarrierReturn, Promise!Return
<1>6. CASE UNCHANGED vars
  BY <1>6 DEF vars, Promise!avars
<1> QED
  BY <1>1, <1>2, <1>3, <1>4, <1>5, <1>6 DEF Next, Promise!Next

\* WaitBarrier keeps the safety part of its promise: a barrier never returns
\* before every operation that was in flight at its call has called Done.
THEOREM KeepsPromise == SafeSpec => Promise!SafeSpec
<1>1. Init => Promise!Init
  BY DEF Init, Promise!Init, Inflight, WaitFor
<1>2. Init => TypeOK /\ BarriersInOrder
  BY CallersAssumption, MaxGenAssumption
  DEF Init, TypeOK, Gens, BarriersInOrder, CountersExact, ReplacedIsGuarded, Chained
<1> QED
  BY <1>1, <1>2, TypeStep, OrderStep, PromiseStep, PTL DEF SafeSpec, Promise!SafeSpec

\* No wait group is ever added to once a barrier has replaced it, so that
\* Add never races with Wait.
THEOREM NoRace == SafeSpec => NoAddAfterWait
<1>1. TypeOK /\ [Next]_vars
      => [\A g \in Gens : g < wg => holders'[g] \subseteq holders[g]]_vars
  <2> SUFFICES ASSUME TypeOK, Next, NEW g \in Gens, g < wg
               PROVE  holders'[g] \subseteq holders[g]
    OBVIOUS
  <2> USE MaxGenAssumption DEF TypeOK, Gens
  <2>1. ASSUME NEW p \in Ops, Start(p) PROVE holders'[g] \subseteq holders[g]
    BY <2>1 DEF Start
  <2>2. ASSUME NEW p \in Ops, Done(p) PROVE holders'[g] \subseteq holders[g]
    BY <2>2 DEF Done
  <2>3. ASSUME NEW q \in Barriers, BarrierNil(q) \/ BarrierSwap(q) \/ BarrierReturn(q)
        PROVE  holders'[g] \subseteq holders[g]
    BY <2>3 DEF BarrierNil, BarrierSwap, BarrierReturn
  <2> QED
    BY <2>1, <2>2, <2>3 DEF Next
<1> QED
  BY <1>1, TypeCorrect, PTL DEF SafeSpec, NoAddAfterWait
=============================================================================
