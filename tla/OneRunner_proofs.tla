-------------------------- MODULE OneRunner_proofs --------------------------
(***************************************************************************)
(* OneRunner for any number of callers, threads and requests: f never runs *)
(* concurrently with itself, r.running is exact, and no request is lost.   *)
(***************************************************************************)
EXTENDS OneRunner, TLAPS

\* The inductive invariant is the conjunction of the checked ones; NoLostRequest
\* needs RunningExact (a request that sets r.run also finds or sets r.running)
\* and a set r.run must imply r.running at the moment do() stops.
IInv ==
    /\ TypeOK
    /\ OneAtATime
    /\ RunningExact
    /\ NoLostRequest

LEMMA InitIInv == Init => IInv
<1> SUFFICES ASSUME Init PROVE IInv
  OBVIOUS
<1>2. TypeOK
  <2>1. running \in BOOLEAN /\ run \in BOOLEAN
    BY Zenon DEF Init
  <2>2. /\ pc \in [Threads -> {"none", "loop", "f"}]
        /\ caller \in [Callers -> {"idle", "run", "asleep", "awake"}]
        /\ runThread \in [Callers -> Threads]
        /\ unserved \subseteq Callers
        /\ calls \in 0..MaxCalls
        /\ \A c \in Callers : caller[c] # "run"
    BY MaxCallsAssumption DEF Init
  <2> QED
    BY <2>1, <2>2, Zenon DEF TypeOK
<1>3. OneAtATime /\ NoLostRequest
  BY DEF Init, OneAtATime, NoLostRequest, InDo
<1>4. RunningExact
  BY Zenon DEF Init, RunningExact, InDo
<1> QED
  BY <1>2, <1>3, <1>4 DEF IInv

\* One step of each kind preserves each part of the invariant.
LEMMA StepIInv == IInv /\ [Next]_vars => IInv'
<1> SUFFICES ASSUME IInv, [Next]_vars PROVE IInv'
  OBVIOUS
<1> USE MaxCallsAssumption
    DEF IInv, TypeOK, OneAtATime, RunningExact, NoLostRequest, InDo
<1>1. ASSUME NEW c \in Callers, Go(c) PROVE IInv'
  <2>1. CASE running
    BY <1>1, <2>1 DEF Go, Request
  <2>2. CASE ~running
    <3>1. PICK t \in Threads : pc' = [pc EXCEPT ![t] = "loop"]
      BY <1>1, <2>2 DEF Go
    <3>2. \A u \in Threads : pc[u] = "none"
      BY <2>2
    <3>3. TypeOK'
      <4>1. running' \in BOOLEAN /\ run' \in BOOLEAN
        BY <1>1, <2>2, Zenon DEF Go, Request
      <4>2. /\ pc' \in [Threads -> {"none", "loop", "f"}]
            /\ caller' \in [Callers -> {"idle", "run", "asleep", "awake"}]
            /\ runThread' \in [Callers -> Threads]
            /\ unserved' \subseteq Callers
            /\ calls' \in 0..MaxCalls
            /\ \A d \in Callers : caller'[d] = "run" => InDo(runThread[d])'
        BY <1>1, <2>2, <3>1, <3>2 DEF Go, Request
      <4> QED
        BY <4>1, <4>2, Zenon
    <3>4. OneAtATime' /\ NoLostRequest'
      BY <1>1, <2>2, <3>1, <3>2 DEF Go, Request
    <3>5. RunningExact'
      <4>1. pc'[t] = "loop"
        BY <3>1
      <4> QED
        BY <1>1, <2>2, <4>1, Zenon DEF Go
    <3> HIDE DEF TypeOK, OneAtATime, RunningExact, NoLostRequest
    <3> QED
      BY <3>3, <3>4, <3>5
  <2> QED
    BY <2>1, <2>2
<1>2. ASSUME NEW c \in Callers, Run(c) PROVE IInv'
  <2>1. CASE running
    BY <1>2, <2>1 DEF Run, Request
  <2>2. CASE ~running
    <3>1. PICK t \in Threads : /\ pc' = [pc EXCEPT ![t] = "loop"]
                               /\ runThread' = [runThread EXCEPT ![c] = t]
      BY <1>2, <2>2 DEF Run
    <3>2. /\ \A u \in Threads : pc[u] = "none"
          /\ \A d \in Callers : caller[d] # "run"
      BY <2>2
    <3>3. TypeOK'
      <4>1. running' \in BOOLEAN /\ run' \in BOOLEAN
        BY <1>2, <2>2, Zenon DEF Run, Request
      <4>2. /\ pc' \in [Threads -> {"none", "loop", "f"}]
            /\ caller' \in [Callers -> {"idle", "run", "asleep", "awake"}]
            /\ runThread' \in [Callers -> Threads]
            /\ unserved' \subseteq Callers
            /\ calls' \in 0..MaxCalls
            /\ \A d \in Callers : caller'[d] = "run" => InDo(runThread[d])'
        BY <1>2, <2>2, <3>1, <3>2 DEF Run, Request
      <4> QED
        BY <4>1, <4>2, Zenon
    <3>4. OneAtATime' /\ NoLostRequest'
      BY <1>2, <2>2, <3>1, <3>2 DEF Run, Request
    <3>5. RunningExact'
      <4>1. pc'[t] = "loop"
        BY <3>1
      <4> QED
        BY <1>2, <2>2, <4>1, Zenon DEF Run
    <3> HIDE DEF TypeOK, OneAtATime, RunningExact, NoLostRequest
    <3> QED
      BY <3>3, <3>4, <3>5
  <2> QED
    BY <2>1, <2>2
<1>3. ASSUME NEW c \in Callers, Wait(c) PROVE IInv'
  BY <1>3 DEF Wait
<1>4. ASSUME NEW c \in Callers, WaitWake(c) PROVE IInv'
  BY <1>4 DEF WaitWake
<1>5. ASSUME NEW t \in Threads, DoStart(t) PROVE IInv'
  BY <1>5 DEF DoStart
<1>6. ASSUME NEW t \in Threads, DoStop(t) PROVE IInv'
  BY <1>6 DEF DoStop, Finished
<1>7. ASSUME NEW t \in Threads, FReturn(t) PROVE IInv'
  BY <1>7 DEF FReturn
<1>8. CASE UNCHANGED vars
  BY <1>8 DEF vars
<1> QED
  BY <1>1, <1>2, <1>3, <1>4, <1>5, <1>6, <1>7, <1>8 DEF Next, Quiescent

\* f (compactWriter) never runs concurrently with itself, r.running is exact,
\* and a request made while f runs is never lost.
THEOREM RunnerCorrect ==
    SafeSpec => [](OneAtATime /\ RunningExact /\ NoLostRequest)
<1>1. Init => IInv
  BY InitIInv
<1>2. IInv => OneAtATime /\ RunningExact /\ NoLostRequest
  BY DEF IInv
<1> QED
  BY <1>1, <1>2, StepIInv, PTL DEF SafeSpec

\* In particular f is never run by two threads at once, whoever calls Go and
\* Run: two compactions never work on the same logs.
THEOREM RunnerExclusive == SafeSpec => []OneAtATime
  BY RunnerCorrect, PTL
=============================================================================
