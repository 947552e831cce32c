----------------------------- MODULE OneRunner -----------------------------
(***************************************************************************)
(* util/one_runner.go.  OneRunner runs one function f for any number of    *)
(* requests: Go and Run ask for a run, at most one goroutine executes the  *)
(* loop in do(), and requests made while f is running are merged into one  *)
(* more run.  BlockFile uses it to run compactWriter, and waits for it in  *)
(* Close.  A goroutine executing do() is a Thread; a goroutine calling Go, *)
(* Run or Wait is a Caller.                                                *)
(***************************************************************************)
EXTENDS Naturals

CONSTANTS Callers,    \* goroutines that call Go, Run and Wait
          Threads,    \* goroutines available to execute do()
          MaxCalls    \* bound on the number of Go and Run calls

ASSUME MaxCallsAssumption == MaxCalls \in Nat
ASSUME ThreadsAssumption == Threads # {}

VARIABLES running, run,  \* r.running and r.run
          pc,            \* per thread: "none", "loop" (about to lock) or "f"
          caller,        \* per caller: "idle", "run" (inside Run's do()),
                         \* "asleep" (in cond.Wait) or "awake" (woken, about
                         \* to take the lock again)
          runThread,     \* per caller, the thread that executes its Run
          unserved,      \* callers whose last request f has not yet started for
          calls          \* Go and Run calls so far

vars == <<running, run, pc, caller, runThread, unserved, calls>>

Init ==
    /\ running = FALSE
    /\ run = FALSE
    /\ pc = [t \in Threads |-> "none"]
    /\ caller = [c \in Callers |-> "idle"]
    /\ \E t \in Threads : runThread = [c \in Callers |-> t]
    /\ unserved = {}
    /\ calls = 0

InDo(t) == pc[t] # "none"

\* The request, under r.lock: f is wanted, and somebody has to run do().
Request(c) ==
    /\ caller[c] = "idle"
    /\ calls < MaxCalls
    /\ calls' = calls + 1
    /\ run' = TRUE
    /\ unserved' = unserved \cup {c}

\* Mutated form: every Go starts a goroutine.
GoUnguarded(c) ==
    /\ Request(c)
    /\ \E t \in Threads : /\ pc[t] = "none"
                          /\ pc' = [pc EXCEPT ![t] = "loop"]
    /\ running' = TRUE
    /\ UNCHANGED <<caller, runThread>>

\* Go starts a goroutine for do() unless one is running it.
Go(c) ==
    /\ Request(c)
    /\ \/ /\ running
          /\ UNCHANGED <<running, pc>>
       \/ /\ ~running
          /\ running' = TRUE
          /\ \E t \in Threads : /\ pc[t] = "none"
                                /\ pc' = [pc EXCEPT ![t] = "loop"]
    /\ UNCHANGED <<caller, runThread>>

\* Run executes do() itself unless a goroutine is running it; in that case it
\* returns at once, before f has run for it.
Run(c) ==
    /\ Request(c)
    /\ \/ /\ running
          /\ UNCHANGED <<running, pc, caller, runThread>>
       \/ /\ ~running
          /\ running' = TRUE
          /\ caller' = [caller EXCEPT ![c] = "run"]
          /\ \E t \in Threads : /\ pc[t] = "none"
                                /\ pc' = [pc EXCEPT ![t] = "loop"]
                                /\ runThread' = [runThread EXCEPT ![c] = t]

\* The Broadcast of do(), and Run returning when its own do() returns.
Finished(t) ==
    [c \in Callers |-> CASE caller[c] = "asleep" -> "awake"
                         [] caller[c] = "run" /\ runThread[c] = t -> "idle"
                         [] OTHER -> caller[c]]

\* One turn of the loop in do(), under r.lock: a request is taken ...
DoStart(t) ==
    /\ pc[t] = "loop"
    /\ run
    /\ run' = FALSE
    /\ pc' = [pc EXCEPT ![t] = "f"]
    /\ unserved' = {}
    /\ UNCHANGED <<running, caller, runThread, calls>>

\* Mutated form: do() stops without waking the callers of Wait.
DoStopSilently(t) ==
    /\ pc[t] = "loop"
    /\ ~run
    /\ running' = FALSE
    /\ pc' = [pc EXCEPT ![t] = "none"]
    /\ caller' = [c \in Callers |-> IF caller[c] = "run" /\ runThread[c] = t
                                    THEN "idle" ELSE caller[c]]
    /\ UNCHANGED <<run, runThread, unserved, calls>>

\* ... or, without one, the loop ends and wakes everybody waiting for that.
DoStop(t) ==
    /\ pc[t] = "loop"
    /\ ~run
    /\ running' = FALSE
    /\ pc' = [pc EXCEPT ![t] = "none"]
    /\ caller' = Finished(t)
    /\ UNCHANGED <<run, runThread, unserved, calls>>

\* Mutated form: r.run is cleared when f returns, not before it starts.
FReturnClear(t) ==
    /\ pc[t] = "f"
    /\ pc' = [pc EXCEPT ![t] = "loop"]
    /\ run' = FALSE
    /\ UNCHANGED <<running, caller, runThread, unserved, calls>>

\* f returns; the loop goes round.
FReturn(t) ==
    /\ pc[t] = "f"
    /\ pc' = [pc EXCEPT ![t] = "loop"]
    /\ UNCHANGED <<running, run, caller, runThread, unserved, calls>>

\* Wait: sleeps on the condition variable while do() is running.
Wait(c) ==
    /\ caller[c] = "idle"
    /\ running
    /\ caller' = [caller EXCEPT ![c] = "asleep"]
    /\ UNCHANGED <<running, run, pc, runThread, unserved, calls>>

\* A woken waiter takes r.lock again and re-checks r.running: a new Go may
\* have set it in the meantime.
WaitWake(c) ==
    /\ caller[c] = "awake"
    /\ caller' = [caller EXCEPT ![c] = IF running THEN "asleep" ELSE "idle"]
    /\ UNCHANGED <<running, run, pc, runThread, unserved, calls>>

\* Nothing runs: the callers may leave it at that.
Quiescent ==
    /\ ~running
    /\ UNCHANGED vars

Next ==
    \/ \E c \in Callers : Go(c) \/ Run(c) \/ Wait(c) \/ WaitWake(c)
    \/ \E t \in Threads : DoStart(t) \/ DoStop(t) \/ FReturn(t)
    \/ Quiescent

SafeSpec == Init /\ [][Next]_vars

\* Goroutines are scheduled and f (one compaction) returns.
Spec ==
    /\ SafeSpec
    /\ \A t \in Threads : WF_vars(DoStart(t) \/ DoStop(t) \/ FReturn(t))
    /\ \A c \in Callers : WF_vars(WaitWake(c))

-----------------------------------------------------------------------------
\* A caller inside Run is there only as long as its thread is inside do().
TypeOK ==
    /\ running \in BOOLEAN
    /\ run \in BOOLEAN
    /\ pc \in [Threads -> {"none", "loop", "f"}]
    /\ caller \in [Callers -> {"idle", "run", "asleep", "awake"}]
    /\ runThread \in [Callers -> Threads]
    /\ unserved \subseteq Callers
    /\ calls \in 0..MaxCalls
    /\ \A c \in Callers : caller[c] = "run" => InDo(runThread[c])

\* At most one goroutine is ever inside do(), hence inside f: compactWriter
\* never runs concurrently with itself.
OneAtATime == \A t, u \in Threads : InDo(t) /\ InDo(u) => t = u

\* r.running says exactly whether a goroutine is inside do(): Wait, which only
\* looks at r.running, returns only when f is not executing.
RunningExact == running <=> \E t \in Threads : InDo(t)

\* No request is lost: as long as f has not started for a request, r.run is
\* still set and a goroutine is there to see it.
NoLostRequest == unserved # {} => run /\ running

\* Every request is eventually followed by a start of f.
RequestsServed == \A c \in Callers : c \in unserved ~> c \notin unserved

\* Wait returns once the requests stop: no wakeup is lost.
WaitReturns == \A c \in Callers : caller[c] = "asleep" ~> caller[c] = "idle"
=============================================================================
