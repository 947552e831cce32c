---------------------------- MODULE WriterLocks ----------------------------
(***************************************************************************)
(* tracker/writer.go with its mutexes.  WriterTracker takes each locked    *)
(* section as one step; here pendingWritersLock is a variable, because     *)
(* Close keeps it while it waits at its first barrier, and Flush joins the *)
(* two barriers in two steps, one under each lock.                         *)
(*                                                                         *)
(* activeWriterLock is always the last lock to be taken, and whoever holds *)
(* it waits for nobody before giving it back: its sections stay one step.  *)
(* A call that is kept waiting for pendingWritersLock has not begun.  No    *)
(* call begins after Close has: main closes the device when the server has *)
(* stopped.                                                                *)
(***************************************************************************)
EXTENDS WriterTracker

CONSTANTS Nobody,     \* the lock is free
          CloseCall   \* the lock is held by Close

ASSUME HoldersAssumption == Nobody # CloseCall /\ Nobody \notin Flushers /\ CloseCall \notin Flushers

VARIABLES
    pendingWritersLock,  \* who holds m.pendingWritersLock between steps
    fcall                \* per flusher, the locks Flush is done with ("none",
                         \* "pending" or "both"), and its copy of pendingWriters

lockvars == <<pendingWritersLock, fcall>>
lvars == <<wvars, lockvars>>

NoCall == [past |-> "none", logs |-> {}]
Free == pendingWritersLock = Nobody

LInit ==
    /\ WInit
    /\ pendingWritersLock = Nobody
    /\ fcall = [f \in Flushers |-> NoCall]

-----------------------------------------------------------------------------
(* Flush *)

\* Mutated form: the active log is taken, and its barrier joined, before
\* pendingWritersLock.
LFlushActiveFirst(f) ==
    \/ /\ cl.pc = "open"
       /\ fcall[f].past = "none"
       /\ activeWriter # NoLog
       /\ fl' = [fl EXCEPT ![f] = [pc |-> "flush", active |-> TRUE, todo |-> {activeWriter}]]
       /\ fcall' = [fcall EXCEPT ![f].past = "pending"]
       /\ UNCHANGED <<activeWriter, pendingWriters, writeCount, logvars, ver, wr, closer,
                      waitvars, pendingWritersLock>>
    \/ /\ fcall[f].past = "pending"
       /\ Free
       /\ fl' = [fl EXCEPT ![f].todo = @ \cup Pending]
       /\ fcall' = [fcall EXCEPT ![f].past = "both"]
       /\ UNCHANGED <<activeWriter, pendingWriters, writeCount, logvars, ver, wr, closer,
                      waitvars, pendingWritersLock>>

\* Under pendingWritersLock the list is copied and pendingWritersWb joined ...
LFlushPending(f) ==
    /\ cl.pc = "open"
    /\ fcall[f].past = "none"
    /\ Free
    /\ pendingWritersLock' = f
    /\ fcall' = [fcall EXCEPT ![f] = [past |-> "pending", logs |-> Pending]]
    /\ UNCHANGED wvars

\* ... and with activeWriterLock too, the active log is added and its barrier
\* joined; then both are released.
LFlushActive(f) ==
    /\ fcall[f].past = "pending"
    /\ fl' = [fl EXCEPT ![f] = [pc |-> "flush",
                                active |-> activeWriter # NoLog,
                                todo |-> fcall[f].logs \cup ({activeWriter} \ {NoLog})]]
    /\ pendingWritersLock' = Nobody
    /\ fcall' = [fcall EXCEPT ![f] = [past |-> "both", logs |-> {}]]
    /\ UNCHANGED <<activeWriter, pendingWriters, writeCount, logvars, ver, wr, closer, waitvars>>

LFlush(f) == LFlushPending(f) \/ LFlushActive(f)

\* The flushing itself needs no lock.
LFlushStep(f) ==
    /\ fcall[f].past = "both"
    /\ \/ (\E l \in Logs : FlushLog(f, l)) /\ UNCHANGED fcall
       \/ FlushReturn(f) /\ fcall' = [fcall EXCEPT ![f] = NoCall]
    /\ UNCHANGED pendingWritersLock

-----------------------------------------------------------------------------
(* The other calls *)

\* PushPending, PushNewLog and RemovePending lock and unlock within one step;
\* a barrier is begun before the unlock and waited for after it.
Section(A) == Free /\ A /\ UNCHANGED lockvars

\* Close keeps pendingWritersLock at its first barrier ...
LCloseStart ==
    /\ Free
    /\ CloseStart
    /\ pendingWritersLock' = CloseCall
    /\ UNCHANGED fcall

\* ... and gives it up with the second one, after which it takes it again.
LCloseBarrier ==
    /\ CloseBarrier
    /\ pendingWritersLock' = Nobody
    /\ UNCHANGED fcall

LCloseStep == LCloseBarrier \/ Section(CloseReturn)

-----------------------------------------------------------------------------
LNext ==
    \/ \E b \in Blocks : (WriteStart(b) \/ WriteStep(b)) /\ UNCHANGED lockvars
    \/ \E f \in Flushers : LFlush(f) \/ LFlushStep(f)
    \/ \E l \in Logs : \/ Section(PushPending(l))
                       \/ Section(PushFirstLog(l))
                       \/ Section(PushSwap(l))
                       \/ (MakeLogWriter(l) \/ CloserStep(l)) /\ UNCHANGED lockvars
    \/ \E n \in 1..Len(pendingWriters) : Section(RemoveStart(n))
    \/ RunnerStep /\ UNCHANGED lockvars
    \/ LCloseStart
    \/ LCloseStep
    \/ Closed /\ UNCHANGED lockvars

LSafeSpec == LInit /\ [][LNext]_lvars

\* No wait can last for ever, locks included: whoever a barrier waits for is
\* under way, waits for nobody, and needs no lock that a waiting call may hold.
\* Close keeps pendingWritersLock, which every Flush needs, while it waits for
\* flushes and writes at its first barrier, and only there; a Flush it waits for
\* must already be past both locks.
NoCircularWait ==
    /\ WaitsForRunning
    /\ \A f \in push.waitF \cup rem.waitF \cup cl.waitF : fcall[f].past = "both"
    /\ pendingWritersLock = CloseCall <=> cl.pc = "wait1"
=============================================================================
