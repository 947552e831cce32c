--------------------------- MODULE WriterTracker ---------------------------
(***************************************************************************)
(* tracker/writer.go with the block/write_log.go logs it drives.  Client   *)
(* writes and flushes run concurrently with the compaction goroutine, which *)
(* swaps the active log (PushNewLog) and drops compacted ones              *)
(* (RemovePending), and with the goroutine PushNewLog starts to close each *)
(* swapped log.  The two WaitBarriers are used through their promise       *)
(* (BarrierSpec): a barrier is the set of operations it still waits for.   *)
(* A client writes one block at a time and has one write in flight per     *)
(* block, so the block identifies the write.                               *)
(***************************************************************************)
EXTENDS Naturals, Sequences, FiniteSets

CONSTANTS Logs,        \* write logs
          NoLog,       \* nil
          Blocks,      \* blocks, and the writer of each
          Flushers,    \* callers of Flush
          MaxVersion   \* bound on the writes of one block

ASSUME NoLogAssumption == NoLog \notin Logs
ASSUME MaxVersionAssumption == MaxVersion \in Nat

VARIABLES
    activeWriter,    \* m.activeWriter
    pendingWriters,  \* m.pendingWriters, oldest first
    writeCount,      \* m.writeCount, in blocks
    entries,         \* per log, the <<block, version>> records in its file
    synced,          \* per log, how many of them have been fsynced
    wstate,          \* per log: "none", "created" (not pushed yet), "open" (for
                     \* writing), "frozen" (CloseWriter done), "reader"
                     \* (recovered from an earlier session) or "closed"
    ver,             \* per block, the last version written
    wr,              \* per block, its WriteBlocks call
    fl,              \* per flusher, its Flush call
    closer,          \* per log, the goroutine started by PushNewLog: "none",
                     \* "held" (its barrier context exists, it does not run
                     \* yet), "start" or "sync"
    push,            \* the PushNewLog call in progress
    rem,             \* the RemovePending call in progress, and what its caller
                     \* is about to close
    cl               \* the Close call

wvars == <<activeWriter, pendingWriters, writeCount, entries, synced, wstate,
           ver, wr, fl, closer, push, rem, cl>>
logvars == <<entries, synced, wstate>>
callvars == <<wr, fl, closer>>
waitvars == <<push, rem, cl>>

Pending == {pendingWriters[i] : i \in DOMAIN pendingWriters}

\* The members of the two barriers: activeWriterWb counts writes until they
\* have been counted and the flushes that found an active log; pendingWritersWb
\* counts every flush and the closers of swapped logs.
ActiveWrites == {b \in Blocks : wr[b].pc \in {"write", "count"}}
ActiveFlushes == {f \in Flushers : fl[f].pc = "flush" /\ fl[f].active}
Flushes == {f \in Flushers : fl[f].pc = "flush"}
Closers == {l \in Logs : closer[l] # "none"}

IdleWrite == [pc |-> "idle", log |-> NoLog]
IdleFlush == [pc |-> "idle", active |-> FALSE, todo |-> {}]
IdlePush == [pc |-> "idle", old |-> NoLog, waitW |-> {}, waitF |-> {}]
IdleRem == [pc |-> "idle", logs |-> {}, waitF |-> {}, waitC |-> {}]
IdleClose == [pc |-> "open", waitW |-> {}, waitF |-> {}, waitC |-> {}]

\* The operation has called Done on its barrier contexts: nobody waits for it
\* any longer.
WriteLeaves(b) ==
    /\ push' = [push EXCEPT !.waitW = @ \ {b}]
    /\ cl' = [cl EXCEPT !.waitW = @ \ {b}]
    /\ UNCHANGED rem
FlushLeaves(f) ==
    /\ push' = [push EXCEPT !.waitF = @ \ {f}]
    /\ rem' = [rem EXCEPT !.waitF = @ \ {f}]
    /\ cl' = [cl EXCEPT !.waitF = @ \ {f}]
CloserLeaves(l) ==
    /\ rem' = [rem EXCEPT !.waitC = @ \ {l}]
    /\ cl' = [cl EXCEPT !.waitC = @ \ {l}]
    /\ UNCHANGED push

WInit ==
    /\ activeWriter = NoLog
    /\ pendingWriters = <<>>
    /\ writeCount = 0
    /\ entries = [l \in Logs |-> <<>>]
    /\ synced = [l \in Logs |-> 0]
    /\ wstate = [l \in Logs |-> "none"]
    /\ ver = [b \in Blocks |-> 0]
    /\ wr = [b \in Blocks |-> IdleWrite]
    /\ fl = [f \in Flushers |-> IdleFlush]
    /\ closer = [l \in Logs |-> "none"]
    /\ push = IdlePush
    /\ rem = IdleRem
    /\ cl = IdleClose

-----------------------------------------------------------------------------
(* WriteBlocks *)

\* The active log is captured and the barrier joined under activeWriterLock.
WriteStart(b) ==
    /\ cl.pc = "open"
    /\ wr[b].pc = "idle"
    /\ ver[b] < MaxVersion
    /\ wr' = [wr EXCEPT ![b] = [pc |-> "write", log |-> activeWriter]]
    /\ UNCHANGED <<activeWriter, pendingWriters, writeCount, logvars, ver, fl, closer,
                   waitvars>>

\* writer.WriteBlocks: the record is appended to the log file and its index.
WriteAppend(b) ==
    LET l == wr[b].log IN
    /\ wr[b].pc = "write"
    /\ l # NoLog
    /\ wstate[l] = "open"
    /\ ver' = [ver EXCEPT ![b] = @ + 1]
    /\ entries' = [entries EXCEPT ![l] = Append(@, <<b, ver[b] + 1>>)]
    /\ wr' = [wr EXCEPT ![b].pc = "count"]
    /\ UNCHANGED <<activeWriter, pendingWriters, writeCount, synced, wstate, fl, closer,
                   waitvars>>

\* No active log (ErrNoWriter), or the log has been closed for writing
\* (ErrWriterClosed): nothing is written or counted.
WriteRefused(b) ==
    LET l == wr[b].log IN
    /\ wr[b].pc = "write"
    /\ l # NoLog => wstate[l] # "open"
    /\ wr' = [wr EXCEPT ![b] = [pc |-> "check", log |-> NoLog]]
    /\ WriteLeaves(b)
    /\ UNCHANGED <<activeWriter, pendingWriters, writeCount, logvars, ver, fl, closer>>

\* The write is counted and leaves the barrier.
WriteCount(b) ==
    /\ wr[b].pc = "count"
    /\ wr' = [wr EXCEPT ![b] = [pc |-> "check", log |-> NoLog]]
    /\ writeCount' = writeCount + 1
    /\ WriteLeaves(b)
    /\ UNCHANGED <<activeWriter, pendingWriters, logvars, ver, fl, closer>>

\* Back in BlockFile.WriteBlocks, which looks at LogWritten and returns.
WriteReturn(b) ==
    /\ wr[b].pc = "check"
    /\ wr' = [wr EXCEPT ![b] = IdleWrite]
    /\ UNCHANGED <<activeWriter, pendingWriters, writeCount, logvars, ver, fl, closer,
                   waitvars>>

-----------------------------------------------------------------------------
(* Flush *)

\* Mutated form: only the active log is flushed.
FlushStartActiveOnly(f) ==
    /\ cl.pc = "open"
    /\ fl[f].pc = "idle"
    /\ fl' = [fl EXCEPT ![f] = [pc |-> "flush",
                                active |-> activeWriter # NoLog,
                                todo |-> {activeWriter} \ {NoLog}]]
    /\ UNCHANGED <<activeWriter, pendingWriters, writeCount, logvars, ver, wr, closer,
                   waitvars>>

\* Under both locks: the pending logs and the active one, and the barriers.
FlushStart(f) ==
    /\ cl.pc = "open"
    /\ fl[f].pc = "idle"
    /\ fl' = [fl EXCEPT ![f] = [pc |-> "flush",
                                active |-> activeWriter # NoLog,
                                todo |-> Pending \cup ({activeWriter} \ {NoLog})]]
    /\ UNCHANGED <<activeWriter, pendingWriters, writeCount, logvars, ver, wr, closer,
                   waitvars>>

\* WriteLog.Flush: fsync of a log opened for writing.  A log recovered from an
\* earlier session was opened through a reader without Flush: nothing happens.
Fsync(l) ==
    synced' = IF wstate[l] \in {"open", "frozen"}
              THEN [synced EXCEPT ![l] = Len(entries[l])]
              ELSE synced

\* One of the goroutines that flush in parallel.
FlushLog(f, l) ==
    /\ fl[f].pc = "flush"
    /\ l \in fl[f].todo
    /\ Fsync(l)
    /\ fl' = [fl EXCEPT ![f].todo = @ \ {l}]
    /\ UNCHANGED <<activeWriter, pendingWriters, writeCount, entries, wstate, ver, wr,
                   closer, waitvars>>

\* All logs are flushed: Flush returns and leaves its barriers.
FlushReturn(f) ==
    /\ fl[f].pc = "flush"
    /\ fl[f].todo = {}
    /\ fl' = [fl EXCEPT ![f] = IdleFlush]
    /\ FlushLeaves(f)
    /\ UNCHANGED <<activeWriter, pendingWriters, writeCount, logvars, ver, wr, closer>>

-----------------------------------------------------------------------------
(* The compaction goroutine: rotation *)

\* The goroutine that calls PushNewLog, RemovePending and closes what it has
\* removed is between those calls, and the tracker is open.
RunnerIdle == push.pc = "idle" /\ rem.pc = "idle" /\ cl.pc = "open"

\* A log recovered when the device is opened.
PushPending(l) ==
    /\ activeWriter = NoLog
    /\ cl.pc = "open"
    /\ wstate[l] \in {"none", "closed"}
    /\ wstate' = [wstate EXCEPT ![l] = "reader"]
    /\ pendingWriters' = Append(pendingWriters, l)
    /\ UNCHANGED <<activeWriter, writeCount, entries, synced, ver, callvars, waitvars>>

\* BlockFile.makeLogWriter: a new, empty log.  Names are drawn at random among
\* those no file has; nothing refers to such a log, so it does not matter which
\* one is taken, and the name of a deleted log may come back.
MakeLogWriter(l) ==
    /\ RunnerIdle
    /\ wstate[l] \in {"none", "closed"}
    /\ \A k \in Logs : wstate[k] # "created"
    /\ wstate' = [wstate EXCEPT ![l] = "created"]
    /\ entries' = [entries EXCEPT ![l] = <<>>]
    /\ synced' = [synced EXCEPT ![l] = 0]
    /\ UNCHANGED <<activeWriter, pendingWriters, writeCount, ver, callvars, waitvars>>

\* PushNewLog is given a new log.
NewWriter(l) ==
    /\ wstate[l] = "created"
    /\ wstate' = [wstate EXCEPT ![l] = "open"]
    /\ activeWriter' = l
    /\ UNCHANGED <<entries, synced>>

\* PushNewLog without an old log returns at once.
PushFirstLog(l) ==
    /\ RunnerIdle
    /\ activeWriter = NoLog
    /\ NewWriter(l)
    /\ UNCHANGED <<pendingWriters, writeCount, ver, callvars, waitvars>>

\* Mutated form: PushNewLog does not wait for the writes in flight.
PushSwapNoBarrier(l) ==
    /\ RunnerIdle
    /\ activeWriter # NoLog
    /\ NewWriter(l)
    /\ pendingWriters' = Append(pendingWriters, activeWriter)
    /\ closer' = [closer EXCEPT ![activeWriter] = "held"]
    /\ push' = [pc |-> "wait", old |-> activeWriter, waitW |-> {}, waitF |-> {}]
    /\ UNCHANGED <<writeCount, ver, wr, fl, rem, cl>>

\* PushNewLog up to its barrier: under both locks the logs are swapped, the old
\* one becomes pending and the context of its closer is taken.
PushSwap(l) ==
    /\ RunnerIdle
    /\ activeWriter # NoLog
    /\ NewWriter(l)
    /\ pendingWriters' = Append(pendingWriters, activeWriter)
    /\ closer' = [closer EXCEPT ![activeWriter] = "held"]
    /\ push' = [pc |-> "wait", old |-> activeWriter,
                waitW |-> ActiveWrites, waitF |-> ActiveFlushes]
    /\ UNCHANGED <<writeCount, ver, wr, fl, rem, cl>>

\* Mutated form: the count is not reset.
PushReturnNoReset ==
    /\ push.pc = "wait"
    /\ push.waitW = {}
    /\ push.waitF = {}
    /\ closer' = [closer EXCEPT ![push.old] = "start"]
    /\ push' = IdlePush
    /\ UNCHANGED <<activeWriter, pendingWriters, writeCount, logvars, ver, wr, fl, rem, cl>>

\* PushNewLog after its barrier: the count is reset, the closer started.
PushReturn ==
    /\ push.pc = "wait"
    /\ push.waitW = {}
    /\ push.waitF = {}
    /\ writeCount' = 0
    /\ closer' = [closer EXCEPT ![push.old] = "start"]
    /\ push' = IdlePush
    /\ UNCHANGED <<activeWriter, pendingWriters, logvars, ver, wr, fl, rem, cl>>

\* The goroutine started by PushNewLog.  WriteLog.CloseWriter writes the index
\* and closes the log for writing, unless nothing was written to it ...
CloserFreeze(l) ==
    /\ closer[l] = "start"
    /\ wstate' = IF entries[l] = <<>> THEN wstate ELSE [wstate EXCEPT ![l] = "frozen"]
    /\ closer' = [closer EXCEPT ![l] = "sync"]
    /\ UNCHANGED <<activeWriter, pendingWriters, writeCount, entries, synced, ver, wr, fl,
                   waitvars>>

\* ... and then flushes it; the goroutine ends with done.Done().
CloserSync(l) ==
    /\ closer[l] = "sync"
    /\ Fsync(l)
    /\ closer' = [closer EXCEPT ![l] = "none"]
    /\ CloserLeaves(l)
    /\ UNCHANGED <<activeWriter, pendingWriters, writeCount, entries, wstate, ver, wr, fl>>

-----------------------------------------------------------------------------
(* The compaction goroutine: dropping compacted logs *)

\* RemovePending up to its barrier.  Its argument is what Pending() returned
\* earlier to the same goroutine: the first n of the pending logs.
RemoveStart(n) ==
    /\ RunnerIdle
    /\ n \in 1..Len(pendingWriters)
    /\ rem' = [pc |-> "wait", logs |-> {pendingWriters[i] : i \in 1..n},
               waitF |-> Flushes, waitC |-> Closers]
    /\ pendingWriters' = SubSeq(pendingWriters, n + 1, Len(pendingWriters))
    /\ UNCHANGED <<activeWriter, writeCount, logvars, ver, callvars, push, cl>>

\* Mutated form: the barrier's wait is cut short by a flush.
RemoveReturnEarly ==
    /\ rem.pc = "wait"
    /\ rem.waitC = {}
    /\ rem' = [rem EXCEPT !.pc = "done", !.waitF = {}]
    /\ UNCHANGED <<activeWriter, pendingWriters, writeCount, logvars, ver, callvars, push, cl>>

\* RemovePending returns; its caller now owns the logs.
RemoveReturn ==
    /\ rem.pc = "wait"
    /\ rem.waitF = {}
    /\ rem.waitC = {}
    /\ rem' = [rem EXCEPT !.pc = "done"]
    /\ UNCHANGED <<activeWriter, pendingWriters, writeCount, logvars, ver, callvars, push, cl>>

\* BlockFile.removeUnusedTables closes the dropped logs one by one and deletes
\* their files.
CloseRemoved(l) ==
    /\ rem.pc = "done"
    /\ l \in rem.logs
    /\ wstate' = [wstate EXCEPT ![l] = "closed"]
    /\ entries' = [entries EXCEPT ![l] = <<>>]
    /\ synced' = [synced EXCEPT ![l] = 0]
    /\ rem' = IF rem.logs = {l} THEN IdleRem ELSE [rem EXCEPT !.logs = @ \ {l}]
    /\ UNCHANGED <<activeWriter, pendingWriters, writeCount, ver, callvars, push, cl>>

-----------------------------------------------------------------------------
(* Close, called once the compaction goroutine is idle *)

\* Under both locks the active log becomes pending; the first barrier waits
\* for the writes, with pendingWritersLock held (WriterLocks has that lock).
CloseStart ==
    /\ RunnerIdle
    /\ activeWriter' = NoLog
    /\ \/ /\ activeWriter # NoLog
          /\ writeCount' = 0
          /\ pendingWriters' = Append(pendingWriters, activeWriter)
       \/ /\ activeWriter = NoLog
          /\ UNCHANGED <<writeCount, pendingWriters>>
    /\ cl' = [pc |-> "wait1", waitW |-> ActiveWrites, waitF |-> ActiveFlushes,
              waitC |-> {}]
    /\ UNCHANGED <<logvars, ver, callvars, push, rem>>

\* The second barrier waits for the flushes and the closers.
CloseBarrier ==
    /\ cl.pc = "wait1"
    /\ cl.waitW = {}
    /\ cl.waitF = {}
    /\ cl' = [pc |-> "wait2", waitW |-> {}, waitF |-> Flushes, waitC |-> Closers]
    /\ UNCHANGED <<activeWriter, pendingWriters, writeCount, logvars, ver, callvars, push, rem>>

\* Every pending log is closed, without an fsync.
CloseReturn ==
    /\ cl.pc = "wait2"
    /\ cl.waitF = {}
    /\ cl.waitC = {}
    /\ wstate' = [l \in Logs |-> IF l \in Pending THEN "closed" ELSE wstate[l]]
    /\ cl' = [cl EXCEPT !.pc = "closed"]
    /\ UNCHANGED <<activeWriter, pendingWriters, writeCount, entries, synced, ver, callvars,
                   push, rem>>

Closed == cl.pc = "closed" /\ UNCHANGED wvars

-----------------------------------------------------------------------------
WriteStep(b) == WriteAppend(b) \/ WriteRefused(b) \/ WriteCount(b) \/ WriteReturn(b)
FlushStep(f) == (\E l \in Logs : FlushLog(f, l)) \/ FlushReturn(f)
CloserStep(l) == CloserFreeze(l) \/ CloserSync(l)
RunnerStep == PushReturn \/ RemoveReturn \/ \E l \in Logs : CloseRemoved(l)
CloseStep == CloseBarrier \/ CloseReturn

WNext ==
    \/ \E b \in Blocks : WriteStart(b) \/ WriteStep(b)
    \/ \E f \in Flushers : FlushStart(f) \/ FlushStep(f)
    \/ \E l \in Logs : PushPending(l) \/ MakeLogWriter(l) \/ PushFirstLog(l)
                       \/ PushSwap(l) \/ CloserStep(l)
    \/ \E n \in 1..Len(pendingWriters) : RemoveStart(n)
    \/ RunnerStep
    \/ CloseStart
    \/ CloseStep
    \/ Closed

WSafeSpec == WInit /\ [][WNext]_wvars

-----------------------------------------------------------------------------
\* The logs a call in flight, a closer or the tracker itself still refers to
\* exist; fsynced records are records of the log.
WTypeOK ==
    /\ activeWriter \in Logs \cup {NoLog}
    /\ pendingWriters \in Seq(Logs)
    /\ writeCount \in Nat
    /\ entries \in [Logs -> Seq(Blocks \X Nat)]
    /\ synced \in [Logs -> Nat]
    /\ wstate \in [Logs -> {"none", "created", "open", "frozen", "reader", "closed"}]
    /\ ver \in [Blocks -> 0..MaxVersion]
    /\ wr \in [Blocks -> [pc : {"idle", "write", "count", "check"},
                          log : Logs \cup {NoLog}]]
    /\ fl \in [Flushers -> [pc : {"idle", "flush"}, active : BOOLEAN,
                            todo : SUBSET Logs]]
    /\ closer \in [Logs -> {"none", "held", "start", "sync"}]
    /\ push \in [pc : {"idle", "wait"}, old : Logs \cup {NoLog},
                 waitW : SUBSET Blocks, waitF : SUBSET Flushers]
    /\ rem \in [pc : {"idle", "wait", "done"}, logs : SUBSET Logs,
                waitF : SUBSET Flushers, waitC : SUBSET Logs]
    /\ cl \in [pc : {"open", "wait1", "wait2", "closed"},
               waitW : SUBSET Blocks, waitF : SUBSET Flushers, waitC : SUBSET Logs]
    /\ \A l \in Logs : synced[l] <= Len(entries[l])

\* A write that found a log active can always write to it: PushNewLog hands
\* the old log to its closer only after every write that captured it is done.
NoWriteRefused ==
    \A b \in Blocks : (wr[b].pc = "write" /\ wr[b].log # NoLog) => wstate[wr[b].log] = "open"

\* A swapped log never changes again once PushNewLog has returned: that is what
\* lets rotateNewWriteLog push it as an immutable reader and compact it.
SwappedLogsFrozen ==
    [][\A l \in Logs : (l \in Pending /\ l # push.old /\ cl.pc = "open")
                          => entries'[l] = entries[l]]_wvars

\* A log that RemovePending has returned for, and so is about to be closed and
\* deleted, is not used by any flush or closer; nor is any closed log.
NoUseAfterRemove ==
    \A l \in Logs :
        (wstate[l] = "closed" \/ (rem.pc = "done" /\ l \in rem.logs))
        => /\ closer[l] = "none"
           /\ \A f \in Flushers : l \notin fl[f].todo
           /\ \A b \in Blocks : wr[b].pc = "write" => wr[b].log # l

\* Whoever a swap, a removal or a close still waits for is under way and itself
\* waits at no barrier.  A flush or a write that ended without leaving a barrier,
\* or a wait for the closer of the swap in progress, would leave the compaction
\* goroutine, and Close, waiting.  (WriterLocks adds the mutexes.)
WaitsForRunning ==
    LET running == {l \in Logs : closer[l] \in {"start", "sync"}} IN
    /\ push.waitW \cup cl.waitW \subseteq ActiveWrites
    /\ push.waitF \subseteq ActiveFlushes
    /\ rem.waitF \cup cl.waitF \subseteq Flushes
    /\ rem.waitC \cup cl.waitC \subseteq running
=============================================================================
