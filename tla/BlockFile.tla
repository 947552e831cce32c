----------------------------- MODULE BlockFile -----------------------------
(***************************************************************************)
(* block/block_file.go and block/compaction.go on top of the writer        *)
(* tracker and the metadata: opening a device, writing and flushing it,    *)
(* rotating and compacting its write logs, deleting what compaction made   *)
(* unused, closing it, and a crash between any two of these steps.         *)
(*                                                                         *)
(* The reader side is the stack of readers and the block index; merging    *)
(* pending readers into the index is one step here (ReaderTracker has the  *)
(* details).  File contents are versions of blocks.  The blob store        *)
(* (tables, metadata) publishes a file by fsync and rename, so that it     *)
(* appears whole; a log keeps, after a power failure, any prefix that      *)
(* includes what has been fsynced.                                         *)
(***************************************************************************)
EXTENDS WriterTracker, Metadata

CONSTANTS TargetTableSize,      \* opts.TargetTableSize, in blocks
          MinTableUtilisation,  \* opts.MinTableUtilisation, in percent
          ConcurrentOps,        \* how many client calls the server lets in
          MaxWrites,            \* bound on the number of writes
          MaxSeq,               \* bound on table sequence numbers
          MaxCrashes,           \* bound on the number of crashes
          MaxCloses,            \* bound on the number of clean shutdowns
          CountWindowFlushes    \* whether a Flush that starts between
                                \* RemovePending and the next metadata save is
                                \* held to its promise (see FlushDurable)

ASSUME BlocksAssumption == IsFiniteSet(Blocks)

ASSUME SizesAssumption ==
    /\ TargetTableSize \in Nat \ {0}
    /\ MinTableUtilisation \in 10..90
    /\ ConcurrentOps \in Nat \ {0}
    /\ MaxWrites \in Nat
    /\ MaxSeq \in Nat /\ MaxCrashes \in Nat /\ MaxCloses \in Nat
    /\ CountWindowFlushes \in BOOLEAN

VARIABLES
    logFiles,        \* log files that exist
    tables,          \* the table files: sequence number -> content
    diskMeta,        \* the stored metadata
    meta,            \* bf.meta, the metadata in memory
    nextSeq,         \* bf.nextSeq
    writers,         \* reader tracker: mutable readers, newest first
    pendingReaders,  \* ... readers not indexed yet, newest first
    index,           \* ... primaryIndex: the reader of each block, or NoFile
    rs,              \* ... the readers pushed to the index
    compacting,      \* ... compactionState # nil
    pc,              \* where Open, compactWriter and Close have got to
    runReq,          \* OneRunner's r.run
    job,             \* locals of the compaction or of Close
    acked,           \* per block, the last version acknowledged this session
    need,            \* per flusher, what was acknowledged when it started
    flushed,         \* per block, the version the returned flushes promise
    cur,             \* per block, the version a read must return
    faults           \* kills, power failures and shutdowns so far

diskvars == <<logFiles, tables, diskMeta>>
readvars == <<writers, pendingReaders, index, rs, compacting>>
ctlvars == <<pc, runReq, job>>
histvars == <<acked, need, flushed, cur, faults>>
bfvars == <<diskvars, meta, nextSeq, readvars, ctlvars, histvars>>
vars == <<wvars, bfvars>>

NoFile == [type |-> "none", name |-> 0]
Hole == [b \in Blocks |-> 0]
IdleJob == [log |-> NoLog, table |-> 0, unused |-> {}]

-----------------------------------------------------------------------------
(* Contents *)

\* The last version of b among the first n records of log l in es, 0 if none.
LogContent(es, l, n, b) ==
    IF \E i \in 1..n : es[l][i][1] = b
    THEN es[l][CHOOSE i \in 1..n : /\ es[l][i][1] = b
                                  /\ \A j \in (i + 1)..n : es[l][j][1] # b][2]
    ELSE 0

Content(e, b) ==
    IF e.type = "log" THEN LogContent(entries, e.name, Len(entries[e.name]), b)
    ELSE IF e.type = "table" THEN tables[e.name][b]
    ELSE 0

\* What opening the files named by the list, oldest first, gives for block b
\* when each log l in es is cut after len[l] records.
Recovered(files, es, len, b) ==
    LET At(e) == IF e.type = "log" THEN LogContent(es, e.name, len[e.name], b)
                 ELSE tables[e.name][b]
    IN  IF \E i \in DOMAIN files : At(files[i]) # 0
        THEN At(files[CHOOSE i \in DOMAIN files :
                         /\ At(files[i]) # 0
                         /\ \A j \in (i + 1)..Len(files) : At(files[j]) = 0])
        ELSE 0

AllRecords == [l \in Logs |-> Len(entries[l])]
DiskView(b) == Recovered(diskMeta, entries, AllRecords, b)
DurableView(b) == Recovered(diskMeta, entries, synced, b)

\* What ReadBlocks returns: the reader stack, topped by the writers, over the
\* index.
MemView(b) ==
    LET layers == writers \o pendingReaders \o <<index[b]>>
    IN  IF \E i \in DOMAIN layers : Content(layers[i], b) # 0
        THEN Content(layers[CHOOSE i \in DOMAIN layers :
                               /\ Content(layers[i], b) # 0
                               /\ \A j \in 1..(i - 1) : Content(layers[j], b) = 0], b)
        ELSE 0

-----------------------------------------------------------------------------
BInit ==
    /\ WInit
    /\ logFiles = {}
    /\ tables = [s \in {} |-> Hole]
    /\ diskMeta = <<>>
    /\ meta = <<>>
    /\ nextSeq = 1
    /\ writers = <<>>
    /\ pendingReaders = <<>>
    /\ index = [b \in Blocks |-> NoFile]
    /\ rs = {}
    /\ compacting = FALSE
    /\ pc = "down"
    /\ runReq = FALSE
    /\ job = IdleJob
    /\ acked = Hole
    /\ need = [f \in Flushers |-> Hole]
    /\ flushed = Hole
    /\ cur = Hole
    /\ faults = [kill |-> 0, power |-> 0, close |-> 0]

-----------------------------------------------------------------------------
(* OpenBlockFileWithOptions *)

\* Mutated form: numbering restarts from the number of tables.
SeqAfterCount(files) == Cardinality(TablesOf(files)) + 1

\* The table sequence number after those the metadata names.
SeqAfter(files) == Max({0} \cup TablesOf(files)) + 1

\* Mutated form: the readers are stacked in the order of the metadata.
OpenLoadOldestFirst ==
    /\ pc = "down"
    /\ LogsOf(diskMeta) \subseteq logFiles
    /\ TablesOf(diskMeta) \subseteq DOMAIN tables
    /\ meta' = diskMeta
    /\ nextSeq' = SeqAfter(diskMeta)
    /\ pendingReaders' = diskMeta
    /\ pendingWriters' = LogNames(diskMeta)
    /\ wstate' = [l \in Logs |-> IF l \in LogsOf(diskMeta) THEN "reader" ELSE "none"]
    /\ pc' = "openMake"
    /\ UNCHANGED <<activeWriter, writeCount, entries, synced, ver, callvars, waitvars, diskvars,
                   writers, index, rs, compacting, runReq, job, histvars>>

\* The metadata is loaded (an absent one is an empty list), every file it names
\* is opened, logs become pending writers.
OpenLoad ==
    /\ pc = "down"
    /\ LogsOf(diskMeta) \subseteq logFiles
    /\ TablesOf(diskMeta) \subseteq DOMAIN tables
    /\ meta' = diskMeta
    /\ nextSeq' = SeqAfter(diskMeta)
    /\ pendingReaders' = Reverse(diskMeta)
    /\ pendingWriters' = LogNames(diskMeta)
    /\ wstate' = [l \in Logs |-> IF l \in LogsOf(diskMeta) THEN "reader" ELSE "none"]
    /\ pc' = "openMake"
    /\ UNCHANGED <<activeWriter, writeCount, entries, synced, ver, callvars, waitvars, diskvars,
                   writers, index, rs, compacting, runReq, job, histvars>>

\* makeLogWriter picks a name no file has; which one makes no difference.
NewName == CHOOSE l \in Logs : l \notin logFiles

OpenMakeLog ==
    /\ pc = "openMake"
    /\ logFiles # Logs
    /\ MakeLogWriter(NewName)
    /\ logFiles' = logFiles \cup {NewName}
    /\ job' = [job EXCEPT !.log = NewName]
    /\ pc' = "openSave"
    /\ UNCHANGED <<tables, diskMeta, meta, nextSeq, readvars, runReq, histvars>>

OpenSave ==
    /\ pc = "openSave"
    /\ meta' = PushWriteLog(meta, job.log)
    /\ diskMeta' = meta'
    /\ pc' = "openPush"
    /\ UNCHANGED <<wvars, logFiles, tables, nextSeq, readvars, runReq, job, histvars>>

OpenPush ==
    /\ pc = "openPush"
    /\ writers' = <<LogFile(job.log)>>
    /\ PushFirstLog(job.log)
    /\ job' = IdleJob
    /\ pc' = "idle"
    /\ UNCHANGED <<diskvars, meta, nextSeq, pendingReaders, index, rs, compacting, runReq,
                   histvars>>

\* The device is open for clients.
Serving == pc \notin {"down", "openMake", "openSave", "openPush", "closing", "closeSave",
                      "closeDelete"}

-----------------------------------------------------------------------------
(* WriteBlocks and Flush *)

\* The server runs at most ConcurrentOps client calls at a time.
Admitted ==
    /\ Serving
    /\ Cardinality({b \in Blocks : wr[b].pc # "idle"})
         + Cardinality({f \in Flushers : fl[f].pc # "idle"}) < ConcurrentOps

Writes == MapThenSumSet(LAMBDA b : ver[b], Blocks)

BWriteStart(b) ==
    /\ Admitted
    /\ Writes + Cardinality({x \in Blocks : wr[x].pc = "write"}) < MaxWrites
    /\ WriteStart(b)
    /\ UNCHANGED bfvars

BWriteAppend(b) ==
    /\ WriteAppend(b)
    /\ cur' = [cur EXCEPT ![b] = ver'[b]]
    /\ UNCHANGED <<diskvars, meta, nextSeq, readvars, ctlvars, acked, need, flushed, faults>>

BWriteCount(b) ==
    /\ WriteCount(b)
    /\ UNCHANGED bfvars

\* Mutated form: the request is dropped while the goroutine is busy.
BWriteReturnDrop(b) ==
    /\ WriteReturn(b)
    /\ acked' = [acked EXCEPT ![b] = ver[b]]
    /\ IF writeCount > TargetTableSize /\ pc = "idle"
       THEN runReq' = TRUE /\ pc' = "loop"
       ELSE UNCHANGED <<runReq, pc>>
    /\ UNCHANGED <<diskvars, meta, nextSeq, readvars, job, need, flushed, cur, faults>>

\* After the tracker's WriteBlocks the count is read and, if it exceeds the
\* target, the compaction goroutine is asked to run (OneRunner.Go).  One step:
\* compactWriter reads the count again.
BWriteReturn(b) ==
    /\ WriteReturn(b)
    /\ acked' = [acked EXCEPT ![b] = ver[b]]
    /\ IF writeCount > TargetTableSize
       THEN /\ runReq' = TRUE
            /\ pc' = IF pc = "idle" THEN "loop" ELSE pc
       ELSE UNCHANGED <<runReq, pc>>
    /\ UNCHANGED <<diskvars, meta, nextSeq, readvars, job, need, flushed, cur, faults>>

\* Between RemovePending and the save of the metadata that names the table, the
\* compacted logs are in neither list a Flush looks at, and only they hold
\* their data as far as the stored metadata is concerned.
InWindow == pc = "removing"

BFlushStart(f) ==
    /\ Admitted
    /\ FlushStart(f)
    /\ need' = [need EXCEPT ![f] = IF InWindow /\ ~CountWindowFlushes THEN Hole ELSE acked]
    /\ UNCHANGED <<diskvars, meta, nextSeq, readvars, ctlvars, acked, flushed, cur, faults>>

BFlushLog(f, l) ==
    /\ FlushLog(f, l)
    /\ UNCHANGED bfvars

BFlushReturn(f) ==
    /\ FlushReturn(f)
    /\ flushed' = [b \in Blocks |-> Max({flushed[b], need[f][b]})]
    /\ need' = [need EXCEPT ![f] = Hole]
    /\ UNCHANGED <<diskvars, meta, nextSeq, readvars, ctlvars, acked, cur, faults>>

BCloser(l) ==
    /\ CloserStep(l)
    /\ UNCHANGED bfvars

-----------------------------------------------------------------------------
(* OneRunner's loop and compactWriter *)

Goto(here, there) == pc = here /\ pc' = there

RunnerLoop ==
    /\ pc = "loop"
    /\ runReq' = FALSE
    /\ pc' = IF runReq THEN "check" ELSE "idle"
    /\ UNCHANGED <<wvars, diskvars, meta, nextSeq, readvars, job, histvars>>

CompactWriterCheck ==
    /\ pc = "check"
    /\ pc' = IF writeCount < TargetTableSize THEN "loop" ELSE "rotate"
    /\ UNCHANGED <<wvars, diskvars, meta, nextSeq, readvars, runReq, job, histvars>>

\* rotateNewWriteLog: the new log is created and pushed to the readers ...
RotateMakeLog ==
    /\ Goto("rotate", "rotateSave")
    /\ logFiles # Logs
    /\ MakeLogWriter(NewName)
    /\ logFiles' = logFiles \cup {NewName}
    /\ writers' = <<LogFile(NewName)>> \o writers
    /\ job' = [job EXCEPT !.log = NewName]
    /\ UNCHANGED <<tables, diskMeta, meta, nextSeq, pendingReaders, index, rs, compacting,
                   runReq, histvars>>

\* Mutated form: the metadata is changed in memory but not saved.
RotateSaveLater ==
    /\ Goto("rotateSave", "rotateSwap")
    /\ meta' = PushWriteLog(meta, job.log)
    /\ UNCHANGED <<wvars, diskvars, nextSeq, readvars, runReq, job, histvars>>

\* ... named in the stored metadata ...
RotateSave ==
    /\ Goto("rotateSave", "rotateSwap")
    /\ meta' = PushWriteLog(meta, job.log)
    /\ diskMeta' = meta'
    /\ UNCHANGED <<wvars, logFiles, tables, nextSeq, readvars, runReq, job, histvars>>

\* ... and made the active log.
RotateSwap ==
    /\ Goto("rotateSwap", "rotateWait")
    /\ PushSwap(job.log)
    /\ job' = [job EXCEPT !.log = activeWriter]
    /\ UNCHANGED <<diskvars, meta, nextSeq, readvars, runReq, histvars>>

RotateWait ==
    /\ Goto("rotateWait", "rotatePush")
    /\ PushReturn
    /\ UNCHANGED <<diskvars, meta, nextSeq, readvars, runReq, job, histvars>>

\* Mutated form: the old log is removed from the writers and never pushed as a
\* reader.
RotatePushForgets ==
    /\ Goto("rotatePush", "start")
    /\ writers' = RemoveFirst(writers, LogFile(job.log))
    /\ UNCHANGED <<wvars, diskvars, meta, nextSeq, pendingReaders, index, rs, compacting,
                   runReq, job, histvars>>

\* PushReader then RemoveWriter: the old log is an immutable reader from now on.
RotatePush ==
    /\ Goto("rotatePush", "start")
    /\ pendingReaders' = <<LogFile(job.log)>> \o pendingReaders
    /\ writers' = RemoveFirst(writers, LogFile(job.log))
    /\ UNCHANGED <<wvars, diskvars, meta, nextSeq, index, rs, compacting, runReq, job, histvars>>

\* readerMergeLoop: pending readers are indexed, newer ones over older ones.
\* Not while a compaction is in progress.
Merge ==
    /\ pendingReaders # <<>>
    /\ ~compacting
    /\ index' = [b \in Blocks |->
                    LET hits == {i \in DOMAIN pendingReaders : Content(pendingReaders[i], b) # 0}
                    IN  IF hits = {} THEN index[b] ELSE pendingReaders[Min(hits)]]
    /\ rs' = rs \cup FileSet(pendingReaders)
    /\ pendingReaders' = <<>>
    /\ UNCHANGED <<wvars, diskvars, meta, nextSeq, writers, compacting, ctlvars, histvars>>

\* compactPendingWriters: StartCompaction waits until nothing is pending.
StartCompaction ==
    /\ Goto("start", "build")
    /\ pendingReaders = <<>>
    /\ compacting' = TRUE
    /\ UNCHANGED <<wvars, diskvars, meta, nextSeq, writers, pendingReaders, index, rs, runReq,
                   job, histvars>>

-----------------------------------------------------------------------------
(* BuildCompactionReader: which tables are compacted with the logs *)

Live(e) == Cardinality({b \in Blocks : index[b] = e})
DataSize(e) == Cardinality({b \in Blocks : tables[e.name][b] # 0})
LiveSum(es) == FoldSet(LAMBDA e, n : n + Live(e), 0, es)

LowUtilisation ==
    {e \in rs : /\ e.type = "table"
                /\ Live(e) > 0
                /\ 100 * Live(e) <= MinTableUtilisation * DataSize(e)}

\* Tables are taken in order of live size until they exceed the target; the
\* sort leaves the order of equal ones open.
Chosen(es) ==
    /\ es \subseteq LowUtilisation
    /\ \A e \in es, k \in LowUtilisation \ es : Live(e) <= Live(k)
    /\ es # LowUtilisation => LiveSum(es) > TargetTableSize
    /\ es # {} => \E e \in es : /\ \A k \in es : Live(k) <= Live(e)
                                /\ LiveSum(es \ {e}) <= TargetTableSize

\* Mutated form: the blocks of the chosen tables are all copied, live or not.
CompactedStale(es) ==
    [b \in Blocks |->
        LET hits == {i \in DOMAIN pendingWriters : Content(LogFile(pendingWriters[i]), b) # 0}
            old == {Content(e, b) : e \in es} \ {0}
        IN  IF hits # {} THEN Content(LogFile(pendingWriters[Max(hits)]), b)
            ELSE IF old # {} THEN Min(old)
            ELSE 0]

\* The new table: the live blocks of the chosen tables under the pending logs,
\* newest log on top.
Compacted(es) ==
    [b \in Blocks |->
        LET hits == {i \in DOMAIN pendingWriters : Content(LogFile(pendingWriters[i]), b) # 0}
        IN  IF hits # {} THEN Content(LogFile(pendingWriters[Max(hits)]), b)
            ELSE IF index[b] \in es THEN Content(index[b], b)
            ELSE 0]

\* compactToFile: the table is written to a temporary file, fsynced and renamed
\* to its name, replacing whatever had that name.
BuildTable ==
    /\ Goto("build", "install")
    /\ nextSeq <= MaxSeq
    /\ \E es \in SUBSET rs :
          /\ Chosen(es)
          /\ tables' = [s \in DOMAIN tables \cup {nextSeq} |->
                           IF s = nextSeq THEN Compacted(es) ELSE tables[s]]
    /\ job' = [job EXCEPT !.table = nextSeq]
    /\ nextSeq' = nextSeq + 1
    /\ UNCHANGED <<wvars, logFiles, diskMeta, meta, readvars, runReq, histvars>>

\* PushCompactedReader, then RemovePending up to its barrier.  Nothing has been
\* added to the pending logs since Pending(): this goroutine adds them.
Install ==
    LET t == TableFile(job.table) IN
    /\ Goto("install", "removing")
    /\ index' = [b \in Blocks |-> IF Content(t, b) # 0 THEN t ELSE index[b]]
    /\ rs' = rs \cup {t}
    /\ job' = [job EXCEPT !.log = Last(pendingWriters)]
    /\ RemoveStart(Len(pendingWriters))
    /\ UNCHANGED <<diskvars, meta, nextSeq, writers, pendingReaders, compacting, runReq, histvars>>

Removing ==
    /\ Goto("removing", "commit")
    /\ RemoveReturn
    /\ UNCHANGED <<diskvars, meta, nextSeq, readvars, runReq, job, histvars>>

\* Mutated form: logs are left alone.
UnusedTables == {e \in rs : e.type = "table" /\ Live(e) = 0}

\* The readers removeUnusedTables finds without live blocks.
Unused == {e \in rs : Live(e) = 0}

\* Mutated form: the unused files are deleted before the metadata is saved.
CommitUnsaved ==
    /\ Goto("commit", "delete")
    /\ meta' = RemoveAll(CompactWriteLog(meta, job.log, job.table), Unused)
    /\ rs' = rs \ Unused
    /\ job' = [job EXCEPT !.unused = Unused]
    /\ UNCHANGED <<wvars, diskvars, nextSeq, writers, pendingReaders, index, compacting,
                   runReq, histvars>>

\* CompactWriteLog, then removeUnusedTables up to its save: the table takes the
\* place of the newest compacted log, and everything without live blocks is
\* dropped from the index and the metadata.
Commit ==
    /\ Goto("commit", "delete")
    /\ meta' = RemoveAll(CompactWriteLog(meta, job.log, job.table), Unused)
    /\ diskMeta' = IF Unused # {} THEN meta' ELSE diskMeta
    /\ rs' = rs \ Unused
    /\ job' = [job EXCEPT !.unused = Unused]
    /\ UNCHANGED <<wvars, logFiles, tables, nextSeq, writers, pendingReaders, index, compacting,
                   runReq, histvars>>

\* The unused files are closed and deleted one by one, in no fixed order.
DeleteLog(e) ==
    /\ pc = "delete"
    /\ e \in job.unused
    /\ e.type = "log"
    /\ CloseRemoved(e.name)
    /\ logFiles' = logFiles \ {e.name}
    /\ job' = [job EXCEPT !.unused = @ \ {e}]
    /\ UNCHANGED <<tables, diskMeta, meta, nextSeq, readvars, pc, runReq, histvars>>

DeleteTable(e) ==
    /\ pc = "delete"
    /\ e \in job.unused
    /\ e.type = "table"
    /\ tables' = [s \in DOMAIN tables \ {e.name} |-> tables[s]]
    /\ job' = [job EXCEPT !.unused = @ \ {e}]
    /\ UNCHANGED <<wvars, logFiles, diskMeta, meta, nextSeq, readvars, pc, runReq, histvars>>

\* Mutated form: cs.Done() is missing.
CompactionNotDone ==
    /\ Goto("delete", "loop")
    /\ job.unused = {}
    /\ job' = IdleJob
    /\ UNCHANGED <<wvars, diskvars, meta, nextSeq, readvars, runReq, histvars>>

\* cs.Done(), and back to OneRunner's loop.
CompactionDone ==
    /\ Goto("delete", "loop")
    /\ job.unused = {}
    /\ compacting' = FALSE
    /\ job' = IdleJob
    /\ UNCHANGED <<wvars, diskvars, meta, nextSeq, writers, pendingReaders, index, rs, runReq,
                   histvars>>

-----------------------------------------------------------------------------
(* Close: main closes the device after the server has stopped, so no client *)
(* call is in flight.                                                       *)

BCloseStart ==
    /\ Goto("idle", "closing")
    /\ faults.close < MaxCloses
    /\ \A b \in Blocks : wr[b].pc = "idle"
    /\ \A f \in Flushers : fl[f].pc = "idle"
    /\ CloseStart
    /\ faults' = [faults EXCEPT !.close = @ + 1]
    /\ UNCHANGED <<diskvars, meta, nextSeq, readvars, runReq, job, acked, need, flushed, cur>>

BCloseBarrier ==
    /\ CloseBarrier
    /\ UNCHANGED bfvars

BCloseReturn ==
    /\ Goto("closing", "closeSave")
    /\ CloseReturn
    /\ UNCHANGED <<diskvars, meta, nextSeq, readvars, runReq, job, histvars>>

EmptyLogs == {l \in Pending : entries[l] = <<>>}

\* Logs with nothing written are dropped from the metadata, which is saved, and
\* deleted.  For a recovered log it is the size of the file that counts, which
\* may hold a header and no record; the last one is this session's.
CloseSave ==
    /\ Goto("closeSave", "closeDelete")
    /\ \E es \in SUBSET EmptyLogs :
          /\ Last(pendingWriters) \in EmptyLogs => Last(pendingWriters) \in es
          /\ job' = [job EXCEPT !.unused = {LogFile(l) : l \in es}]
          /\ meta' = RemoveAll(meta, job'.unused)
          /\ diskMeta' = IF es # {} THEN meta' ELSE diskMeta
    /\ UNCHANGED <<wvars, logFiles, tables, nextSeq, readvars, runReq, histvars>>

\* Mutated form: the file is left on disk.
CloseDeleteKeeps(e) ==
    /\ pc = "closeDelete"
    /\ e \in job.unused
    /\ job' = [job EXCEPT !.unused = @ \ {e}]
    /\ UNCHANGED <<wvars, diskvars, meta, nextSeq, readvars, pc, runReq, histvars>>

CloseDelete(e) ==
    /\ pc = "closeDelete"
    /\ e \in job.unused
    /\ logFiles' = logFiles \ {e.name}
    /\ job' = [job EXCEPT !.unused = @ \ {e}]
    /\ UNCHANGED <<wvars, tables, diskMeta, meta, nextSeq, readvars, pc, runReq, histvars>>

-----------------------------------------------------------------------------
(* The end of a process: everything in memory is gone. *)

ForgetMemory ==
    /\ activeWriter' = NoLog
    /\ pendingWriters' = <<>>
    /\ writeCount' = 0
    /\ wstate' = [l \in Logs |-> "none"]
    /\ wr' = [b \in Blocks |-> IdleWrite]
    /\ fl' = [f \in Flushers |-> IdleFlush]
    /\ closer' = [l \in Logs |-> "none"]
    /\ push' = IdlePush
    /\ rem' = IdleRem
    /\ cl' = IdleClose
    /\ meta' = <<>>
    /\ nextSeq' = 1
    /\ writers' = <<>>
    /\ pendingReaders' = <<>>
    /\ index' = [b \in Blocks |-> NoFile]
    /\ rs' = {}
    /\ compacting' = FALSE
    /\ pc' = "down"
    /\ runReq' = FALSE
    /\ job' = IdleJob
    /\ acked' = Hole
    /\ need' = [f \in Flushers |-> Hole]

Crashes == faults.kill + faults.power

\* The process exits after Close.
Exit ==
    /\ pc = "closeDelete"
    /\ job.unused = {}
    /\ ForgetMemory
    /\ UNCHANGED <<entries, synced, ver, diskvars, flushed, cur, faults>>

\* The process is killed: the files stay as they are.
Kill ==
    /\ pc # "down"
    /\ Crashes < MaxCrashes
    /\ faults' = [faults EXCEPT !.kill = @ + 1]
    /\ ForgetMemory
    /\ UNCHANGED <<entries, synced, ver, diskvars, flushed, cur>>

\* The machine fails: a log keeps some prefix, at least what was fsynced.
PowerLoss ==
    /\ pc # "down"
    /\ Crashes < MaxCrashes
    /\ faults' = [faults EXCEPT !.power = @ + 1]
    /\ \E len \in [Logs -> 0..Max({Len(entries[l]) : l \in Logs})] :
          /\ \A l \in Logs : len[l] \in synced[l]..Len(entries[l])
          /\ entries' = [l \in Logs |-> SubSeq(entries[l], 1, len[l])]
          /\ synced' = len
          /\ cur' = [b \in Blocks |-> Recovered(diskMeta, entries, len, b)]
    /\ ForgetMemory
    /\ UNCHANGED <<ver, diskvars, flushed>>

-----------------------------------------------------------------------------
Quiescent ==
    /\ pc = "idle"
    /\ \A b \in Blocks : wr[b].pc = "idle"
    /\ Writes = MaxWrites
    /\ UNCHANGED vars

ClientStep ==
    \/ \E b \in Blocks : BWriteAppend(b) \/ BWriteCount(b) \/ BWriteReturn(b)
    \/ \E f \in Flushers : BFlushReturn(f) \/ \E l \in Logs : BFlushLog(f, l)

OpenStep == OpenLoad \/ OpenMakeLog \/ OpenSave \/ OpenPush

CompactStep ==
    \/ RunnerLoop
    \/ CompactWriterCheck
    \/ RotateMakeLog
    \/ RotateSave \/ RotateSwap \/ RotateWait \/ RotatePush
    \/ StartCompaction \/ BuildTable \/ Install \/ Removing \/ Commit
    \/ \E e \in job.unused : DeleteLog(e) \/ DeleteTable(e)
    \/ CompactionDone

ShutdownStep ==
    \/ BCloseBarrier \/ BCloseReturn \/ CloseSave
    \/ \E e \in job.unused : CloseDelete(e)
    \/ Exit

BNext ==
    \/ OpenStep
    \/ \E b \in Blocks : BWriteStart(b)
    \/ \E f \in Flushers : BFlushStart(f)
    \/ ClientStep
    \/ \E l \in Logs : BCloser(l)
    \/ Merge
    \/ CompactStep
    \/ BCloseStart
    \/ ShutdownStep
    \/ Kill
    \/ PowerLoss
    \/ Quiescent

BSafeSpec == BInit /\ [][BNext]_vars

\* The goroutines of the process run, and files can be read and written.
\* Clients need not call, and nothing has to crash.
BSpec ==
    /\ BSafeSpec
    /\ WF_vars(OpenStep)
    /\ \A b \in Blocks : WF_vars(BWriteAppend(b) \/ BWriteCount(b) \/ BWriteReturn(b))
    /\ \A f \in Flushers : WF_vars(BFlushReturn(f) \/ \E l \in Logs : BFlushLog(f, l))
    /\ \A l \in Logs : WF_vars(BCloser(l))
    /\ WF_vars(Merge)
    /\ WF_vars(CompactStep)
    /\ WF_vars(ShutdownStep)
-----------------------------------------------------------------------------
\* Between actions of one call, the call is where its state says: a rotation or
\* a compaction holds a file it works on.
BTypeOK ==
    /\ WTypeOK
    /\ logFiles \subseteq Logs
    /\ DOMAIN tables \subseteq 1..MaxSeq
    /\ \A s \in DOMAIN tables : tables[s] \in [Blocks -> 0..MaxVersion]
    /\ LogsOf(diskMeta) \cup LogsOf(meta) \subseteq Logs
    /\ TablesOf(diskMeta) \cup TablesOf(meta) \subseteq 1..MaxSeq
    /\ nextSeq \in 1..(MaxSeq + 1)
    /\ FileSet(writers) \subseteq {LogFile(l) : l \in Logs}
    /\ \A b \in Blocks : index[b] \in rs \cup {NoFile}
    /\ \A b \in Blocks : flushed[b] \in 0..MaxVersion /\ cur[b] \in 0..MaxVersion
    /\ pc \in {"rotateSave", "rotateSwap", "rotateWait", "rotatePush"} => job.log \in Logs
    /\ compacting <=> pc \in {"build", "install", "removing", "commit", "delete"}

\* Every file the stored metadata names exists, whenever the process stops:
\* loadDataFile finds it.  (Whether it accepts a log that was cut off is a
\* question for Wal's CutLogOpens.)
MetaFilesExist ==
    /\ LogsOf(diskMeta) \subseteq logFiles
    /\ TablesOf(diskMeta) \subseteq DOMAIN tables

\* A process that is killed loses nothing: opening the files of the stored
\* metadata in its order gives, for every block, the last write.  This covers
\* every point of rotateNewWriteLog and compactPendingWriters.
NothingLost == MetaFilesExist => \A b \in Blocks : DiskView(b) = cur[b]

\* An open device reads the last write of every block, whatever the compaction
\* goroutine and the merge of readers are doing.
ReadsLatest == Serving => \A b \in Blocks : MemView(b) = cur[b]

\* What a Flush acknowledges survives a power failure: "Make the current and
\* pendings writers consistent from the point of view of any active Flush()"
\* (tracker/writer.go).
FlushDurable == MetaFilesExist => \A b \in Blocks : DurableView(b) >= flushed[b]

\* BuildFromReader divides by the number of entries: a table is never built
\* from nothing.
TableNotEmpty == \A s \in DOMAIN tables : tables[s] # Hole

\* A new table never replaces one that is in use: files are created over
\* whatever has their name.
TablesImmutable ==
    [][\A s \in DOMAIN tables \cap DOMAIN tables' : tables'[s] # tables[s]
          => s \notin TablesOf(diskMeta) /\ TableFile(s) \notin rs]_vars

\* Until the first crash, a device at rest has on disk exactly the files its
\* metadata names, and these are its active log, the logs found at the last
\* opening and tables: neither compaction nor Close leaves anything behind.
NoGarbage ==
    (pc = "idle" /\ Crashes = 0) =>
        /\ meta = diskMeta
        /\ logFiles = LogsOf(meta)
        /\ DOMAIN tables = TablesOf(meta)
        /\ LogsOf(meta) = Pending \cup {activeWriter}

\* A log that has outgrown the target is rotated, although the request to do so
\* may come while an earlier rotation is still waiting or compacting; a rotation
\* and a shutdown end: no barrier, merge or compaction waits for ever.
LogsRotated ==
    /\ (Serving /\ writeCount > TargetTableSize) ~> (~Serving \/ writeCount <= TargetTableSize)
    /\ pc \in {"rotate", "closing"} ~> pc \in {"loop", "down"}

\* What the device gives for each block: what a read returns while it is open,
\* what opening its files would give otherwise.
DeviceView == [b \in Blocks |-> IF Serving THEN MemView(b) ELSE DiskView(b)]

Device == INSTANCE BlockDevice WITH val <- DeviceView, stable <- flushed, outages <- faults.power

\* The file is a block device: only a write changes what is read, whatever is
\* rotated, merged, compacted, deleted, closed or killed, and a power failure
\* takes no block behind what a Flush vouched for.
ImplementsDevice == Device!Spec
=============================================================================
