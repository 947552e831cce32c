--------------------------- MODULE ReaderTracker ---------------------------
(***************************************************************************)
(* tracker/reader.go with the block index of blockmap/reader.go and the    *)
(* stack of readers of readers/stacked_block_reader.go, driven the way     *)
(* block/block_file.go drives them.  Three kinds of goroutines meet here:  *)
(* client reads, which walk a stack captured when they start; the merge    *)
(* loop, which moves pending readers into the index; and the compaction    *)
(* goroutine, which replaces the log being written, puts a new table into  *)
(* the index and closes the files that have no live blocks left.           *)
(*                                                                         *)
(* A file is a reader object: a write log or a table.  Its content is the  *)
(* version it holds of each block, 0 for a hole.  A read is of one block.  *)
(* A file that has been closed may come back as a new, empty one.          *)
(***************************************************************************)
EXTENDS Naturals, Sequences, FiniteSets, SequencesExt

CONSTANTS Logs, Tables,  \* files
          NoFile,        \* nil
          Blocks,
          Clients,       \* readers
          MaxVersion,    \* bound on the writes of a block
          MaxRecovered,  \* bound on the files found when the device is opened
          MaxIv          \* index values (1 << 16 - 1 in the code)

Files == Logs \cup Tables

ASSUME FilesAssumption == Logs \cap Tables = {} /\ NoFile \notin Files
ASSUME BoundsAssumption == MaxVersion \in Nat /\ MaxRecovered \in Nat /\ MaxIv \in Nat

VARIABLES
    content,         \* per file, the version of each block
    opened,          \* the files that are open
    active,          \* the log that new writes go to
    wr,              \* per block, the log its write in flight has captured
    cur,             \* per block, the version last written
    writers,         \* m.writers, newest first
    pendingReaders,  \* m.pendingReaders, newest first
    readerStack,     \* m.readerStack; the index is below its last element
    rangeMap,        \* the index: the index value of each block, 0 if none
    valueMap,        \* the file of each index value, NoFile if it is free
    rs,              \* the files pushed to the index
    compaction,      \* m.compactionState # nil
    asleep,          \* who waits in m.cond.Wait()
    mg,              \* the merge loop
    run,             \* the compaction goroutine
    rd               \* per client, its read

filevars == <<content, opened, active, wr, cur>>
indexvars == <<rangeMap, valueMap, rs>>
listvars == <<writers, pendingReaders, readerStack>>
syncvars == <<compaction, asleep>>
rvars == <<filevars, listvars, indexvars, syncvars, mg, run, rd>>

Hole == [b \in Blocks |-> 0]
IdleRead == [pc |-> "idle", stack |-> <<>>, pos |-> 1, b |-> CHOOSE b \in Blocks : TRUE,
             br |-> NoFile, val |-> 0, lo |-> 0]
IdleMerge == [pc |-> "check", files |-> <<>>, todo |-> {}, waitR |-> {}]
IdleRun == [pc |-> "idle", file |-> NoFile, todo |-> {}, unused |-> {}, removed |-> {},
            waitR |-> {}]

RInit ==
    /\ content = [f \in Files |-> Hole]
    /\ opened = {}
    /\ active = NoFile
    /\ wr = [b \in Blocks |-> NoFile]
    /\ cur = Hole
    /\ writers = <<>>
    /\ pendingReaders = <<>>
    /\ readerStack = <<>>
    /\ rangeMap = Hole
    /\ valueMap = [iv \in 1..MaxIv |-> NoFile]
    /\ rs = {}
    /\ compaction = FALSE
    /\ asleep = {}
    /\ mg = IdleMerge
    /\ run = [IdleRun EXCEPT !.pc = "open"]
    /\ rd = [c \in Clients |-> IdleRead]

-----------------------------------------------------------------------------
(* Small steps shared by the goroutines *)

\* buildReaderStack, with the lists as they are after the step.
BuildReaderStack == readerStack' = writers' \o pendingReaders'

ActiveReads == {c \in Clients : rd[c].pc # "idle"}

\* The step begins an index PushReader: the file gets the lowest free value.
FreeIvs == {iv \in 1..MaxIv : valueMap[iv] = NoFile}
IvOf(f) == CHOOSE iv \in 1..MaxIv : valueMap[iv] = f
FetchOrAddValueIndex(f) ==
    /\ FreeIvs # {}
    /\ valueMap' = [valueMap EXCEPT ![CHOOSE iv \in FreeIvs : \A k \in FreeIvs : iv <= k] = f]
    /\ rs' = rs \cup {f}
    /\ UNCHANGED rangeMap

\* doAdd: the ranges go into the map in batches, and a batch may end anywhere.
AddBlock(f, b) ==
    /\ rangeMap' = [rangeMap EXCEPT ![b] = IvOf(f)]
    /\ UNCHANGED <<valueMap, rs>>

DataOf(f) == {b \in Blocks : content[f][b] # 0}
Live(f) == {b \in Blocks : rangeMap[b] # 0 /\ valueMap[rangeMap[b]] = f}

-----------------------------------------------------------------------------
(* Clients *)

WriteStart(b) ==
    /\ active # NoFile
    /\ wr[b] = NoFile
    /\ cur[b] < MaxVersion
    /\ wr' = [wr EXCEPT ![b] = active]
    /\ UNCHANGED <<content, opened, active, cur, listvars, indexvars, syncvars, mg, run, rd>>

WriteDo(b) ==
    /\ wr[b] # NoFile
    /\ content' = [content EXCEPT ![wr[b]][b] = cur[b] + 1]
    /\ cur' = [cur EXCEPT ![b] = @ + 1]
    /\ wr' = [wr EXCEPT ![b] = NoFile]
    /\ UNCHANGED <<opened, active, listvars, indexvars, syncvars, mg, run, rd>>

\* Reader.ReadBlocks: the stack is captured and the barrier joined under m.lock.
ReadStart(c, b) ==
    /\ active # NoFile
    /\ rd[c].pc = "idle"
    /\ rd' = [rd EXCEPT ![c] = [IdleRead EXCEPT !.pc = "hole", !.stack = readerStack, !.b = b,
                                                !.lo = cur[b]]]
    /\ UNCHANGED <<filevars, listvars, indexvars, syncvars, mg, run>>

AtIndex(r) == r.pos > Len(r.stack)
\* Whether the layer the read is at has its block.
HasData(r) == IF AtIndex(r) THEN rangeMap[r.b] # 0 ELSE content[r.stack[r.pos]][r.b] # 0

\* readBlocksFrom asks the layer for its next hole ...
ReadHole(c) ==
    LET r == rd[c] IN
    /\ r.pc = "hole"
    /\ rd' = [rd EXCEPT ![c].pc = IF ~HasData(r) THEN "data"
                                  ELSE IF AtIndex(r) THEN "find" ELSE "read"]
    /\ UNCHANGED <<filevars, listvars, indexvars, syncvars, mg, run>>

\* Mutated form: below the index there is another layer.
ReadDataBelow(c) ==
    LET r == rd[c] IN
    /\ r.pc = "data"
    /\ rd' = [rd EXCEPT ![c] = IF HasData(r) THEN [r EXCEPT !.pc = "hole"]
                               ELSE [r EXCEPT !.pc = "hole", !.pos = @ + 1]]
    /\ UNCHANGED <<filevars, listvars, indexvars, syncvars, mg, run>>

\* ... and if it was at one, for its next data, which a write may have moved
\* here in between: then nothing is read and the loop starts over.  Otherwise
\* the layers below are read; below the index are zeros.
ReadData(c) ==
    LET r == rd[c] IN
    /\ r.pc = "data"
    /\ rd' = [rd EXCEPT ![c] = IF HasData(r) THEN [r EXCEPT !.pc = "hole"]
                               ELSE IF AtIndex(r) THEN [r EXCEPT !.pc = "done"]
                               ELSE [r EXCEPT !.pc = "hole", !.pos = @ + 1]]
    /\ UNCHANGED <<filevars, listvars, indexvars, syncvars, mg, run>>

\* The block is read from a writer or a pending reader.
ReadLayer(c) ==
    /\ rd[c].pc = "read"
    /\ rd' = [rd EXCEPT ![c].pc = "done",
                        ![c].val = content[rd[c].stack[rd[c].pos]][rd[c].b]]
    /\ UNCHANGED <<filevars, listvars, indexvars, syncvars, mg, run>>

\* blockmap's ReadBlocks finds the file under its lock ...
ReadFind(c) ==
    LET iv == rangeMap[rd[c].b] IN
    /\ rd[c].pc = "find"
    /\ rd' = [rd EXCEPT ![c] = IF iv = 0 THEN [@ EXCEPT !.pc = "done"]
                               ELSE [@ EXCEPT !.pc = "fetch", !.br = valueMap[iv]]]
    /\ UNCHANGED <<filevars, listvars, indexvars, syncvars, mg, run>>

\* ... and reads it without.
ReadFetch(c) ==
    /\ rd[c].pc = "fetch"
    /\ rd' = [rd EXCEPT ![c].pc = "done", ![c].val = content[rd[c].br][rd[c].b]]
    /\ UNCHANGED <<filevars, listvars, indexvars, syncvars, mg, run>>

\* The read returns and leaves the barrier.
ReadReturn(c) ==
    /\ rd[c].pc = "done"
    /\ rd' = [rd EXCEPT ![c] = IdleRead]
    /\ mg' = [mg EXCEPT !.waitR = @ \ {c}]
    /\ run' = [run EXCEPT !.waitR = @ \ {c}]
    /\ UNCHANGED <<filevars, listvars, indexvars, syncvars>>

-----------------------------------------------------------------------------
(* readerMergeLoop *)

\* The condition is tested, also after each wakeup; without anything to merge,
\* or during a compaction, the loop waits.
MergeCheck ==
    /\ mg.pc = "check"
    /\ "merge" \notin asleep
    /\ IF pendingReaders = <<>> \/ compaction
       THEN asleep' = asleep \cup {"merge"} /\ UNCHANGED mg
       ELSE /\ mg' = [mg EXCEPT !.pc = "alloc", !.files = Reverse(pendingReaders)]
            /\ UNCHANGED asleep
    /\ UNCHANGED <<filevars, listvars, indexvars, compaction, run, rd>>

\* Without m.lock, the copied readers are pushed to the index, oldest first.
MergeAlloc ==
    /\ mg.pc = "alloc"
    /\ mg.files # <<>>
    /\ FetchOrAddValueIndex(Head(mg.files))
    /\ mg' = [mg EXCEPT !.pc = "add", !.todo = DataOf(Head(mg.files))]
    /\ UNCHANGED <<filevars, listvars, syncvars, run, rd>>

MergeAdd(b) ==
    /\ mg.pc = "add"
    /\ b \in mg.todo
    /\ AddBlock(Head(mg.files), b)
    /\ mg' = [mg EXCEPT !.todo = @ \ {b}]
    /\ UNCHANGED <<filevars, listvars, syncvars, run, rd>>

MergeNext ==
    /\ mg.pc = "add"
    /\ mg.todo = {}
    /\ mg' = [mg EXCEPT !.pc = "alloc", !.files = Tail(@)]
    /\ UNCHANGED <<filevars, listvars, indexvars, syncvars, run, rd>>

\* slices.DeleteFunc: the elements of s that are not in set, in their order.
DeleteFunc(s, set) ==
    LET keep[i \in 0..Len(s)] == IF i = 0 THEN <<>>
                                 ELSE IF s[i] \in set THEN keep[i - 1]
                                 ELSE Append(keep[i - 1], s[i])
    IN  keep[Len(s)]

\* With m.lock again: the merged readers leave the pending list (those in the
\* index: nothing else moves a pending reader there), a waiting
\* StartCompaction is woken if it is empty, the stack is rebuilt, and the
\* reads that may use the old one are waited for.
MergeDrop ==
    /\ mg.pc = "alloc"
    /\ mg.files = <<>>
    /\ pendingReaders' = DeleteFunc(pendingReaders, rs)
    /\ UNCHANGED writers
    /\ BuildReaderStack
    /\ asleep' = IF pendingReaders' = <<>> THEN {} ELSE asleep
    /\ mg' = [mg EXCEPT !.pc = "wait", !.waitR = ActiveReads]
    /\ UNCHANGED <<filevars, indexvars, compaction, run, rd>>

MergeWaited ==
    /\ mg.pc = "wait"
    /\ mg.waitR = {}
    /\ mg' = IdleMerge
    /\ UNCHANGED <<filevars, listvars, indexvars, syncvars, run, rd>>

-----------------------------------------------------------------------------
(* Opening the device, then rotating its log *)

\* Mutated form: the merge loop is not woken.
PushReaderListSilently(f) ==
    /\ pendingReaders' = <<f>> \o pendingReaders
    /\ UNCHANGED <<writers, asleep>>
    /\ BuildReaderStack

\* The body of Reader.PushReader.
PushReaderList(f) ==
    /\ pendingReaders' = <<f>> \o pendingReaders
    /\ UNCHANGED writers
    /\ BuildReaderStack
    /\ asleep' = {}

\* OpenBlockFileWithOptions pushes the files it finds, oldest first.
OpenPushReader(f, bs) ==
    /\ run.pc = "open"
    /\ Cardinality(opened) < MaxRecovered
    /\ f \notin opened
    /\ \A b \in bs : cur[b] < MaxVersion
    /\ content' = [content EXCEPT ![f] = [b \in Blocks |-> IF b \in bs THEN cur[b] + 1 ELSE 0]]
    /\ cur' = [b \in Blocks |-> content'[f][b] + IF b \in bs THEN 0 ELSE cur[b]]
    /\ opened' = opened \cup {f}
    /\ PushReaderList(f)
    /\ UNCHANGED <<active, wr, indexvars, compaction, mg, run, rd>>

\* makeLogWriter and PushWriter, when opening and when rotating.  A log is
\* rotated only when something has been written to it.
PushWriter(l) ==
    /\ run.pc \in {"open", "idle"}
    /\ run.pc = "idle" => DataOf(active) # {}
    /\ l \notin opened
    /\ opened' = opened \cup {l}
    /\ content' = [content EXCEPT ![l] = Hole]
    /\ writers' = <<l>> \o writers
    /\ UNCHANGED pendingReaders
    /\ BuildReaderStack
    /\ run' = [run EXCEPT !.pc = "swap", !.file = l]
    /\ UNCHANGED <<active, wr, cur, indexvars, syncvars, mg, rd>>

\* Writer.PushNewLog: new writes go to the new log ...
PushNewLog ==
    /\ run.pc = "swap"
    /\ active' = run.file
    /\ run' = [run EXCEPT !.pc = IF active = NoFile THEN "idle" ELSE "await", !.file = active]
    /\ UNCHANGED <<content, opened, wr, cur, listvars, indexvars, syncvars, mg, rd>>

\* ... and those to the old one are waited for.
WritesDone ==
    /\ run.pc = "await"
    /\ \A b \in Blocks : wr[b] # run.file
    /\ run' = [run EXCEPT !.pc = "pushReader"]
    /\ UNCHANGED <<filevars, listvars, indexvars, syncvars, mg, rd>>

\* Mutated form: the old log is not pushed.
PushReaderForgotten ==
    /\ run.pc = "pushReader"
    /\ run' = [run EXCEPT !.pc = "removeWriter"]
    /\ UNCHANGED <<filevars, listvars, indexvars, syncvars, mg, rd>>

PushReader ==
    /\ run.pc = "pushReader"
    /\ PushReaderList(run.file)
    /\ run' = [run EXCEPT !.pc = "removeWriter"]
    /\ UNCHANGED <<filevars, indexvars, compaction, mg, rd>>

RemoveWriter ==
    /\ run.pc = "removeWriter"
    /\ writers' = RemoveFirst(writers, run.file)
    /\ UNCHANGED pendingReaders
    /\ BuildReaderStack
    /\ run' = [run EXCEPT !.pc = "removeWait", !.waitR = ActiveReads]
    /\ UNCHANGED <<filevars, indexvars, syncvars, mg, rd>>

RemoveWriterReturn ==
    /\ run.pc = "removeWait"
    /\ run.waitR = {}
    /\ run' = [run EXCEPT !.pc = "start"]
    /\ UNCHANGED <<filevars, listvars, indexvars, syncvars, mg, rd>>

-----------------------------------------------------------------------------
(* Compaction *)

\* Mutated form: pending readers are not waited for.
StartCompactionAtOnce ==
    /\ run.pc = "start"
    /\ compaction' = TRUE
    /\ run' = [run EXCEPT !.pc = "build"]
    /\ UNCHANGED <<asleep, filevars, listvars, indexvars, mg, rd>>

\* There is one compaction goroutine, so compactionState is nil here.
StartCompaction ==
    /\ run.pc = "start"
    /\ "compact" \notin asleep
    /\ IF pendingReaders # <<>>
       THEN asleep' = asleep \cup {"compact"} /\ UNCHANGED <<compaction, run>>
       ELSE /\ compaction' = TRUE
            /\ run' = [run EXCEPT !.pc = "build"]
            /\ UNCHANGED asleep
    /\ UNCHANGED <<filevars, listvars, indexvars, mg, rd>>

\* The new table holds what is live in the index of the logs and of some of the
\* tables.  (A block of a log is live unless a newer log has it.)
BuildTable(t, es) ==
    /\ run.pc = "build"
    /\ t \notin opened
    /\ es \subseteq rs \cap Tables
    /\ opened' = opened \cup {t}
    /\ content' = [content EXCEPT ![t] = [b \in Blocks |->
            IF \E f \in (rs \cap Logs) \cup es : b \in Live(f)
            THEN content[valueMap[rangeMap[b]]][b] ELSE 0]]
    /\ run' = [run EXCEPT !.pc = "alloc", !.file = t]
    /\ UNCHANGED <<active, wr, cur, listvars, indexvars, syncvars, mg, rd>>

\* PushCompactedReader
CompactAlloc ==
    /\ run.pc = "alloc"
    /\ FetchOrAddValueIndex(run.file)
    /\ run' = [run EXCEPT !.pc = "add", !.todo = DataOf(run.file)]
    /\ UNCHANGED <<filevars, listvars, syncvars, mg, rd>>

CompactAdd(b) ==
    /\ run.pc = "add"
    /\ b \in run.todo
    /\ AddBlock(run.file, b)
    /\ run' = [run EXCEPT !.todo = @ \ {b}]
    /\ UNCHANGED <<filevars, listvars, syncvars, mg, rd>>

\* Mutated form: the logs are taken to be unused before the new table has
\* replaced them in the index.
FindUnusedEager ==
    /\ run.pc = "add"
    /\ run' = [run EXCEPT !.pc = "unused", !.todo = {},
                          !.unused = {f \in rs : f \in Logs \/ Live(f) = {}}]
    /\ UNCHANGED <<filevars, listvars, indexvars, syncvars, mg, rd>>

\* removeUnusedTables counts the live blocks of every reader.
FindUnused ==
    /\ run.pc = "add"
    /\ run.todo = {}
    /\ run' = [run EXCEPT !.pc = "unused", !.unused = {f \in rs : Live(f) = {}}]
    /\ UNCHANGED <<filevars, listvars, indexvars, syncvars, mg, rd>>

\* Mutated form: no barrier.
RemoveUnusedBarrierNone(f) ==
    /\ run.pc = "unused"
    /\ f \in run.unused
    /\ run' = [run EXCEPT !.pc = "barrier", !.file = f]
    /\ UNCHANGED <<filevars, listvars, indexvars, syncvars, mg, rd>>

\* RemoveUnusedReader: the reads that may still use the file are waited for ...
RemoveUnusedBarrier(f) ==
    /\ run.pc = "unused"
    /\ f \in run.unused
    /\ run' = [run EXCEPT !.pc = "barrier", !.file = f, !.waitR = ActiveReads]
    /\ UNCHANGED <<filevars, listvars, indexvars, syncvars, mg, rd>>

\* ... and RemoveTable frees its index value.
RemoveTable ==
    /\ run.pc = "barrier"
    /\ run.waitR = {}
    /\ rs' = rs \ {run.file}
    /\ valueMap' = [valueMap EXCEPT ![IvOf(run.file)] = NoFile]
    /\ run' = [run EXCEPT !.pc = "unused", !.unused = @ \ {run.file},
                          !.removed = @ \cup {run.file}]
    /\ UNCHANGED <<rangeMap, filevars, listvars, syncvars, mg, rd>>

\* The files are closed once all are out of the index and the metadata is saved.
CloseFile(f) ==
    /\ run.pc = "unused"
    /\ run.unused = {}
    /\ f \in run.removed
    /\ opened' = opened \ {f}
    /\ run' = [run EXCEPT !.removed = @ \ {f}]
    /\ UNCHANGED <<content, active, wr, cur, listvars, indexvars, syncvars, mg, rd>>

\* CompactionState.Done
CompactionDone ==
    /\ run.pc = "unused"
    /\ run.unused = {} /\ run.removed = {}
    /\ compaction' = FALSE
    /\ asleep' = {}
    /\ run' = IdleRun
    /\ UNCHANGED <<filevars, listvars, indexvars, mg, rd>>

-----------------------------------------------------------------------------
ReadStep(c) ==
    ReadHole(c) \/ ReadData(c) \/ ReadLayer(c) \/ ReadFind(c) \/ ReadFetch(c) \/ ReadReturn(c)

MergeStep ==
    MergeCheck \/ MergeAlloc \/ (\E b \in Blocks : MergeAdd(b)) \/ MergeNext \/ MergeDrop
        \/ MergeWaited

RunStep ==
    \/ PushNewLog \/ WritesDone \/ PushReader \/ RemoveWriter \/ RemoveWriterReturn
    \/ StartCompaction
    \/ \E t \in Tables, es \in SUBSET Tables : BuildTable(t, es)
    \/ CompactAlloc \/ (\E b \in Blocks : CompactAdd(b))
    \/ FindUnused
    \/ (\E f \in Files : RemoveUnusedBarrier(f) \/ CloseFile(f))
    \/ RemoveTable
    \/ CompactionDone

RNext ==
    \/ \E b \in Blocks : WriteStart(b) \/ WriteDo(b)
    \/ \E c \in Clients, b \in Blocks : ReadStart(c, b)
    \/ \E c \in Clients : ReadStep(c)
    \/ MergeStep
    \/ \E f \in Files, bs \in SUBSET Blocks : OpenPushReader(f, bs)
    \/ \E l \in Logs : PushWriter(l)
    \/ RunStep

RSafeSpec == RInit /\ [][RNext]_rvars

\* Started calls go on and the two goroutines run; nobody has to start a call.
RSpec ==
    /\ RSafeSpec
    /\ \A b \in Blocks : WF_rvars(WriteDo(b))
    /\ \A c \in Clients : WF_rvars(ReadStep(c))
    /\ WF_rvars(MergeStep)
    /\ WF_rvars(RunStep)

-----------------------------------------------------------------------------
\* A read stays within its stack; who is waited for is a client.
FilesOK ==
    /\ content \in [Files -> [Blocks -> 0..MaxVersion]]
    /\ opened \subseteq Files
    /\ active \in Logs \cup {NoFile}
    /\ wr \in [Blocks -> Logs \cup {NoFile}]
    /\ cur \in [Blocks -> 0..MaxVersion]
ListsOK ==
    /\ writers \in Seq(Logs)
    /\ pendingReaders \in Seq(Files)
    /\ readerStack = writers \o pendingReaders
IndexOK ==
    /\ rangeMap \in [Blocks -> 0..MaxIv]
    /\ valueMap \in [1..MaxIv -> Files \cup {NoFile}]
    /\ rs \subseteq Files
SyncOK == compaction \in BOOLEAN /\ asleep \subseteq {"merge", "compact"}
WaitsOK == mg.waitR \subseteq Clients /\ run.waitR \subseteq Clients
StacksOK ==
    \A c \in Clients : /\ rd[c].stack \in Seq(Files)
                       /\ rd[c].pos \in 1..(Len(rd[c].stack) + 1)
                       /\ rd[c].pc = "read" => rd[c].pos <= Len(rd[c].stack)
                       /\ rd[c].pc = "fetch" => rd[c].br \in Files
RTypeOK == FilesOK /\ ListsOK /\ IndexOK /\ SyncOK /\ WaitsOK /\ StacksOK

\* A read returns a version at least as new as the last one written before it
\* began, and none that was not written: PushWriter comes before the swap,
\* PushReader before RemoveWriter, and a stack keeps what it captured.
ReadsFresh ==
    \A c \in Clients : rd[c].pc = "done" => rd[c].val \in rd[c].lo..cur[rd[c].b]

\* No read uses, or can still come to use, a file that removeUnusedTables has
\* closed: neither one in its stack nor one the index gave it.
NoReadOfClosed ==
    \A c \in ActiveReads :
        /\ \A i \in rd[c].pos..Len(rd[c].stack) : rd[c].stack[i] \in opened
        /\ rd[c].pc = "fetch" => rd[c].br \in opened

\* The index never leads to a value that has been freed, and so perhaps given
\* to another file, nor to a closed file; values and files are one to one.
IndexSound ==
    /\ \A b \in Blocks : rangeMap[b] # 0 => valueMap[rangeMap[b]] \in rs \cap opened
    /\ \A f \in rs : \E iv \in 1..MaxIv : \A k \in 1..MaxIv : valueMap[k] = f <=> k = iv

\* During a compaction the merge loop is not adding to the index: "This list is
\* frozen when a compaction is started" (tracker/reader.go).
IndexFrozen ==
    compaction => pendingReaders = <<>> /\ mg.pc \notin {"alloc", "add"}

\* No wakeup is lost: pending readers are merged, and a rotation and compaction
\* come to their end although reads keep starting.
NoLostWakeup ==
    /\ pendingReaders # <<>> ~> pendingReaders = <<>>
    /\ run.pc \notin {"open", "idle"} ~> run.pc = "idle"
=============================================================================
