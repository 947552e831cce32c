------------------------ MODULE BlockContents_proofs ------------------------
(***************************************************************************)
(* Proofs about what block/block_file.go reads and recovers, for any       *)
(* number of logs, blocks, writes, tables and crashes: an open device      *)
(* reads the last write of every block, and wherever a process is killed   *)
(* its files hold the last write of every block; no table is empty; what   *)
(* a Flush vouched for survives a power failure, so that the device is an  *)
(* implementation of BlockDevice; and files that are no longer needed are  *)
(* deleted.                                                                *)
(*                                                                         *)
(* CInv adds to BInv how the versions of a block lie in the files: in the  *)
(* order of the metadata and of the stack of readers, the index above all  *)
(* that has been merged, a new table equal to the index where it has       *)
(* anything.                                                               *)
(* DInv adds which files hold, after a power failure, a version that a     *)
(* Flush has promised or is about to; GInv who will delete a file that the *)
(* metadata does not name.                                                 *)
(***************************************************************************)
EXTENDS BlockFile_proofs

\* File e has version v of block b.
Has(e, b, v) ==
    IF e.type = "log" THEN \E i \in DOMAIN entries[e.name] : entries[e.name][i] = <<b, v>>
    ELSE e.type = "table" /\ v # 0 /\ tables[e.name][b] = v

\* No version in f is older than one of the same block in e.
Older(e, f) ==
    \A b \in Blocks : \A v, w \in Versions : Has(e, b, v) /\ Has(f, b, w) => v <= w

\* The process runs and is not closing.
Up == pc \notin {"down"} \cup Closing
Making == {"openSave", "openPush", "rotateSave", "rotateSwap"}
TopFiles == FileSet(writers)
LowerFiles == FileSet(pendingReaders) \cup rs
Active == LogFile(activeWriter)
JobLog == LogFile(job.log)

-----------------------------------------------------------------------------
(* The inductive invariant *)

\* The records of a block get newer along a log.
RecordsOrder ==
    \A l \in Logs : \A i, j \in DOMAIN entries[l] :
        /\ entries[l][i][2] # 0
        /\ i < j /\ entries[l][i][1] = entries[l][j][1] => entries[l][i][2] < entries[l][j][2]

\* Every change of the metadata has been saved.
MetaSaved == pc # "down" => meta = diskMeta

\* The list is ordered by age, tables first.
InOrder(files) ==
    \A e, f \in FileSet(files) : Before(files, e, f) => Older(e, f)
LogsLast(files) ==
    \A e, f \in FileSet(files) : Before(files, e, f) /\ e.type = "log" => f.type = "log"
ListOrder == InOrder(diskMeta) /\ LogsLast(diskMeta)

\* No file in use has a version newer than the one a read must return, and a
\* listed one has that.
InUse == FileSet(diskMeta) \cup (IF Up THEN TopFiles \cup LowerFiles ELSE {})
Holds(b) ==
    /\ cur[b] <= ver[b]
    /\ \A e \in InUse : \A v \in Versions : Has(e, b, v) => v <= cur[b]
    /\ cur[b] # 0 => \E e \in FileSet(diskMeta) : Has(e, b, cur[b])
ListHolds == \A b \in Blocks : Holds(b)

\* Clients are served when there is an active log; PushNewLog waits in one
\* place.
Calls ==
    /\ Serving => activeWriter # NoLog
    /\ ~Serving => \A b \in Blocks : wr[b].pc = "idle"
    /\ push.pc = "wait" <=> pc = "rotateWait"
    /\ push.pc = "wait" => push.old = job.log

\* The logs that are written are the newest of the list.
Newest(e, newer) ==
    /\ e \in FileSet(diskMeta)
    /\ \A f \in FileSet(diskMeta) : f # e /\ f \notin newer => Before(diskMeta, f, e)
ListEnd ==
    /\ Serving /\ pc # "rotateSwap" => Newest(Active, {})
    /\ pc \in {"openPush", "rotateSwap"} => Newest(JobLog, {})
    /\ pc = "rotateSwap" => Newest(Active, {JobLog})
    /\ pc \in {"rotateWait", "rotatePush"} => Newest(JobLog, {Active})

\* A log that has been made and not pushed is empty and nobody's.
NewLog ==
    pc \in Making =>
        /\ entries[job.log] = <<>>
        /\ job.log \notin Pending \cup {activeWriter}
        /\ JobLog \notin LowerFiles

\* The logs on top of the stack.
WritersShape ==
    /\ pc \in {"down"} \cup Opening => writers = <<>>
    /\ pc \in {"rotateSave", "rotateSwap"} => writers = <<JobLog, Active>>
    /\ pc \in {"rotateWait", "rotatePush"} => writers = <<Active, JobLog>> /\ Active # JobLog
    /\ Serving /\ pc \notin Rotating => writers = <<Active>>

\* The stack and the index have the files of the list, but for a new one.
Members ==
    Up => /\ TopFiles \cap LowerFiles = {}
          /\ TopFiles \cup LowerFiles \subseteq FileSet(diskMeta)
                \cup (IF pc = "rotateSave" THEN {JobLog}
                      ELSE IF pc \in {"removing", "commit"} THEN {TableFile(job.table)}
                      ELSE {})
          /\ pc \in {"removing", "commit"} => TableFile(job.table) \in rs
          /\ FileSet(diskMeta) \subseteq TopFiles \cup LowerFiles
                \cup (IF pc = "openPush" THEN {JobLog} ELSE {})

\* The tracker knows the logs of the list, but for a new one and for those that
\* are being compacted away.
LogMembers ==
    Up => /\ \A l \in Pending : LogFile(l) \in FileSet(diskMeta)
          /\ pc \notin {"removing", "commit"} =>
                \A l \in Logs : LogFile(l) \in FileSet(diskMeta) =>
                    \/ l \in Pending \cup {activeWriter}
                    \/ pc \in {"openPush", "rotateSwap"} /\ l = job.log
          /\ pc \in {"removing", "commit"} =>
                /\ pendingWriters = <<>>
                /\ JobLog \in FileSet(diskMeta)
                /\ job.log # activeWriter

\* The readers that are not indexed yet are stacked in the order of the list,
\* newest first, over those that are; the pending logs are in its order.
StackOrder ==
    Up => /\ \A i, j \in DOMAIN pendingReaders :
                i < j => Before(diskMeta, pendingReaders[j], pendingReaders[i])
          /\ \A e \in rs, f \in FileSet(pendingReaders) : Before(diskMeta, e, f)
          /\ \A i, j \in DOMAIN pendingWriters :
                i < j => Before(diskMeta, LogFile(pendingWriters[i]), LogFile(pendingWriters[j]))

\* The index has the newest version among the files that it covers.
IndexTop ==
    Up => \A b \in Blocks :
             /\ index[b] # NoFile => Content(index[b], b) # 0
             /\ \A e \in rs : \A v \in Versions : Has(e, b, v) => v <= Content(index[b], b)

\* The new table has what the index has, and every block of the logs that it
\* replaces.
NewTable ==
    pc \in {"install", "removing", "commit"} =>
        /\ \A b \in Blocks : tables[job.table][b] # 0 =>
              /\ tables[job.table][b] = Content(index[b], b)
              /\ pc # "install" => index[b] = TableFile(job.table)
        /\ \A l \in Logs : LogFile(l) \in FileSet(diskMeta) /\ l # activeWriter =>
              \A b \in Blocks : \A v \in Versions :
                  Has(LogFile(l), b, v) => tables[job.table][b] # 0
        /\ Older(TableFile(job.table), Active)

\* A write that still goes to the old log has none after it in the new one.
LateWrites ==
    \A b \in Blocks : (pc = "rotateWait" /\ wr[b].pc = "write" /\ wr[b].log = job.log) =>
        \A v \in Versions : ~ Has(Active, b, v)

CInv ==
    /\ BInv
    /\ RecordsOrder
    /\ MetaSaved
    /\ ListOrder
    /\ ListHolds
    /\ Calls
    /\ ListEnd
    /\ NewLog
    /\ WritersShape
    /\ Members
    /\ LogMembers
    /\ StackOrder
    /\ IndexTop
    /\ NewTable
    /\ LateWrites

\* The abbreviations of the frame conditions.
USE DEF logvars, callvars, waitvars, diskvars, readvars, ctlvars, histvars

-----------------------------------------------------------------------------
(* What a step leaves alone of the tracker, and how the phases follow *)

TrackerMoves ==
    /\ UNCHANGED activeWriter \/ OpenPush \/ RotateSwap \/ BCloseStart \/ ForgetMemory
    /\ \/ UNCHANGED pendingWriters
       \/ OpenLoad \/ RotateSwap \/ Install \/ BCloseStart \/ ForgetMemory
    /\ \/ push'.pc = push.pc /\ push'.old = push.old
       \/ RotateSwap \/ RotateWait \/ ForgetMemory
    /\ UNCHANGED ver \/ AWrite
    /\ \A x \in Blocks : wr'[x].pc # "idle" =>
          \/ wr[x].pc # "idle" /\ (wr'[x].pc = "write" => wr'[x] = wr[x])
          \/ Serving /\ pc' = pc /\ wr'[x].log = activeWriter

LEMMA TrackerFrame ==
    ASSUME WTypeOK, [BNext]_vars
    PROVE  TrackerMoves
<1> USE DEF TrackerMoves, AWrite, WTypeOK, IdleWrite
<1>1. ASSUME OpenLoad PROVE TrackerMoves
  BY <1>1 DEF OpenLoad, wvars
<1>2. ASSUME OpenMakeLog PROVE TrackerMoves
  BY <1>2 DEF OpenMakeLog, MakeLogWriter, RunnerIdle, wvars
<1>3. ASSUME OpenSave PROVE TrackerMoves
  BY <1>3 DEF OpenSave, wvars
<1>4. ASSUME OpenPush PROVE TrackerMoves
  BY <1>4 DEF OpenPush, PushFirstLog, NewWriter, wvars
<1>5. ASSUME NEW b \in Blocks, BWriteStart(b) PROVE TrackerMoves
  BY <1>5 DEF BWriteStart, WriteStart, Admitted, bfvars, wvars
<1>6. ASSUME NEW f \in Flushers, BFlushStart(f) PROVE TrackerMoves
  BY <1>6 DEF BFlushStart, FlushStart, wvars
<1>7. ASSUME NEW b \in Blocks, BWriteAppend(b) PROVE TrackerMoves
  BY <1>7 DEF BWriteAppend, WriteAppend, wvars
<1>8. ASSUME NEW b \in Blocks, BWriteCount(b) PROVE TrackerMoves
  BY <1>8 DEF BWriteCount, WriteCount, WriteLeaves, bfvars, wvars
<1>9. ASSUME NEW b \in Blocks, BWriteReturn(b) PROVE TrackerMoves
  BY <1>9 DEF BWriteReturn, WriteReturn, wvars
<1>10. ASSUME NEW f \in Flushers, BFlushReturn(f) PROVE TrackerMoves
  BY <1>10 DEF BFlushReturn, FlushReturn, FlushLeaves, wvars
<1>11. ASSUME NEW f \in Flushers, NEW l \in Logs, BFlushLog(f, l) PROVE TrackerMoves
  BY <1>11 DEF BFlushLog, FlushLog, bfvars, wvars
<1>12. ASSUME NEW l \in Logs, BCloser(l) PROVE TrackerMoves
  BY <1>12 DEF BCloser, CloserStep, CloserFreeze, CloserSync, CloserLeaves, bfvars, wvars
<1>13. ASSUME Merge PROVE TrackerMoves
  BY <1>13 DEF Merge, wvars
<1>14. ASSUME RunnerLoop PROVE TrackerMoves
  BY <1>14 DEF RunnerLoop, wvars
<1>15. ASSUME CompactWriterCheck PROVE TrackerMoves
  BY <1>15 DEF CompactWriterCheck, wvars
<1>16. ASSUME RotateMakeLog PROVE TrackerMoves
  BY <1>16 DEF RotateMakeLog, Goto, MakeLogWriter, wvars
<1>17. ASSUME RotateSave PROVE TrackerMoves
  BY <1>17 DEF RotateSave, Goto, wvars
<1>18. ASSUME RotateSwap PROVE TrackerMoves
  BY <1>18 DEF RotateSwap, Goto, PushSwap, NewWriter, wvars
<1>19. ASSUME RotateWait PROVE TrackerMoves
  BY <1>19 DEF RotateWait, Goto, PushReturn, wvars
<1>20. ASSUME RotatePush PROVE TrackerMoves
  BY <1>20 DEF RotatePush, Goto, wvars
<1>21. ASSUME StartCompaction PROVE TrackerMoves
  BY <1>21 DEF StartCompaction, Goto, wvars
<1>22. ASSUME BuildTable PROVE TrackerMoves
  BY <1>22 DEF BuildTable, Goto, wvars
<1>23. ASSUME Install PROVE TrackerMoves
  BY <1>23 DEF Install, Goto, RemoveStart, wvars
<1>24. ASSUME Removing PROVE TrackerMoves
  BY <1>24 DEF Removing, Goto, RemoveReturn, wvars
<1>25. ASSUME Commit PROVE TrackerMoves
  BY <1>25 DEF Commit, Goto, wvars
<1>26. ASSUME NEW e \in job.unused, DeleteLog(e) PROVE TrackerMoves
  BY <1>26 DEF DeleteLog, CloseRemoved, wvars
<1>27. ASSUME NEW e \in job.unused, DeleteTable(e) PROVE TrackerMoves
  BY <1>27 DEF DeleteTable, wvars
<1>28. ASSUME CompactionDone PROVE TrackerMoves
  BY <1>28 DEF CompactionDone, Goto, wvars
<1>29. ASSUME BCloseStart PROVE TrackerMoves
  BY <1>29 DEF BCloseStart, Goto, CloseStart, wvars
<1>30. ASSUME BCloseBarrier PROVE TrackerMoves
  BY <1>30 DEF BCloseBarrier, CloseBarrier, bfvars, wvars
<1>31. ASSUME BCloseReturn PROVE TrackerMoves
  BY <1>31 DEF BCloseReturn, Goto, CloseReturn, wvars
<1>32. ASSUME CloseSave PROVE TrackerMoves
  BY <1>32 DEF CloseSave, Goto, wvars
<1>33. ASSUME NEW e \in job.unused, CloseDelete(e) PROVE TrackerMoves
  BY <1>33 DEF CloseDelete, wvars
<1>34. ASSUME Exit PROVE TrackerMoves
  BY <1>34 DEF Exit, ForgetMemory, wvars
<1>35. ASSUME Kill PROVE TrackerMoves
  BY <1>35 DEF Kill, ForgetMemory, wvars
<1>36. ASSUME PowerLoss PROVE TrackerMoves
  BY <1>36 DEF PowerLoss, ForgetMemory, wvars
<1>37. ASSUME UNCHANGED vars PROVE TrackerMoves
  BY <1>37 DEF vars, bfvars, wvars
<1> HIDE DEF TrackerMoves, AWrite, WTypeOK, IdleWrite
<1> QED
  BY <1>1, <1>2, <1>3, <1>4, <1>5, <1>6, <1>7, <1>8, <1>9, <1>10, <1>11, <1>12, <1>13, <1>14,
     <1>15, <1>16, <1>17, <1>18, <1>19, <1>20, <1>21, <1>22, <1>23, <1>24, <1>25, <1>26, <1>27,
     <1>28, <1>29, <1>30, <1>31, <1>32, <1>33, <1>34, <1>35, <1>36, <1>37
  DEF BNext, OpenStep, ClientStep, CompactStep, ShutdownStep, Quiescent

PhaseMoves ==
    /\ Serving' => Serving \/ OpenPush
    /\ Serving' /\ pc' \notin Rotating =>
          (Serving /\ pc \notin Rotating) \/ OpenPush \/ RotatePush
    /\ ~Serving' => ~Serving \/ BCloseStart \/ ForgetMemory
    /\ Up' => Up \/ OpenLoad
    /\ pc' \in {"down"} \cup Opening => pc \in {"down"} \cup Opening \/ ForgetMemory
    /\ pc' = "openSave" => pc = "openSave" \/ OpenMakeLog
    /\ pc' = "rotateSave" => pc = "rotateSave" \/ RotateMakeLog
    /\ pc' = "openPush" => pc = "openPush" \/ OpenSave
    /\ pc' = "rotateSwap" => pc = "rotateSwap" \/ RotateSave
    /\ pc' = "rotateWait" => pc = "rotateWait" \/ RotateSwap
    /\ pc' = "rotatePush" => pc = "rotatePush" \/ RotateWait
    /\ pc = "rotateWait" => pc' = "rotateWait" \/ RotateWait \/ ForgetMemory
    /\ pc = "openPush" => pc' = "openPush" \/ OpenPush \/ ForgetMemory
    /\ pc = "rotateSwap" => pc' = "rotateSwap" \/ RotateSwap \/ ForgetMemory
    /\ pc = "rotateSave" => pc' = "rotateSave" \/ RotateSave \/ ForgetMemory
    /\ pc' = "install" => pc = "install" \/ BuildTable
    /\ pc' \in {"removing", "commit"} => pc \in {"removing", "commit"} \/ Install
    /\ pc \in {"removing", "commit"} => pc' \in {"removing", "commit"} \/ Commit \/ ForgetMemory

LEMMA PhaseFrame ==
    ASSUME JobType, [BNext]_vars
    PROVE  PhaseMoves
<1> USE DEF JobType, PhaseMoves, Serving, Up, Pcs, Opening, Rotating, Compacting, Closing, Admitted
<1>1. ASSUME OpenLoad PROVE PhaseMoves
  BY <1>1 DEF OpenLoad
<1>2. ASSUME OpenMakeLog PROVE PhaseMoves
  BY <1>2 DEF OpenMakeLog, MakeLogWriter, RunnerIdle
<1>3. ASSUME OpenSave PROVE PhaseMoves
  BY <1>3 DEF OpenSave
<1>4. ASSUME OpenPush PROVE PhaseMoves
  BY <1>4 DEF OpenPush, PushFirstLog, NewWriter
<1>5. ASSUME NEW b \in Blocks, BWriteStart(b) PROVE PhaseMoves
  BY <1>5 DEF BWriteStart, WriteStart, Admitted, bfvars
<1>6. ASSUME NEW f \in Flushers, BFlushStart(f) PROVE PhaseMoves
  BY <1>6 DEF BFlushStart, FlushStart
<1>7. ASSUME NEW b \in Blocks, BWriteAppend(b) PROVE PhaseMoves
  BY <1>7 DEF BWriteAppend, WriteAppend
<1>8. ASSUME NEW b \in Blocks, BWriteCount(b) PROVE PhaseMoves
  BY <1>8 DEF BWriteCount, WriteCount, WriteLeaves, bfvars
<1>9. ASSUME NEW b \in Blocks, BWriteReturn(b) PROVE PhaseMoves
  BY <1>9 DEF BWriteReturn, WriteReturn
<1>10. ASSUME NEW f \in Flushers, BFlushReturn(f) PROVE PhaseMoves
  BY <1>10 DEF BFlushReturn, FlushReturn, FlushLeaves
<1>11. ASSUME NEW f \in Flushers, NEW l \in Logs, BFlushLog(f, l) PROVE PhaseMoves
  BY <1>11 DEF BFlushLog, FlushLog, bfvars
<1>12. ASSUME NEW l \in Logs, BCloser(l) PROVE PhaseMoves
  BY <1>12 DEF BCloser, CloserStep, CloserFreeze, CloserSync, CloserLeaves, bfvars
<1>13. ASSUME Merge PROVE PhaseMoves
  BY <1>13 DEF Merge
<1>14. ASSUME RunnerLoop PROVE PhaseMoves
  BY <1>14 DEF RunnerLoop
<1>15. ASSUME CompactWriterCheck PROVE PhaseMoves
  BY <1>15 DEF CompactWriterCheck
<1>16. ASSUME RotateMakeLog PROVE PhaseMoves
  BY <1>16 DEF RotateMakeLog, Goto, MakeLogWriter
<1>17. ASSUME RotateSave PROVE PhaseMoves
  BY <1>17 DEF RotateSave, Goto
<1>18. ASSUME RotateSwap PROVE PhaseMoves
  BY <1>18 DEF RotateSwap, Goto, PushSwap, NewWriter
<1>19. ASSUME RotateWait PROVE PhaseMoves
  BY <1>19 DEF RotateWait, Goto, PushReturn
<1>20. ASSUME RotatePush PROVE PhaseMoves
  BY <1>20 DEF RotatePush, Goto
<1>21. ASSUME StartCompaction PROVE PhaseMoves
  BY <1>21 DEF StartCompaction, Goto
<1>22. ASSUME BuildTable PROVE PhaseMoves
  BY <1>22 DEF BuildTable, Goto
<1>23. ASSUME Install PROVE PhaseMoves
  BY <1>23 DEF Install, Goto, RemoveStart
<1>24. ASSUME Removing PROVE PhaseMoves
  BY <1>24 DEF Removing, Goto, RemoveReturn
<1>25. ASSUME Commit PROVE PhaseMoves
  BY <1>25 DEF Commit, Goto
<1>26. ASSUME NEW e \in job.unused, DeleteLog(e) PROVE PhaseMoves
  BY <1>26 DEF DeleteLog, CloseRemoved
<1>27. ASSUME NEW e \in job.unused, DeleteTable(e) PROVE PhaseMoves
  BY <1>27 DEF DeleteTable
<1>28. ASSUME CompactionDone PROVE PhaseMoves
  BY <1>28 DEF CompactionDone, Goto
<1>29. ASSUME BCloseStart PROVE PhaseMoves
  BY <1>29 DEF BCloseStart, Goto, CloseStart
<1>30. ASSUME BCloseBarrier PROVE PhaseMoves
  BY <1>30 DEF BCloseBarrier, CloseBarrier, bfvars
<1>31. ASSUME BCloseReturn PROVE PhaseMoves
  BY <1>31 DEF BCloseReturn, Goto, CloseReturn
<1>32. ASSUME CloseSave PROVE PhaseMoves
  BY <1>32 DEF CloseSave, Goto
<1>33. ASSUME NEW e \in job.unused, CloseDelete(e) PROVE PhaseMoves
  BY <1>33 DEF CloseDelete
<1>34. ASSUME Exit PROVE PhaseMoves
  BY <1>34 DEF Exit, ForgetMemory
<1>35. ASSUME Kill PROVE PhaseMoves
  BY <1>35 DEF Kill, ForgetMemory
<1>36. ASSUME PowerLoss PROVE PhaseMoves
  BY <1>36 DEF PowerLoss, ForgetMemory
<1>37. ASSUME UNCHANGED vars PROVE PhaseMoves
  BY <1>37 DEF vars, bfvars
<1> HIDE DEF JobType, PhaseMoves, Serving, Up, Pcs, Opening, Rotating, Compacting, Closing,
             Admitted
<1> QED
  BY <1>1, <1>2, <1>3, <1>4, <1>5, <1>6, <1>7, <1>8, <1>9, <1>10, <1>11, <1>12, <1>13, <1>14,
     <1>15, <1>16, <1>17, <1>18, <1>19, <1>20, <1>21, <1>22, <1>23, <1>24, <1>25, <1>26, <1>27,
     <1>28, <1>29, <1>30, <1>31, <1>32, <1>33, <1>34, <1>35, <1>36, <1>37
  DEF BNext, OpenStep, ClientStep, CompactStep, ShutdownStep, Quiescent

-----------------------------------------------------------------------------
(* Contents *)

\* The invariant's facts about the types of contents.
ContentFacts == WTypeOK /\ ContentsType /\ RecordsOrder

\* What a log, cut after n records, gives for a block is the newest version of
\* it among them.
LEMMA LogContentIs ==
    ASSUME ContentFacts, NEW l \in Logs, NEW n \in 0..Len(entries[l]), NEW b \in Blocks
    PROVE  /\ LogContent(entries, l, n, b) \in Versions
           /\ LogContent(entries, l, n, b) # 0 =>
                 \E i \in 1..n : entries[l][i] = <<b, LogContent(entries, l, n, b)>>
           /\ \A i \in 1..n : \A v \in Versions :
                 entries[l][i] = <<b, v>> => v <= LogContent(entries, l, n, b) /\ v # 0
<1> USE DEF ContentFacts
<1> DEFINE r == LogContent(entries, l, n, b)
<1>1. Len(entries[l]) \in Nat /\ DOMAIN entries[l] = 1..Len(entries[l])
  BY DEF WTypeOK
<1>2. n \in Nat /\ \A i \in 1..n : i \in DOMAIN entries[l]
  BY <1>1
<1>3. \A i \in 1..n : /\ entries[l][i] \in Blocks \X Versions
                      /\ entries[l][i][2] \in Versions
                      /\ entries[l][i][2] # 0
                      /\ entries[l][i] = <<entries[l][i][1], entries[l][i][2]>>
  BY <1>2 DEF ContentsType, RecordsOrder
<1>4. r \in Versions
  BY LogContentType
<1>5. CASE ~ \E i \in 1..n : entries[l][i][1] = b
  <2>1. r = 0
    BY <1>5 DEF LogContent
  <2> HIDE DEF r
  <2> QED
    BY <1>4, <1>5, <2>1 DEF r
<1>6. CASE \E i \in 1..n : entries[l][i][1] = b
  <2> DEFINE T == {i \in 1..n : entries[l][i][1] = b}
             P(i) == /\ entries[l][i][1] = b
                     /\ \A j \in (i + 1)..n : entries[l][j][1] # b
  <2>1. \E i \in 1..n : P(i)
    <3>1. T \in SUBSET (1..n) /\ T # {}
      BY <1>6
    <3> HIDE DEF T
    <3>2. PICK i \in T : \A j \in (i + 1)..n : j \notin T
      BY <1>2, <3>1, LastPosition
    <3>3. \A j \in (i + 1)..n : j \in 1..n
      BY <1>2, <3>1, <3>2
    <3> QED
      BY <3>1, <3>2, <3>3 DEF T
  <2> DEFINE k == CHOOSE i \in 1..n : P(i)
  <2>2. k \in 1..n /\ P(k)
    <3> HIDE DEF P
    <3> QED
      BY <2>1
  <2>3. r = entries[l][k][2]
    BY <1>6 DEF LogContent
  <2> HIDE DEF k, r
  <2>4. entries[l][k] = <<b, r>> /\ r # 0
    BY <1>3, <2>2, <2>3
  <2>5. ASSUME NEW i \in 1..n, NEW v \in Versions, entries[l][i] = <<b, v>>
        PROVE  v <= r /\ v # 0
    <3>1. entries[l][i][1] = b /\ entries[l][i][2] = v
      BY <2>5
    <3>2. v # 0
      BY <1>3, <3>1
    <3>3. i = k \/ i < k
      <4>1. ~ (i \in (k + 1)..n)
        BY <2>2, <3>1
      <4> QED
        BY <1>2, <2>2, <4>1
    <3>4. i < k => v < r
      BY <1>2, <2>2, <2>3, <3>1 DEF RecordsOrder
    <3>5. i = k => v = r
      BY <2>3, <3>1
    <3>6. v \in Nat /\ r \in Nat
      BY <1>4 DEF Versions
    <3> QED
      BY <3>2, <3>3, <3>4, <3>5, <3>6
  <2> QED
    BY <1>4, <2>2, <2>4, <2>5 DEF r
<1> QED
  BY <1>5, <1>6

\* A file that can be read.
Readable(e) == /\ e \in DataFiles \cup {NoFile}
               /\ e.type = "table" => e.name \in DOMAIN tables

\* What a file gives for a block is the newest version that it has.
LEMMA ContentIs ==
    ASSUME ContentFacts, NEW b \in Blocks, NEW e, Readable(e)
    PROVE  /\ Content(e, b) \in Versions
           /\ Content(e, b) # 0 => Has(e, b, Content(e, b))
           /\ \A v \in Versions : Has(e, b, v) => v <= Content(e, b) /\ v # 0
<1>1. Content(e, b) \in Versions
  BY ContentType DEF ContentFacts, Readable
<1>2. CASE e.type = "log"
  <2>1. e.name \in Logs
    BY <1>2 DEF Readable, DataFiles, AllLogs, AllTables, LogFile, TableFile, NoFile
  <2>2. /\ Len(entries[e.name]) \in 0..Len(entries[e.name])
        /\ DOMAIN entries[e.name] = 1..Len(entries[e.name])
    BY <2>1 DEF ContentFacts, WTypeOK
  <2>3. Content(e, b) = LogContent(entries, e.name, Len(entries[e.name]), b)
    BY <1>2 DEF Content
  <2> DEFINE n == Len(entries[e.name])
             r == LogContent(entries, e.name, n, b)
  <2>4. /\ r # 0 => \E i \in 1..n : entries[e.name][i] = <<b, r>>
        /\ \A i \in 1..n : \A v \in Versions : entries[e.name][i] = <<b, v>> => v <= r /\ v # 0
    BY <2>1, <2>2, LogContentIs
  <2>5. \A v : Has(e, b, v) <=> \E i \in 1..n : entries[e.name][i] = <<b, v>>
    BY <1>2, <2>2 DEF Has
  <2> HIDE DEF n, r
  <2>6. Content(e, b) = r
    BY <2>3 DEF n, r
  <2> QED
    BY <1>1, <2>4, <2>5, <2>6
<1>3. CASE e.type = "table"
  <2>1. Content(e, b) = tables[e.name][b]
    BY <1>3 DEF Content
  <2> QED
    BY <1>1, <1>3, <2>1 DEF Has, Versions
<1>4. CASE e.type # "log" /\ e.type # "table"
  BY <1>1, <1>4 DEF Content, Has
<1> QED
  BY <1>2, <1>3, <1>4

\* Version v of b is in file e when logs are cut after len[l] records.
Left(len, e, b, v) ==
    IF e.type = "log" THEN \E i \in 1..len[e.name] : entries[e.name][i] = <<b, v>>
    ELSE Has(e, b, v)

\* Opening the files of an ordered list gives the newest version of a block that
\* is left in them.
LEMMA RecoveredIs ==
    ASSUME BInv, RecordsOrder, InOrder(diskMeta), NEW b \in Blocks,
           NEW len, \A l \in Logs : len[l] \in 0..Len(entries[l])
    PROVE  LET r == Recovered(diskMeta, entries, len, b) IN
           /\ r \in Versions
           /\ r # 0 => \E e \in FileSet(diskMeta) : Left(len, e, b, r)
           /\ \A e \in FileSet(diskMeta) : \A v \in Versions : Left(len, e, b, v) => v <= r
<1> DEFINE At(e) == IF e.type = "log" THEN LogContent(entries, e.name, len[e.name], b)
                    ELSE tables[e.name][b]
           P(i) == /\ At(diskMeta[i]) # 0
                   /\ \A j \in (i + 1)..Len(diskMeta) : At(diskMeta[j]) = 0
           n == Len(diskMeta)
           r == Recovered(diskMeta, entries, len, b)
<1>1. n \in Nat /\ DOMAIN diskMeta = 1..n
  BY DEF BInv, ListsType
<1>2. ContentFacts
  BY DEF ContentFacts, BInv, WInv
<1>3. ASSUME NEW i \in 1..n
      PROVE  /\ At(diskMeta[i]) \in Versions
             /\ At(diskMeta[i]) # 0 => Left(len, diskMeta[i], b, At(diskMeta[i]))
             /\ \A v \in Versions : Left(len, diskMeta[i], b, v) =>
                   v <= At(diskMeta[i]) /\ v # 0 /\ Has(diskMeta[i], b, v)
  <2> DEFINE e == diskMeta[i]
  <2>1. e \in DataFiles /\ Exists(e)
    BY <1>1, FilesTyped DEF BInv, FilesExist, Listed, FileSet
  <2> HIDE DEF e
  <2>2. CASE e.type = "log"
    <3>1. e.name \in Logs
      BY <2>1, <2>2 DEF DataFiles, AllLogs, AllTables, LogFile, TableFile
    <3>2. \A j \in 1..len[e.name] : j \in DOMAIN entries[e.name]
      <4>1. /\ len[e.name] \in 0..Len(entries[e.name])
            /\ Len(entries[e.name]) \in Nat
            /\ DOMAIN entries[e.name] = 1..Len(entries[e.name])
        BY <1>2, <3>1 DEF ContentFacts, WTypeOK
      <4> QED
        BY <4>1
    <3>3. At(e) = LogContent(entries, e.name, len[e.name], b)
      BY <2>2
    <3>4. \A v : Left(len, e, b, v) <=> \E j \in 1..len[e.name] : entries[e.name][j] = <<b, v>>
      BY <2>2 DEF Left
    <3>5. \A v : Left(len, e, b, v) => Has(e, b, v)
      BY <2>2, <3>2, <3>4 DEF Has
    <3> HIDE DEF At
    <3>6. /\ At(e) \in Versions
          /\ At(e) # 0 => Left(len, e, b, At(e))
          /\ \A v \in Versions : Left(len, e, b, v) => v <= At(e) /\ v # 0
      <4> DEFINE m == len[e.name]
                 c == LogContent(entries, e.name, m, b)
      <4>1. /\ c \in Versions
            /\ c # 0 => \E j \in 1..m : entries[e.name][j] = <<b, c>>
            /\ \A j \in 1..m : \A v \in Versions :
                  entries[e.name][j] = <<b, v>> => v <= c /\ v # 0
        BY <1>2, <3>1, LogContentIs
      <4>2. \A v : Left(len, e, b, v) <=> \E j \in 1..m : entries[e.name][j] = <<b, v>>
        BY <3>4
      <4>3. At(e) = c
        BY <3>3
      <4> HIDE DEF m, c
      <4> QED
        BY <4>1, <4>2, <4>3
    <3> QED
      BY <3>5, <3>6 DEF e, At
  <2>3. CASE e.type # "log"
    <3>1. e.type = "table" /\ e.name \in DOMAIN tables
      BY <2>1, <2>3 DEF Exists, DataFiles, AllLogs, AllTables, LogFile, TableFile
    <3>2. Readable(e) /\ At(e) = Content(e, b)
      BY <2>1, <3>1 DEF Readable, Content
    <3>3. \A v : Left(len, e, b, v) <=> Has(e, b, v)
      BY <2>3 DEF Left
    <3> HIDE DEF At
    <3> QED
      BY <1>2, <3>2, <3>3, ContentIs DEF e, At
  <2> QED
    BY <2>2, <2>3
<1>4. r \in Versions
  BY RecoveredType
<1>5. CASE \E i \in DOMAIN diskMeta : At(diskMeta[i]) # 0
  <2> DEFINE T == {i \in 1..n : At(diskMeta[i]) # 0}
             k == CHOOSE i \in DOMAIN diskMeta : P(i)
  <2>1. r = At(diskMeta[k])
    BY <1>5 DEF Recovered
  <2>2. \E i \in DOMAIN diskMeta : P(i)
    <3> HIDE DEF At
    <3>1. T \in SUBSET (1..n) /\ T # {}
      BY <1>1, <1>5
    <3> HIDE DEF T
    <3>2. PICK i \in T : \A j \in (i + 1)..n : j \notin T
      BY <1>1, <3>1, LastPosition
    <3>3. i \in 1..n /\ \A j \in (i + 1)..n : j \in 1..n
      BY <1>1, <3>1, <3>2
    <3>4. At(diskMeta[i]) # 0
      BY <3>2 DEF T
    <3>5. \A j \in (i + 1)..n : At(diskMeta[j]) = 0
      BY <3>2, <3>3 DEF T
    <3> QED
      BY <1>1, <3>3, <3>4, <3>5
  <2>3. k \in DOMAIN diskMeta /\ P(k)
    <3> HIDE DEF P
    <3> QED
      BY <2>2
  <2> HIDE DEF k, At, r
  <2>4. k \in 1..n /\ r # 0
    BY <1>1, <2>1, <2>3
  <2>5. Left(len, diskMeta[k], b, r) /\ Has(diskMeta[k], b, r)
    BY <1>3, <1>4, <2>1, <2>4
  <2>6. ASSUME NEW i \in 1..n, NEW v \in Versions, Left(len, diskMeta[i], b, v)
        PROVE  v <= r
    <3>1. v <= At(diskMeta[i]) /\ v # 0 /\ Has(diskMeta[i], b, v) /\ At(diskMeta[i]) \in Versions
      BY <1>3, <2>6
    <3>2. i <= k
      <4>1. At(diskMeta[i]) # 0
        BY <3>1 DEF Versions
      <4>2. ~ (i \in (k + 1)..n)
        BY <2>3, <4>1
      <4> QED
        BY <1>1, <2>4, <4>2
    <3>3. CASE i = k
      BY <2>1, <3>1, <3>3
    <3>4. CASE i # k
      <4>1. Before(diskMeta, diskMeta[i], diskMeta[k])
        <5>1. i \in DOMAIN diskMeta /\ k \in DOMAIN diskMeta /\ i < k
          BY <1>1, <2>4, <3>2, <3>4
        <5> QED
          BY <5>1 DEF Before
      <4>2. Older(diskMeta[i], diskMeta[k])
        BY <1>1, <2>4, <4>1 DEF InOrder, FileSet
      <4> QED
        BY <1>4, <2>5, <3>1, <4>2 DEF Older
    <3> QED
      BY <3>3, <3>4
  <2> QED
    BY <1>1, <1>4, <2>4, <2>5, <2>6 DEF FileSet, r
<1>6. CASE ~ \E i \in DOMAIN diskMeta : At(diskMeta[i]) # 0
  <2>1. r = 0
    BY <1>6 DEF Recovered
  <2> HIDE DEF r, At
  <2>2. ASSUME NEW i \in 1..n, NEW v \in Versions, Left(len, diskMeta[i], b, v)
        PROVE  FALSE
    <3>1. v <= 0 /\ v # 0
      BY <1>1, <1>3, <1>6, <2>2
    <3> QED
      BY <3>1 DEF Versions
  <2> QED
    BY <1>1, <1>4, <2>1, <2>2 DEF FileSet, r
<1> QED
  BY <1>5, <1>6

-----------------------------------------------------------------------------
(* The order of a list *)

\* A list without repetitions orders its files.
LEMMA TotalOrder ==
    ASSUME NEW files \in Seq(DataFiles), Distinct(files),
           NEW e \in FileSet(files), NEW f \in FileSet(files), e # f
    PROVE  Before(files, e, f) <=> ~ Before(files, f, e)
<1>1. DOMAIN files = 1..Len(files) /\ Len(files) \in Nat
  OBVIOUS
<1>2. PICK i \in DOMAIN files, j \in DOMAIN files : files[i] = e /\ files[j] = f
  BY DEF FileSet
<1>3. i \in Nat /\ j \in Nat /\ i # j
  BY <1>1, <1>2
<1>4. \A k, m \in DOMAIN files : /\ k \in Nat /\ m \in Nat
                                 /\ files[k] = e => k = i
                                 /\ files[k] = f => k = j
  BY <1>1, <1>2 DEF Distinct
<1>5. Before(files, e, f) <=> i < j
  BY <1>2, <1>4 DEF Before
<1>6. Before(files, f, e) <=> j < i
  BY <1>2, <1>4 DEF Before
<1> QED
  BY <1>3, <1>5, <1>6

LEMMA BeforeFiles ==
    ASSUME NEW files, NEW e, NEW f, Before(files, e, f)
    PROVE  e \in FileSet(files) /\ f \in FileSet(files)
  BY DEF Before, FileSet

\* Files that stay stay in order.
LEMMA OrderKept ==
    ASSUME NEW new \in Seq(DataFiles), NEW old \in Seq(DataFiles), Distinct(new), Distinct(old),
           FileSet(new) \subseteq FileSet(old), SameOrder(new, old),
           NEW e \in FileSet(new), NEW f \in FileSet(new), e # f
    PROVE  Before(new, e, f) <=> Before(old, e, f)
<1>1. Before(new, e, f) => Before(old, e, f)
  BY DEF SameOrder
<1>2. Before(new, f, e) => Before(old, f, e)
  BY DEF SameOrder
<1>3. Before(new, e, f) <=> ~ Before(new, f, e)
  BY TotalOrder
<1>4. Before(old, e, f) <=> ~ Before(old, f, e)
  BY TotalOrder
<1> QED
  BY <1>1, <1>2, <1>3, <1>4

\* Nothing comes before itself.
LEMMA NotBeforeItself ==
    ASSUME NEW files \in Seq(DataFiles), Distinct(files), NEW e
    PROVE  ~ Before(files, e, e)
<1> SUFFICES ASSUME NEW i \in DOMAIN files, NEW j \in DOMAIN files, i < j,
                    files[i] = e, files[j] = e
             PROVE  FALSE
  BY DEF Before
<1>1. i = j /\ i \in Nat
  BY DEF Distinct
<1> QED
  BY <1>1

\* PushWriteLog adds the newest file.
LEMMA AppendOrder ==
    ASSUME NEW files \in Seq(DataFiles), NEW e \in DataFiles
    PROVE  /\ \A f, g : Before(files, f, g) => Before(Append(files, e), f, g)
           /\ \A f \in FileSet(files) : Before(Append(files, e), f, e)
           /\ \A f, g : Before(Append(files, e), f, g) => Before(files, f, g) \/ g = e
<1> DEFINE new == Append(files, e)
           n == Len(files)
<1>1. /\ n \in Nat /\ DOMAIN files = 1..n
      /\ DOMAIN new = 1..(n + 1)
      /\ \A i \in 1..n : new[i] = files[i]
      /\ new[n + 1] = e
  OBVIOUS
<1> HIDE DEF new, n
<1>2. \A i \in 1..n : i \in 1..(n + 1) /\ n + 1 \in 1..(n + 1) /\ i < n + 1
  BY <1>1
<1>3. ASSUME NEW f, NEW g, Before(files, f, g) PROVE Before(new, f, g)
  BY <1>1, <1>2, <1>3 DEF Before
<1>4. ASSUME NEW f \in FileSet(files) PROVE Before(new, f, e)
  <2>1. PICK i \in 1..n : files[i] = f
    BY <1>1 DEF FileSet
  <2>2. new[i] = f /\ i \in DOMAIN new /\ n + 1 \in DOMAIN new /\ i < n + 1
    BY <1>1, <1>2, <2>1
  <2> QED
    BY <1>1, <2>2 DEF Before
<1>5. ASSUME NEW f, NEW g, Before(new, f, g), g # e PROVE Before(files, f, g)
  <2>1. PICK i \in 1..(n + 1), j \in 1..(n + 1) : i < j /\ new[i] = f /\ new[j] = g
    BY <1>1, <1>5 DEF Before
  <2>2. i \in 1..n /\ j \in 1..n
    BY <1>1, <1>5, <2>1
  <2> QED
    BY <1>1, <2>1, <2>2 DEF Before
<1> QED
  BY <1>3, <1>4, <1>5 DEF new

\* Opening stacks the readers in the order of the list, newest first.
LEMMA ReverseOrder ==
    ASSUME NEW files \in Seq(DataFiles),
           NEW i \in DOMAIN Reverse(files), NEW j \in DOMAIN Reverse(files), i < j
    PROVE  Before(files, Reverse(files)[j], Reverse(files)[i])
<1> DEFINE n == Len(files)
           new == Reverse(files)
<1>1. n \in Nat /\ DOMAIN files = 1..n
  OBVIOUS
<1>2. new = [k \in 1..n |-> files[(n - k) + 1]]
  BY DEF Reverse
<1> HIDE DEF new, n
<1>3. DOMAIN new = 1..n /\ \A k \in 1..n : new[k] = files[(n - k) + 1]
  BY <1>2
<1>4. i \in 1..n /\ j \in 1..n
  BY <1>3 DEF new
<1>5. (n - i) + 1 \in 1..n /\ (n - j) + 1 \in 1..n /\ (n - j) + 1 < (n - i) + 1
  BY <1>1, <1>4
<1>6. Before(files, new[j], new[i])
  BY <1>1, <1>3, <1>4, <1>5 DEF Before
<1> QED
  BY <1>6 DEF new

-----------------------------------------------------------------------------
(* The files in use *)

LEMMA FileKinds ==
    ASSUME NEW e \in DataFiles
    PROVE  \/ e.type = "log" /\ e.name \in Logs /\ e = LogFile(e.name) /\ e \in AllLogs
           \/ e.type = "table" /\ e.name \in 1..MaxSeq /\ e = TableFile(e.name)
  BY DEF DataFiles, AllLogs, AllTables, LogFile, TableFile

LEMMA LogFields ==
    /\ \A l : LogFile(l).type = "log" /\ LogFile(l).name = l
    /\ \A s : TableFile(s).type = "table" /\ TableFile(s).name = s
    /\ \A l, k : LogFile(l) = LogFile(k) => l = k
    /\ \A l, s : LogFile(l) # TableFile(s)
    /\ \A l \in Logs : LogFile(l) \in DataFiles /\ LogFile(l) \in AllLogs
    /\ NoFile.type # "log" /\ NoFile.type # "table"
<1>1. /\ \A l : LogFile(l).type = "log" /\ LogFile(l).name = l
      /\ \A s : TableFile(s).type = "table" /\ TableFile(s).name = s
      /\ NoFile.type # "log" /\ NoFile.type # "table"
  BY DEF LogFile, TableFile, NoFile
<1>2. \A l \in Logs : LogFile(l) \in DataFiles /\ LogFile(l) \in AllLogs
  BY DEF DataFiles, AllLogs
<1> QED
  BY <1>1, <1>2

\* A file in use exists.
LEMMA InUseExists ==
    ASSUME CInv, NEW e \in InUse
    PROVE  /\ e \in DataFiles
           /\ Exists(e)
           /\ Readable(e)
<1>1. ASSUME e \in FileSet(diskMeta) PROVE e \in DataFiles /\ Exists(e)
  BY <1>1, FilesTyped DEF CInv, BInv, FilesExist, Listed
<1>2. ASSUME Up, e \in TopFiles \cup LowerFiles PROVE e \in DataFiles /\ Exists(e)
  <2>1. CASE e \in FileSet(diskMeta)
    BY <1>1, <2>1
  <2>2. CASE pc = "rotateSave" /\ e = JobLog
    BY <2>2, LogFields DEF CInv, BInv, JobHeld, JobType, WithLog, Rotating, Exists, JobLog
  <2>3. CASE pc \in {"removing", "commit"} /\ e = TableFile(job.table)
    <3>1. job.table \in DOMAIN tables /\ job.table \in 1..MaxSeq
      BY <2>3 DEF CInv, BInv, JobHeld, ListsType
    <3> QED
      BY <2>3, <3>1, LogFields DEF Exists, DataFiles, AllTables
  <2> QED
    BY <1>2, <2>1, <2>2, <2>3 DEF CInv, Members
<1>3. e \in DataFiles /\ Exists(e)
  BY <1>1, <1>2 DEF InUse
<1>4. Readable(e)
  BY <1>3 DEF Readable, Exists
<1> QED
  BY <1>3, <1>4

\* What is deleted is not in use.
LEMMA UnusedGone ==
    ASSUME CInv, pc = "delete"
    PROVE  \A e \in InUse : e \in FileSet(diskMeta) /\ e \notin job.unused
<1>1. Up
  BY DEF Up, Closing
<1>2. TopFiles \cup LowerFiles \subseteq FileSet(diskMeta)
  BY <1>1 DEF CInv, Members
<1>3. job.unused \cap FileSet(diskMeta) = {}
  BY DEF CInv, BInv, JobHeld, Listed
<1> QED
  BY <1>1, <1>2, <1>3 DEF InUse

\* A log keeps its records until it is deleted, a write apart.
LEMMA SameLog ==
    ASSUME CInv, [BNext]_vars, ~AWrite, ~PowerLoss, NEW l \in Logs, l \in logFiles,
           pc = "delete" => LogFile(l) \notin job.unused
    PROVE  entries'[l] = entries[l]
<1>1. entries \in [Logs -> Seq(Blocks \X Nat)]
  BY DEF CInv, BInv, WInv, WTypeOK
<1>2. CASE AMakeLog
  <2>1. NewName \in Logs \ logFiles
    BY <1>2, FreshName DEF AMakeLog, OpenMakeLog, RotateMakeLog, CInv, BInv
  <2>2. entries' = [entries EXCEPT ![NewName] = <<>>]
    BY <1>2 DEF AMakeLog, OpenMakeLog, RotateMakeLog, MakeLogWriter
  <2> QED
    BY <1>1, <2>1, <2>2
<1>3. CASE ADeleteLog
  <2>1. PICK x \in job.unused : x.type = "log" /\ entries' = [entries EXCEPT ![x.name] = <<>>]
    BY <1>3 DEF ADeleteLog, DeleteLog, CloseRemoved
  <2>2. pc = "delete"
    BY <1>3, ActionPcs
  <2>3. x = LogFile(x.name)
    BY <2>1, FileKinds DEF CInv, BInv, JobType
  <2>4. x.name # l
    BY <2>2, <2>3
  <2> QED
    BY <1>1, <2>1, <2>4
<1> QED
  BY <1>2, <1>3, Changes DEF DiskChanges

\* A file in use stays as it is, a write apart.
LEMMA SameFile ==
    ASSUME CInv, [BNext]_vars, ~AWrite, ~PowerLoss, NEW e \in InUse
    PROVE  /\ e.type = "log" => entries'[e.name] = entries[e.name]
           /\ e.type = "table" => e.name \in DOMAIN tables' /\ tables'[e.name] = tables[e.name]
<1>1. e \in DataFiles /\ Exists(e)
  BY InUseExists
<1>2. ASSUME e.type = "log" PROVE entries'[e.name] = entries[e.name]
  <2>1. e.name \in Logs /\ e = LogFile(e.name) /\ e.name \in logFiles
    BY <1>1, <1>2, FileKinds DEF Exists
  <2> QED
    BY <2>1, SameLog, UnusedGone
<1>3. ASSUME e.type = "table"
      PROVE  e.name \in DOMAIN tables' /\ tables'[e.name] = tables[e.name]
  <2>1. e = TableFile(e.name) /\ e.name \in DOMAIN tables
    BY <1>1, <1>3, FileKinds DEF Exists
  <2>2. CASE BuildTable
    <3>1. pc = "build" /\ Up
      BY <2>2, ActionPcs DEF Up, Closing
    <3>2. e \in Listed \cup ReaderFiles
      <4>1. e \notin TopFiles
        BY <1>3, FileSetType, LogFields DEF TopFiles, CInv, BInv, ReadersType, AllLogs
      <4> QED
        BY <4>1 DEF InUse, Listed, ReaderFiles, LowerFiles
    <3>3. e.name < nextSeq
      BY <1>3, <3>1, <3>2 DEF CInv, BInv, SeqFresh
    <3>4. e.name # nextSeq
      BY <3>3, SizesAssumption DEF CInv, BInv, ListsType
    <3> QED
      BY <2>1, <2>2, <3>4 DEF BuildTable
  <2>3. CASE ADeleteTable
    <3>1. PICK x \in job.unused :
             /\ x.type = "table"
             /\ tables' = [s \in DOMAIN tables \ {x.name} |-> tables[s]]
      BY <2>3 DEF ADeleteTable, DeleteTable
    <3>2. pc = "delete"
      BY <2>3, ActionPcs
    <3>3. x = TableFile(x.name)
      BY <3>1, FileKinds DEF CInv, BInv, JobType
    <3>4. x.name # e.name
      BY <2>1, <3>2, <3>3, UnusedGone
    <3> QED
      BY <2>1, <3>1, <3>4
  <2> QED
    BY <2>1, <2>2, <2>3, Changes DEF DiskChanges
<1> QED
  BY <1>2, <1>3

\* What a log with the given records gives for a block.
LastOf(records, b) ==
    LET n == Len(records)
    IN  IF \E i \in 1..n : records[i][1] = b
        THEN records[CHOOSE i \in 1..n : /\ records[i][1] = b
                                        /\ \A j \in (i + 1)..n : records[j][1] # b][2]
        ELSE 0

LEMMA HasKept ==
    ASSUME CInv, [BNext]_vars, ~AWrite, ~PowerLoss, NEW e \in InUse
    PROVE  /\ \A b, v : Has(e, b, v)' <=> Has(e, b, v)
           /\ \A b : Content(e, b)' = Content(e, b)
<1>1. /\ e.type = "log" => entries'[e.name] = entries[e.name]
      /\ e.type = "table" => tables'[e.name] = tables[e.name]
  BY SameFile
<1>2. \A b, v : Has(e, b, v)' <=> Has(e, b, v)
  BY <1>1 DEF Has
<1>3. ASSUME NEW b PROVE Content(e, b)' = Content(e, b)
  <2>1. CASE e.type = "log"
    <3>1. /\ Content(e, b) = LastOf(entries[e.name], b)
          /\ Content(e, b)' = LastOf(entries'[e.name], b)
      BY <2>1 DEF Content, LogContent, LastOf
    <3> QED
      BY <1>1, <2>1, <3>1
  <2>2. CASE e.type = "table"
    BY <1>1, <2>2 DEF Content
  <2>3. CASE e.type # "log" /\ e.type # "table"
    BY <2>3 DEF Content
  <2> QED
    BY <2>1, <2>2, <2>3
<1> QED
  BY <1>2, <1>3

LEMMA OlderKept ==
    ASSUME CInv, [BNext]_vars, ~AWrite, ~PowerLoss, NEW e \in InUse, NEW f \in InUse
    PROVE  Older(e, f)' <=> Older(e, f)
<1>1. \A b, v : Has(e, b, v)' <=> Has(e, b, v)
  BY HasKept
<1>2. \A b, v : Has(f, b, v)' <=> Has(f, b, v)
  BY HasKept
<1> QED
  BY <1>1, <1>2 DEF Older

\* An empty log is older and newer than anything.
LEMMA EmptyLog ==
    ASSUME NEW l, entries[l] = <<>>
    PROVE  /\ \A b, v : ~ Has(LogFile(l), b, v)
           /\ \A e : Older(e, LogFile(l)) /\ Older(LogFile(l), e)
<1>1. \A b, v : ~ Has(LogFile(l), b, v)
  <2>1. DOMAIN entries[l] = {}
    OBVIOUS
  <2> QED
    BY <2>1, LogFields DEF Has
<1> QED
  BY <1>1 DEF Older

\* What the index gives for a block is in a file in use.
LEMMA IndexHas ==
    ASSUME CInv, Up, NEW b \in Blocks
    PROVE  /\ index[b] \in rs \cup {NoFile}
           /\ Readable(index[b])
           /\ Content(index[b], b) \in Versions
           /\ Content(index[b], b) # 0 =>
                 /\ index[b] \in rs
                 /\ Has(index[b], b, Content(index[b], b))
<1>1. index[b] \in rs \cup {NoFile}
  BY DEF CInv, BInv, ReadersType
<1>2. index[b] \in rs => index[b] \in InUse
  BY DEF InUse, LowerFiles
<1>3. Readable(index[b])
  BY <1>1, <1>2, InUseExists, LogFields DEF Readable
<1>4. ContentFacts
  BY DEF ContentFacts, CInv, BInv, WInv
<1>5. index[b] = NoFile => Content(index[b], b) = 0
  BY LogFields DEF Content
<1> QED
  BY <1>1, <1>3, <1>4, <1>5, ContentIs

-----------------------------------------------------------------------------
(* A write *)

LEMMA ShortLists ==
    ASSUME NEW e, NEW f
    PROVE  /\ FileSet(<<>>) = {}
           /\ FileSet(<<e>>) = {e}
           /\ FileSet(<<e, f>>) = {e, f}
<1>1. DOMAIN <<e>> = {1} /\ DOMAIN <<e, f>> = {1, 2} /\ <<e>>[1] = e
  OBVIOUS
<1>2. <<e, f>>[1] = e /\ <<e, f>>[2] = f /\ DOMAIN <<>> = {}
  OBVIOUS
<1> QED
  BY <1>1, <1>2 DEF FileSet

\* The files on top of the stack.
LEMMA TopIs ==
    ASSUME CInv
    PROVE  /\ Serving => Active \in TopFiles /\ TopFiles \subseteq {Active, JobLog}
           /\ Serving /\ pc \notin Rotating => TopFiles = {Active}
           /\ pc \in Rotating => TopFiles = {Active, JobLog}
           /\ pc \in {"down"} \cup Opening => TopFiles = {}
<1>1. /\ writers = <<>> => TopFiles = {}
      /\ writers = <<Active>> => TopFiles = {Active}
      /\ writers = <<JobLog, Active>> => TopFiles = {Active, JobLog}
      /\ writers = <<Active, JobLog>> => TopFiles = {Active, JobLog}
  <2> DEFINE e == Active
             f == JobLog
  <2> HIDE DEF e, f
  <2>1. /\ FileSet(<<>>) = {}
        /\ FileSet(<<e>>) = {e}
        /\ FileSet(<<e, f>>) = {e, f}
        /\ FileSet(<<f, e>>) = {f, e}
    BY Zenon, ShortLists
  <2>2. /\ writers = <<>> => TopFiles = {}
        /\ writers = <<e>> => TopFiles = {e}
        /\ writers = <<f, e>> => TopFiles = {f, e}
        /\ writers = <<e, f>> => TopFiles = {e, f}
    BY Zenon, <2>1 DEF TopFiles
  <2> QED
    BY <2>2 DEF e, f
<1>2. /\ pc \in Rotating => TopFiles = {Active, JobLog}
      /\ Serving /\ pc \notin Rotating => TopFiles = {Active}
      /\ pc \in {"down"} \cup Opening => TopFiles = {}
  BY <1>1 DEF CInv, WritersShape, Rotating
<1> QED
  BY <1>2

\* Version ver[b] + 1 of b is written to log k.
WriteOf(b, k) ==
    /\ wr[b].pc = "write" /\ wr[b].log = k
    /\ entries' = [entries EXCEPT ![k] = Append(@, <<b, ver[b] + 1>>)]
    /\ ver' = [ver EXCEPT ![b] = @ + 1]
    /\ cur' = [cur EXCEPT ![b] = ver[b] + 1]
    /\ wr' = [wr EXCEPT ![b].pc = "count"]
    /\ UNCHANGED <<tables, diskMeta, meta, writers, pendingReaders, index, rs, pc, job,
                   activeWriter, pendingWriters, push>>

LEMMA Written ==
    ASSUME CInv, AWrite
    PROVE  \E b \in Blocks : \E k \in Logs : WriteOf(b, k)
<1>1. PICK b \in Blocks : BWriteAppend(b)
  BY DEF AWrite
<1> DEFINE k == wr[b].log
<1>2. ver'[b] = ver[b] + 1
  BY <1>1 DEF BWriteAppend, WriteAppend, CInv, BInv, WInv, WTypeOK
<1>3. k \in Logs
  BY <1>1 DEF BWriteAppend, WriteAppend, CInv, BInv, WInv, WTypeOK
<1>4. WriteOf(b, k)
  BY <1>1, <1>2 DEF BWriteAppend, WriteAppend, WriteOf
<1> HIDE DEF k
<1> QED
  BY <1>3, <1>4

\* The write goes to the active log, or to the one that it has just replaced.
LEMMA WriteFacts ==
    ASSUME CInv, NEW b \in Blocks, NEW k \in Logs, WriteOf(b, k)
    PROVE  /\ Serving /\ Up
           /\ k = activeWriter \/ (pc = "rotateWait" /\ k = job.log)
           /\ LogFile(k) \in TopFiles
           /\ LogFile(k) \in FileSet(diskMeta)
           /\ ver[b] + 1 \in Versions /\ cur[b] <= ver[b] /\ cur[b] \in Nat /\ ver[b] \in Nat
           /\ cur'[b] = ver[b] + 1 /\ ver'[b] = ver[b] + 1
           /\ \A c \in Blocks : c # b => cur'[c] = cur[c] /\ ver'[c] = ver[c]
<1>1. Serving
  BY DEF CInv, Calls, WriteOf
<1>2. Up
  BY <1>1 DEF Serving, Up, Closing
<1>3. k = activeWriter \/ (pc = "rotateWait" /\ k = job.log)
  <2>1. b \in ActiveWrites /\ k # NoLog
    BY NoLogAssumption DEF WriteOf, ActiveWrites
  <2>2. cl.pc = "open"
    BY <1>1 DEF CInv, Calls, BInv, WInv, Phases
  <2> QED
    BY <2>1, <2>2 DEF CInv, Calls, BInv, WInv, WritesHeld, WriteOf
<1>4. LogFile(k) \in TopFiles
  BY <1>1, <1>3, TopIs DEF Active, JobLog, Rotating
<1>5. LogFile(k) \in FileSet(diskMeta)
  BY <1>1, <1>3 DEF CInv, ListEnd, Newest, Active, JobLog
<1>6. ver[b] \in Versions /\ ver[b] < MaxVersion /\ ver \in [Blocks -> 0..MaxVersion]
  BY DEF CInv, BInv, WInv, WTypeOK, WritesHeld, WriteOf, Versions
<1>7. ver[b] + 1 \in Versions /\ ver[b] \in Nat
  BY <1>6, MaxVersionAssumption DEF Versions
<1>8. cur[b] <= ver[b] /\ cur[b] \in Nat /\ cur \in [Blocks -> Versions]
  BY DEF CInv, ListHolds, Holds, BInv, ContentsType, Versions
<1> QED
  BY <1>1, <1>2, <1>3, <1>4, <1>5, <1>6, <1>7, <1>8 DEF WriteOf

\* It adds one version to one file.
LEMMA WriteHas ==
    ASSUME CInv, NEW b \in Blocks, NEW k \in Logs, WriteOf(b, k), NEW e
    PROVE  \A c, v : Has(e, c, v)' <=> \/ Has(e, c, v)
                                       \/ /\ e.type = "log" /\ e.name = k
                                          /\ c = b /\ v = ver[b] + 1
<1> DEFINE n == ver[b] + 1
           r == <<b, n>>
<1>1. entries \in [Logs -> Seq(Blocks \X Nat)] /\ r \in Blocks \X Nat
  BY WriteFacts DEF CInv, BInv, WInv, WTypeOK, Versions
<1>2. UNCHANGED tables /\ entries' = [entries EXCEPT ![k] = Append(@, r)]
  BY DEF WriteOf
<1> HIDE DEF n
<1>3. CASE e.type = "log" /\ e.name = k
  <2> DEFINE old == entries[k]
             new == entries'[k]
             m == Len(old)
  <2>1. old \in Seq(Blocks \X Nat) /\ new = Append(old, r)
    BY <1>1, <1>2
  <2> HIDE DEF old, new, r
  <2>2. /\ m \in Nat /\ DOMAIN old = 1..m
        /\ DOMAIN new = 1..(m + 1)
        /\ \A i \in 1..m : new[i] = old[i]
        /\ new[m + 1] = r
    BY <1>1, <2>1
  <2> HIDE DEF m
  <2>3. \A x : (\E i \in DOMAIN new : new[i] = x) <=> (\E i \in DOMAIN old : old[i] = x) \/ x = r
    <3>1. \A i \in 1..(m + 1) : i \in 1..m \/ i = m + 1
      BY <2>2
    <3>2. m + 1 \in 1..(m + 1) /\ \A i \in 1..m : i \in 1..(m + 1)
      BY <2>2
    <3> QED
      BY <2>2, <3>1, <3>2
  <2>4. \A c, v : /\ Has(e, c, v)' <=> \E i \in DOMAIN new : new[i] = <<c, v>>
                  /\ Has(e, c, v) <=> \E i \in DOMAIN old : old[i] = <<c, v>>
    BY <1>3 DEF Has, old, new
  <2>5. \A c, v : <<c, v>> = r <=> c = b /\ v = n
    BY DEF r
  <2> QED
    BY <1>3, <2>3, <2>4, <2>5 DEF n
<1>4. CASE e.type = "log" /\ e.name # k
  <2>1. entries'[e.name] = entries[e.name]
    BY <1>1, <1>2, <1>4
  <2> QED
    BY <1>4, <2>1 DEF Has
<1>5. CASE e.type # "log"
  BY <1>2, <1>5 DEF Has
<1> QED
  BY <1>3, <1>4, <1>5

\* The order of two files survives it, unless the newer one would have to have
\* the block as well.
LEMMA WriteOlder ==
    ASSUME CInv, NEW b \in Blocks, NEW k \in Logs, WriteOf(b, k),
           NEW e, NEW f \in DataFiles, Older(e, f),
           \A c \in Blocks : \A v \in Versions : Has(e, c, v) => v <= cur[c],
           e.type = "log" /\ e.name = k => f # LogFile(k) /\ \A v \in Versions : ~ Has(f, b, v)
    PROVE  Older(e, f)'
<1> SUFFICES ASSUME NEW c \in Blocks, NEW v \in Versions, NEW w \in Versions,
                    Has(e, c, v)', Has(f, c, w)'
             PROVE  v <= w
  BY DEF Older, Versions
<1> DEFINE n == ver[b] + 1
<1>1. cur[b] < n /\ n \in Nat /\ cur[b] \in Nat
  BY WriteFacts
<1>2. Has(e, c, v) \/ (e.type = "log" /\ e.name = k /\ c = b /\ v = n)
  BY WriteHas
<1>3. Has(f, c, w) \/ (f.type = "log" /\ f.name = k /\ c = b /\ w = n)
  BY WriteHas
<1> HIDE DEF n
<1>4. f.type = "log" /\ f.name = k => f = LogFile(k)
  BY FileKinds
<1>5. CASE Has(e, c, v) /\ Has(f, c, w)
  BY <1>5 DEF Older
<1>6. CASE e.type = "log" /\ e.name = k /\ c = b
  BY <1>3, <1>4, <1>5, <1>6, <1>2
<1>7. CASE Has(e, c, v) /\ c = b /\ w = n
  <2>1. v <= cur[b]
    BY <1>7
  <2> QED
    BY <1>1, <1>7, <2>1 DEF Versions
<1> QED
  BY <1>2, <1>3, <1>5, <1>6, <1>7

-----------------------------------------------------------------------------
(* A power failure *)

\* Each log is cut somewhere, and reads are to return what that leaves.
LEMMA Cut ==
    ASSUME CInv, PowerLoss
    PROVE  /\ UNCHANGED <<tables, diskMeta, ver>>
           /\ \E len :
                 /\ \A l \in Logs : len[l] \in 0..Len(entries[l])
                 /\ cur' = [b \in Blocks |-> Recovered(diskMeta, entries, len, b)]
                 /\ \A e \in DataFiles : \A b, v : Has(e, b, v)' <=> Left(len, e, b, v)
<1>1. UNCHANGED <<tables, diskMeta, ver>>
  BY DEF PowerLoss
<1>2. PICK len :
         /\ \A l \in Logs : len[l] \in synced[l]..Len(entries[l])
         /\ entries' = [l \in Logs |-> SubSeq(entries[l], 1, len[l])]
         /\ cur' = [b \in Blocks |-> Recovered(diskMeta, entries, len, b)]
  BY Zenon DEF PowerLoss
<1>3. /\ synced \in [Logs -> Nat]
      /\ entries \in [Logs -> Seq(Blocks \X Nat)]
  BY DEF CInv, BInv, WInv, WTypeOK
<1>4. \A l \in Logs : len[l] \in 0..Len(entries[l])
  BY <1>2, <1>3
<1>5. ASSUME NEW e \in DataFiles, NEW b, NEW v PROVE Has(e, b, v)' <=> Left(len, e, b, v)
  <2>1. CASE e.type = "log"
    <3> DEFINE l == e.name
               old == entries[l]
               new == entries'[l]
               n == len[l]
    <3>1. l \in Logs
      BY <2>1, FileKinds
    <3>2. old \in Seq(Blocks \X Nat) /\ n \in 0..Len(old) /\ new = SubSeq(old, 1, n)
      BY <1>2, <1>3, <1>4, <3>1
    <3>3. Has(e, b, v)' <=> \E i \in DOMAIN new : new[i] = <<b, v>>
      BY <2>1 DEF Has
    <3>4. Left(len, e, b, v) <=> \E i \in 1..n : old[i] = <<b, v>>
      BY <2>1 DEF Left
    <3> HIDE DEF old, new, n
    <3>5. DOMAIN new = 1..n /\ \A i \in 1..n : new[i] = old[i]
      BY <3>2
    <3> QED
      BY <3>3, <3>4, <3>5
  <2>2. CASE e.type # "log"
    BY <1>1, <2>2 DEF Has, Left
  <2> QED
    BY <2>1, <2>2
<1> QED
  BY <1>1, <1>2, <1>4, <1>5

\* Nothing is in a file that was not.
LEMMA LeftHas ==
    ASSUME CInv, NEW len, \A l \in Logs : len[l] \in 0..Len(entries[l]),
           NEW e \in DataFiles, NEW b, NEW v, Left(len, e, b, v)
    PROVE  Has(e, b, v)
<1>1. CASE e.type = "log"
  <2>1. PICK i \in 1..len[e.name] : entries[e.name][i] = <<b, v>>
    BY <1>1 DEF Left
  <2>2. e.name \in Logs
    BY <1>1, FileKinds
  <2>3. entries \in [Logs -> Seq(Blocks \X Nat)]
    BY DEF CInv, BInv, WInv, WTypeOK
  <2>4. /\ Len(entries[e.name]) \in Nat
        /\ DOMAIN entries[e.name] = 1..Len(entries[e.name])
    BY <2>2, <2>3
  <2>5. len[e.name] \in 0..Len(entries[e.name])
    BY <2>2
  <2>6. i \in DOMAIN entries[e.name]
    BY <2>4, <2>5
  <2> QED
    BY <1>1, <2>1, <2>6 DEF Has
<1>2. CASE e.type # "log"
  BY <1>2 DEF Left
<1> QED
  BY <1>1, <1>2

-----------------------------------------------------------------------------
(* What comes into use *)

\* The steps before which the process is not down.
LEMMA SavedMeta ==
    ASSUME CInv, pc # "down"
    PROVE  meta = diskMeta
  BY DEF CInv, MetaSaved

LEMMA ListMoves ==
    ASSUME CInv, [BNext]_vars, NEW e \in FileSet(diskMeta')
    PROVE  \/ e \in FileSet(diskMeta)
           \/ ASave /\ e = JobLog
           \/ Commit /\ e = TableFile(job.table) /\ e \in rs
<1>1. ASSUME ASave PROVE e \in FileSet(diskMeta) \/ e = JobLog
  <2>1. meta = diskMeta
    BY <1>1, SavedMeta, ActionPcs
  <2> QED
    BY <1>1, <2>1, SavedLists DEF CInv, JobLog
<1>2. ASSUME Commit PROVE e \in FileSet(diskMeta) \/ (e = TableFile(job.table) /\ e \in rs)
  <2>1. meta = diskMeta /\ pc = "commit" /\ Up
    BY <1>2, SavedMeta, ActionPcs DEF Up, Closing
  <2>2. TableFile(job.table) \in rs
    BY <2>1 DEF CInv, Members
  <2> QED
    BY <1>2, <2>1, <2>2, CommittedLists DEF CInv
<1>3. ASSUME CloseSave PROVE e \in FileSet(diskMeta)
  <2>1. meta = diskMeta
    BY <1>3, SavedMeta, ActionPcs
  <2> QED
    BY <1>3, <2>1, ClosedLists DEF CInv
<1> QED
  BY <1>1, <1>2, <1>3, Changes DEF DiskChanges

LEMMA TopMoves ==
    ASSUME CInv, [BNext]_vars, Up', NEW e \in TopFiles'
    PROVE  \/ Up /\ e \in TopFiles
           \/ OpenPush /\ e = JobLog
           \/ RotateMakeLog /\ e = LogFile(NewName)
<1>1. MemoryChanges
  BY Changes
<1>2. ~ ForgetMemory
  BY ActionPcs DEF Up
<1>3. ASSUME OpenLoad PROVE FALSE
  <2>1. UNCHANGED writers /\ pc = "down"
    BY <1>3 DEF OpenLoad
  <2>2. TopFiles' = TopFiles
    BY <2>1 DEF TopFiles
  <2> QED
    BY <2>1, <2>2, TopIs
<1>4. Up
  BY <1>3, PhaseFrame DEF PhaseMoves, CInv, BInv
<1>5. ASSUME OpenPush PROVE e = JobLog
  <2>1. writers' = <<JobLog>>
    BY <1>5 DEF OpenPush, JobLog
  <2>2. FileSet(writers') = {JobLog}
    BY <2>1, ShortLists
  <2> QED
    BY <2>2 DEF TopFiles
<1>6. ASSUME RotateMakeLog PROVE e \in TopFiles \/ e = LogFile(NewName)
  <2>1. NewName \in Logs /\ writers' = <<LogFile(NewName)>> \o writers
    BY <1>6, FreshName DEF RotateMakeLog, CInv, BInv
  <2> QED
    BY <2>1, LogFields, PrependFile DEF TopFiles, CInv, BInv, ReadersType
<1>7. ASSUME RotatePush PROVE e \in TopFiles
  BY <1>7, RemoveFile DEF RotatePush, TopFiles, CInv, BInv, ReadersType
<1>8. ASSUME UNCHANGED writers PROVE e \in TopFiles
  BY <1>8 DEF TopFiles
<1> QED
  BY <1>1, <1>2, <1>4, <1>5, <1>6, <1>7, <1>8 DEF MemoryChanges

LEMMA PushedReader ==
    ASSUME CInv, RotatePush
    PROVE  /\ FileSet(pendingReaders') = FileSet(pendingReaders) \cup {JobLog}
           /\ JobLog \in TopFiles
           /\ JobLog \in FileSet(diskMeta)
           /\ Up
           /\ pc = "rotatePush" /\ pc' = "start"
           /\ UNCHANGED <<diskMeta, rs, activeWriter>>
<1>1. pc = "rotatePush" /\ pc' = "start" /\ Up /\ UNCHANGED <<diskMeta, rs, activeWriter>>
  BY DEF RotatePush, Goto, Up, Closing, wvars
<1>2. JobLog \in TopFiles
  BY <1>1, TopIs DEF Rotating
<1>3. JobLog \in FileSet(diskMeta)
  BY <1>1 DEF CInv, ListEnd, Newest
<1>4. JobLog \in DataFiles /\ pendingReaders' = <<JobLog>> \o pendingReaders
  BY <1>1, LogFields DEF RotatePush, CInv, BInv, JobType, WithLog, Rotating, JobLog
<1> QED
  BY <1>1, <1>2, <1>3, <1>4, PrependFile DEF CInv, BInv, ReadersType

LEMMA LowerMoves ==
    ASSUME CInv, [BNext]_vars, Up', NEW e \in LowerFiles'
    PROVE  \/ Up /\ e \in LowerFiles
           \/ OpenLoad /\ e \in FileSet(diskMeta)
           \/ RotatePush /\ e = JobLog
           \/ Install /\ e = TableFile(job.table)
<1>1. MemoryChanges
  BY Changes
<1>2. ~ ForgetMemory
  BY ActionPcs DEF Up
<1>3. ASSUME OpenLoad PROVE e \in FileSet(diskMeta)
  <2>1. pc = "down" /\ UNCHANGED rs /\ pendingReaders' = Reverse(diskMeta)
    BY <1>3 DEF OpenLoad
  <2>2. rs' = {}
    BY <2>1 DEF CInv, BInv, DownEmpty
  <2> QED
    BY <2>1, <2>2, ReverseFiles DEF LowerFiles, CInv, BInv, ListsType
<1>4. Up \/ OpenLoad
  BY PhaseFrame DEF PhaseMoves, CInv, BInv
<1>5. CASE ~ OpenLoad
  <2>1. ASSUME RotatePush PROVE e \in LowerFiles \/ e = JobLog
    BY <2>1, PushedReader DEF LowerFiles
  <2>2. ASSUME Merge PROVE e \in LowerFiles
    BY <2>2, ShortLists DEF Merge, LowerFiles
  <2>3. ASSUME Install PROVE e \in LowerFiles \/ e = TableFile(job.table)
    BY <2>3 DEF Install, LowerFiles
  <2>4. ASSUME Commit PROVE e \in LowerFiles
    BY <2>4 DEF Commit, LowerFiles
  <2>5. ASSUME UNCHANGED <<rs, pendingReaders>> PROVE e \in LowerFiles
    BY <2>5 DEF LowerFiles
  <2> QED
    BY <1>1, <1>2, <1>4, <1>5, <2>1, <2>2, <2>3, <2>4, <2>5 DEF MemoryChanges
<1> QED
  BY <1>3, <1>4, <1>5

\* A new log and a new table are all that comes into use.
LEMMA InUseMoves ==
    ASSUME CInv, [BNext]_vars, NEW e \in InUse'
    PROVE  \/ e \in InUse
           \/ ASave /\ e = JobLog
           \/ RotateMakeLog /\ e = LogFile(NewName)
           \/ Install /\ e = TableFile(job.table)
<1>1. CASE e \in FileSet(diskMeta')
  BY <1>1, ListMoves, ActionPcs DEF InUse, Up, Closing, LowerFiles
<1>2. CASE Up' /\ e \in TopFiles'
  <2>1. OpenPush => JobLog \in FileSet(diskMeta)
    BY DEF OpenPush, CInv, ListEnd, Newest
  <2> QED
    BY <1>2, <2>1, TopMoves DEF InUse
<1>3. CASE Up' /\ e \in LowerFiles'
  BY <1>3, LowerMoves, PushedReader DEF InUse
<1> QED
  BY <1>1, <1>2, <1>3 DEF InUse

\* The new table has what the index has.
LEMMA TableHas ==
    ASSUME CInv, pc \in {"install", "removing", "commit"},
           NEW b \in Blocks, NEW v \in Versions, Has(TableFile(job.table), b, v)
    PROVE  /\ Up
           /\ v = Content(index[b], b) /\ v # 0
           /\ index[b] \in rs /\ Has(index[b], b, v)
           /\ index[b] \in InUse
<1>1. Up
  BY DEF Up, Closing
<1>2. v # 0 /\ tables[job.table][b] = v
  BY LogFields DEF Has
<1>3. v = Content(index[b], b)
  BY <1>2 DEF CInv, NewTable
<1>4. index[b] \in rs /\ Has(index[b], b, v)
  BY <1>1, <1>2, <1>3, IndexHas
<1> QED
  BY <1>1, <1>2, <1>3, <1>4 DEF InUse, LowerFiles

\* No version comes into use but by a write.
LEMMA HasMoves ==
    ASSUME CInv, [BNext]_vars, ~AWrite, ~PowerLoss, NEW e \in InUse',
           NEW b \in Blocks, NEW v \in Versions, Has(e, b, v)'
    PROVE  \E f \in InUse : Has(f, b, v)
<1>1. CASE e \in InUse
  BY <1>1, HasKept
<1>2. ASSUME ASave, e = JobLog PROVE FALSE
  <2>1. UNCHANGED entries /\ pc \in Making
    BY <1>2 DEF ASave, OpenSave, RotateSave, Goto, Making, wvars
  <2>2. entries[job.log] = <<>>
    BY <2>1 DEF CInv, NewLog
  <2>3. ~ Has(JobLog, b, v)
    BY <2>2, EmptyLog DEF JobLog
  <2> QED
    BY <1>2, <2>1, <2>3, LogFields DEF Has, JobLog
<1>3. ASSUME RotateMakeLog, e = LogFile(NewName) PROVE FALSE
  <2>1. NewName \in Logs /\ entries' = [entries EXCEPT ![NewName] = <<>>]
    BY <1>3, FreshName DEF RotateMakeLog, MakeLogWriter, CInv, BInv
  <2>2. entries'[NewName] = <<>>
    BY <2>1 DEF CInv, BInv, WInv, WTypeOK
  <2>3. DOMAIN entries'[NewName] = {}
    BY <2>2
  <2> QED
    BY <1>3, <2>3, LogFields DEF Has
<1>4. CASE Install /\ e = TableFile(job.table)
  <2>1. UNCHANGED tables /\ pc = "install"
    BY <1>4 DEF Install, Goto
  <2>2. Has(TableFile(job.table), b, v)
    BY <1>4, <2>1, LogFields DEF Has
  <2> QED
    BY <2>1, <2>2, TableHas
<1> QED
  BY <1>1, <1>2, <1>3, <1>4, InUseMoves

-----------------------------------------------------------------------------
(* The edits of the list *)

\* Where a file was in the list before the table took the place of the log.
Was(e, l, s) == IF e = TableFile(s) THEN LogFile(l) ELSE e

LEMMA CompactOrder ==
    ASSUME NEW files \in Seq(DataFiles), NEW l \in Logs, NEW s \in 1..MaxSeq,
           LogFile(l) \in FileSet(files), TableFile(s) \notin FileSet(files)
    PROVE  LET new == CompactWriteLog(files, l, s) IN
           /\ FileSet(new) = (FileSet(files) \ {LogFile(l)}) \cup {TableFile(s)}
           /\ \A e, f : Before(new, e, f) => Before(files, Was(e, l, s), Was(f, l, s))
<1> DEFINE new == CompactWriteLog(files, l, s)
           t == TableFile(s)
           k == LogFile(l)
<1>1. /\ DOMAIN new = DOMAIN files
      /\ \A i \in DOMAIN files : new[i] = IF files[i] = k THEN t ELSE files[i]
  BY DEF CompactWriteLog
<1>2. k # t
  BY LogFields
<1>3. \A i \in DOMAIN files : files[i] \in FileSet(files)
  BY DEF FileSet
<1> HIDE DEF new, t, k
<1>4. FileSet(new) = (FileSet(files) \ {k}) \cup {t}
  <2>1. PICK p \in DOMAIN files : files[p] = k
    BY DEF FileSet, k
  <2>2. new[p] = t
    BY <1>1, <2>1
  <2>3. \A i \in DOMAIN new : new[i] = t \/ (new[i] = files[i] /\ files[i] # k)
    BY <1>1
  <2>4. \A i \in DOMAIN files : files[i] # k => new[i] = files[i]
    BY <1>1
  <2> QED
    BY <1>1, <1>2, <2>1, <2>2, <2>3, <2>4 DEF FileSet
<1>5. \A i \in DOMAIN files : Was(new[i], l, s) = files[i]
  BY <1>1, <1>3 DEF Was, t, k
<1>6. ASSUME NEW e, NEW f, Before(new, e, f) PROVE Before(files, Was(e, l, s), Was(f, l, s))
  BY <1>1, <1>5, <1>6 DEF Before
<1> QED
  BY <1>4, <1>6 DEF new, t, k

LEMMA RemoveNone ==
    ASSUME NEW files
    PROVE  RemoveAll(files, {}) = files
<1> DEFINE g == CHOOSE g : Dropped(files, {}, g)
           h == [s \in SUBSET {} |-> files]
<1>1. Dropped(files, {}, h)
  <2>1. \A s \in SUBSET {} : s = {}
    OBVIOUS
  <2> QED
    BY <2>1 DEF Dropped, DropPicked
<1>2. Dropped(files, {}, g)
  BY Zenon, <1>1
<1>3. RemoveAll(files, {}) = g[{}]
  BY RemoveAllUnfold
<1> HIDE DEF g
<1>4. g[{}] = DropPicked(files, {}, g)
  BY <1>2 DEF Dropped
<1> QED
  BY <1>3, <1>4 DEF DropPicked

\* When the table is in the index, it has taken the place of every log but the
\* active one.
LEMMA LogsUnused ==
    ASSUME CInv, pc = "commit"
    PROVE  /\ Up /\ Serving
           /\ TopFiles = {Active}
           /\ LowerFiles = rs
           /\ \A l \in Logs : LogFile(l) \in FileSet(diskMeta) /\ l # activeWriter =>
                 LogFile(l) \in Unused
           /\ job.log \in Logs /\ JobLog \in FileSet(diskMeta) /\ JobLog \in Unused
<1>1. Up /\ Serving /\ pc \notin Rotating
  BY DEF Up, Closing, Serving, Rotating
<1>2. TopFiles = {Active}
  BY <1>1, TopIs
<1>3. LowerFiles = rs
  <2>1. pendingReaders = <<>>
    BY DEF CInv, BInv, ReadersType, Compacting
  <2> QED
    BY <2>1, ShortLists DEF LowerFiles
<1>4. ASSUME NEW l \in Logs, LogFile(l) \in FileSet(diskMeta), l # activeWriter
      PROVE  LogFile(l) \in Unused
  <2>1. LogFile(l) \in rs
    BY <1>1, <1>2, <1>3, <1>4, LogFields DEF CInv, Members, Active
  <2>2. ASSUME NEW b \in Blocks, index[b] = LogFile(l) PROVE FALSE
    <3>1. Content(index[b], b) # 0
      BY <1>1, <2>2, LogFields DEF CInv, IndexTop
    <3>2. Has(LogFile(l), b, Content(index[b], b)) /\ Content(index[b], b) \in Versions
      BY <1>1, <2>2, <3>1, IndexHas
    <3>3. index[b] = TableFile(job.table)
      BY <1>4, <3>2 DEF CInv, NewTable
    <3> QED
      BY <2>2, <3>3, LogFields
  <2>3. {b \in Blocks : index[b] = LogFile(l)} = {}
    BY <2>2
  <2>4. Live(LogFile(l)) = 0
    BY <2>3, FS_EmptySet DEF Live
  <2> QED
    BY <2>1, <2>4 DEF Unused
<1>5. job.log \in Logs /\ JobLog \in FileSet(diskMeta) /\ job.log # activeWriter
  <2>1. JobLog \in FileSet(diskMeta) /\ job.log # activeWriter
    BY <1>1 DEF CInv, LogMembers
  <2>2. JobLog \in DataFiles
    BY <2>1, FilesTyped DEF CInv, Listed
  <2> QED
    BY <2>1, <2>2, FileKinds, LogFields DEF JobLog
<1> QED
  BY <1>1, <1>2, <1>3, <1>4, <1>5 DEF JobLog

\* The list after a compaction.
LEMMA Committed ==
    ASSUME CInv, Commit
    PROVE  /\ pc = "commit" /\ pc' = "delete"
           /\ meta' = diskMeta'
           /\ diskMeta' \in Seq(DataFiles) /\ Distinct(diskMeta')
           /\ FileSet(diskMeta') =
                 ((FileSet(diskMeta) \ {JobLog}) \cup {TableFile(job.table)}) \ Unused
           /\ \A e, f \in FileSet(diskMeta') : Before(diskMeta', e, f) =>
                 Before(diskMeta, Was(e, job.log, job.table), Was(f, job.log, job.table))
           /\ TableFile(job.table) \notin FileSet(diskMeta)
           /\ rs' = rs \ Unused
           /\ UNCHANGED <<writers, pendingReaders, pendingWriters, activeWriter, index, cur, ver>>
<1> DEFINE mid == CompactWriteLog(meta, job.log, job.table)
           t == TableFile(job.table)
<1>1. /\ pc = "commit" /\ pc' = "delete"
      /\ meta' = RemoveAll(mid, Unused)
      /\ diskMeta' = IF Unused # {} THEN meta' ELSE diskMeta
      /\ rs' = rs \ Unused
      /\ UNCHANGED <<writers, pendingReaders, pendingWriters, activeWriter, index, cur, ver>>
  BY DEF Commit, Goto, wvars
<1>2. meta = diskMeta
  BY <1>1, SavedMeta
<1>3. diskMeta' = meta'
  BY <1>1, LogsUnused
<1>4. meta' \in Seq(DataFiles) /\ Distinct(meta')
  BY CommittedLists DEF CInv
<1>5. job.table \in 1..MaxSeq /\ t \notin FileSet(meta)
  BY <1>1 DEF CInv, BInv, JobHeld, ListsType
<1>6. /\ mid \in Seq(DataFiles) /\ Distinct(mid)
      /\ FileSet(mid) = (FileSet(diskMeta) \ {JobLog}) \cup {t}
      /\ \A e, f : Before(mid, e, f) =>
            Before(diskMeta, Was(e, job.log, job.table), Was(f, job.log, job.table))
  <2>1. meta \in Seq(DataFiles) /\ Distinct(meta) /\ job.log \in Logs /\ JobLog \in FileSet(meta)
    BY <1>1, <1>2, LogsUnused DEF CInv, BInv, ListsType, ListsDistinct
  <2>2. mid \in Seq(DataFiles) /\ Distinct(mid)
    BY <1>5, <2>1, CompactFile
  <2> QED
    BY <1>2, <1>5, <2>1, <2>2, CompactOrder DEF JobLog
<1>7. Unused \in SUBSET DataFiles /\ IsFiniteSet(Unused)
  BY CommittedLists DEF CInv, BInv, ReadersType
<1> HIDE DEF mid, t
<1>8. FileSet(meta') = FileSet(mid) \ Unused /\ SameOrder(meta', mid)
  BY <1>1, <1>6, <1>7, RemoveAllFiles
<1>9. \A e, f \in FileSet(diskMeta') : Before(diskMeta', e, f) =>
         Before(diskMeta, Was(e, job.log, job.table), Was(f, job.log, job.table))
  BY <1>3, <1>6, <1>8 DEF SameOrder
<1> QED
  BY <1>1, <1>2, <1>3, <1>4, <1>5, <1>6, <1>8, <1>9 DEF t

\* The list after a shutdown.
LEMMA Shut ==
    ASSUME CInv, CloseSave
    PROVE  /\ meta' = diskMeta'
           /\ diskMeta' \in Seq(DataFiles) /\ Distinct(diskMeta')
           /\ FileSet(diskMeta') \subseteq FileSet(diskMeta)
           /\ SameOrder(diskMeta', diskMeta)
           /\ \A e \in FileSet(diskMeta) \ FileSet(diskMeta') : \A b, v : ~ Has(e, b, v)
<1>1. PICK es \in SUBSET EmptyLogs :
         /\ job' = [job EXCEPT !.unused = {LogFile(l) : l \in es}]
         /\ meta' = RemoveAll(meta, job'.unused)
         /\ diskMeta' = IF es # {} THEN meta' ELSE diskMeta
  BY Zenon DEF CloseSave
<1>2. job'.unused = {LogFile(l) : l \in es}
  BY <1>1 DEF CInv, BInv, JobType
<1>3. meta = diskMeta
  BY SavedMeta, ActionPcs
<1>4. es = {} => job'.unused = {}
  BY <1>2
<1>5. meta' = diskMeta'
  BY <1>1, <1>3, <1>4, RemoveNone
<1>6. /\ meta' \in Seq(DataFiles) /\ Distinct(meta')
      /\ FileSet(meta') = FileSet(meta) \ job'.unused
      /\ job'.unused \in SUBSET DataFiles
  BY ClosedLists DEF CInv, DataFiles
<1>7. SameOrder(meta', meta)
  BY ClosedLists DEF CInv
<1>8. ASSUME NEW e \in FileSet(diskMeta) \ FileSet(diskMeta'), NEW b, NEW v PROVE ~ Has(e, b, v)
  <2>1. e \in job'.unused
    BY <1>3, <1>5, <1>6
  <2>2. PICK l \in es : e = LogFile(l)
    BY <1>2, <2>1
  <2>3. entries[l] = <<>>
    BY DEF EmptyLogs
  <2> QED
    BY <2>2, <2>3, EmptyLog
<1> QED
  BY <1>3, <1>5, <1>6, <1>7, <1>8

-----------------------------------------------------------------------------
(* Every step keeps the invariant: the contents *)

LEMMA RecordsOrderStep ==
    ASSUME CInv, [BNext]_vars
    PROVE  RecordsOrder'
<1> DEFINE Good(r) == \A i, j \in DOMAIN r :
                         /\ r[i][2] # 0
                         /\ i < j /\ r[i][1] = r[j][1] => r[i][2] < r[j][2]
<1> SUFFICES ASSUME NEW l \in Logs PROVE Good(entries'[l])
  BY DEF RecordsOrder
<1>1. /\ Good(entries[l])
      /\ entries \in [Logs -> Seq(Blocks \X Nat)]
  BY DEF CInv, RecordsOrder, BInv, WInv, WTypeOK
<1>2. ASSUME entries'[l] = <<>> PROVE Good(entries'[l])
  <2>1. DOMAIN entries'[l] = {}
    BY <1>2
  <2> QED
    BY <2>1
<1>3. CASE AMakeLog \/ ADeleteLog
  <2>1. PICK k : entries' = [entries EXCEPT ![k] = <<>>]
    BY <1>3
    DEF AMakeLog, ADeleteLog, OpenMakeLog, RotateMakeLog, MakeLogWriter, DeleteLog, CloseRemoved
  <2>2. entries'[l] = <<>> \/ entries'[l] = entries[l]
    BY <1>1, <2>1
  <2> HIDE DEF Good
  <2> QED
    BY <1>1, <1>2, <2>2
<1>4. CASE PowerLoss
  <2> DEFINE old == entries[l]
             new == entries'[l]
  <2>1. /\ new \in Seq(Blocks \X Nat) /\ Len(new) <= Len(old)
        /\ \A i \in 1..Len(new) : new[i] = old[i]
    BY <1>4, PowerLossLogs DEF CInv, BInv, WInv
  <2>2. old \in Seq(Blocks \X Nat)
    BY <1>1
  <2> HIDE DEF old, new
  <2>3. \A i \in DOMAIN new : i \in DOMAIN old /\ new[i] = old[i]
    <3>1. /\ DOMAIN new = 1..Len(new) /\ Len(new) \in Nat
          /\ DOMAIN old = 1..Len(old) /\ Len(old) \in Nat
      BY <2>1, <2>2
    <3> QED
      BY <2>1, <3>1
  <2>4. Good(old)
    BY <1>1 DEF old
  <2>5. Good(new)
    BY <2>3, <2>4
  <2> QED
    BY <2>5 DEF new
<1>5. CASE AWrite
  <2>1. PICK b \in Blocks, k \in Logs : WriteOf(b, k)
    BY <1>5, Written
  <2> DEFINE n == ver[b] + 1
             r == <<b, n>>
  <2>2. cur[b] < n /\ n \in Nat /\ n # 0 /\ cur[b] \in Nat
    BY <2>1, WriteFacts
  <2>3. entries' = [entries EXCEPT ![k] = Append(@, r)]
    BY <2>1 DEF WriteOf
  <2> HIDE DEF n
  <2>4. CASE l # k
    BY <1>1, <2>3, <2>4
  <2>5. CASE l = k
    <3> DEFINE old == entries[l]
               new == entries'[l]
               m == Len(old)
    <3>1. old \in Seq(Blocks \X Nat) /\ new = Append(old, r) /\ r \in Blocks \X Nat
      BY <1>1, <2>2, <2>3, <2>5
    <3>2. \A i \in DOMAIN old : old[i][1] = b => old[i][2] < n
      <4> SUFFICES ASSUME NEW i \in DOMAIN old, old[i][1] = b PROVE old[i][2] < n
        OBVIOUS
      <4>1. old[i] \in Blocks \X Versions
        BY DEF CInv, BInv, ContentsType
      <4>2. old[i] = <<b, old[i][2]>> /\ old[i][2] \in Versions
        BY <4>1
      <4>3. Has(LogFile(k), b, old[i][2])
        BY <2>5, <4>2, LogFields DEF Has
      <4>4. LogFile(k) \in InUse
        BY <2>1, WriteFacts DEF InUse
      <4>5. old[i][2] <= cur[b]
        BY <4>2, <4>3, <4>4 DEF CInv, ListHolds, Holds
      <4> QED
        BY <2>2, <4>2, <4>5 DEF Versions
    <3>3. Good(old)
      BY <1>1
    <3> HIDE DEF old, new
    <3>4. /\ m \in Nat /\ DOMAIN old = 1..m
          /\ DOMAIN new = 1..(m + 1)
          /\ \A i \in 1..m : new[i] = old[i]
          /\ new[m + 1] = r
      BY <3>1
    <3>5. r[1] = b /\ r[2] = n
      OBVIOUS
    <3> HIDE DEF m, r
    <3>6. Good(new)
      BY <2>2, <3>2, <3>3, <3>4, <3>5
    <3> QED
      BY <3>6 DEF new
  <2> QED
    BY <2>4, <2>5
<1>6. CASE UNCHANGED entries
  BY <1>1, <1>6
<1> HIDE DEF Good
<1> QED
  BY <1>3, <1>4, <1>5, <1>6, Changes DEF DiskChanges

\* A compaction keeps the last write of every block in the list: where a file
\* goes, the index has it elsewhere.
LEMMA CommitHolds ==
    ASSUME CInv, [BNext]_vars, ~AWrite, ~PowerLoss, Commit,
           NEW b \in Blocks, NEW c \in Versions, c = cur[b], c # 0
    PROVE  \E e \in FileSet(diskMeta') : Has(e, b, c)'
<1> DEFINE t == TableFile(job.table)
<1>1. c \in Nat
  BY DEF Versions
<1>2. PICK e \in FileSet(diskMeta) : Has(e, b, c)
  BY DEF CInv, ListHolds, Holds
<1>3. /\ pc = "commit" /\ Up
      /\ FileSet(diskMeta') = ((FileSet(diskMeta) \ {JobLog}) \cup {t}) \ Unused
      /\ JobLog \in Unused
  BY Committed, LogsUnused
<1>4. CASE e \notin Unused
  <2>1. e \in FileSet(diskMeta')
    BY <1>3, <1>4
  <2>2. Has(e, b, c)'
    BY <1>2, HasKept DEF InUse
  <2> QED
    BY <2>1, <2>2
<1>5. CASE e \in Unused
  <2>1. PICK f, w : f = index[b] /\ w = Content(f, b)
    OBVIOUS
  <2>2. e \in rs
    BY <1>5 DEF Unused
  <2>3. c <= w /\ w \in Versions
    BY <1>2, <1>3, <2>1, <2>2, IndexHas DEF CInv, IndexTop
  <2>4. w # 0
    BY <1>1, <2>3 DEF Versions
  <2>5. f \in rs /\ Has(f, b, w)
    BY <1>3, <2>1, <2>4, IndexHas
  <2>6. f \in InUse
    BY <1>3, <2>5 DEF InUse, LowerFiles
  <2>7. w <= c
    BY <2>3, <2>5, <2>6 DEF CInv, ListHolds, Holds
  <2>8. w = c
    BY <1>1, <2>3, <2>7 DEF Versions
  <2>9. f \in FileSet(diskMeta')
    <3>1. f \in FileSet(diskMeta) \cup {t}
      BY <1>3, <2>5 DEF CInv, Members, LowerFiles
    <3>2. f \notin Unused
      BY <2>1, UnusedNotLive
    <3> QED
      BY <1>3, <3>1, <3>2
  <2>10. Has(f, b, c)'
    BY <2>5, <2>6, <2>8, HasKept
  <2> QED
    BY <2>9, <2>10
<1> QED
  BY <1>4, <1>5

LEMMA HoldsNext ==
    ASSUME NEW b, NEW c, cur'[b] = c, c <= ver'[b],
           \A e \in InUse' : \A v \in Versions : Has(e, b, v)' => v <= c,
           c # 0 => \E e \in FileSet(diskMeta') : Has(e, b, c)'
    PROVE  Holds(b)'
<1>1. ASSUME NEW e, Has(e, b, c)' PROVE Has(e, b, cur[b])'
  BY <1>1 DEF Has
<1> QED
  BY <1>1 DEF Holds

LEMMA ListHoldsStep ==
    ASSUME CInv, [BNext]_vars
    PROVE  ListHolds'
<1>1. /\ cur \in [Blocks -> Versions]
      /\ ver \in [Blocks -> 0..MaxVersion]
  BY DEF CInv, BInv, WInv, WTypeOK, ContentsType
<1>2. CASE AWrite
  <2>1. PICK b \in Blocks, k \in Logs : WriteOf(b, k)
    BY <1>2, Written
  <2>2. PICK n : n = ver[b] + 1
    OBVIOUS
  <2>3. /\ cur[b] < n /\ cur[b] \in Nat /\ n \in Versions /\ n \in Nat
        /\ cur'[b] = n /\ ver'[b] = n
        /\ \A c \in Blocks : c # b => cur'[c] = cur[c] /\ ver'[c] = ver[c]
    BY <2>1, <2>2, WriteFacts
  <2>4. InUse' = InUse /\ diskMeta' = diskMeta
    BY <2>1 DEF WriteOf, InUse, TopFiles, LowerFiles, Up
  <2>5. LogFile(k) \in FileSet(diskMeta')
    BY <2>1, <2>4, WriteFacts
  <2>6. \A e, c, v : Has(e, c, v)' <=> \/ Has(e, c, v)
                                       \/ e.type = "log" /\ e.name = k /\ c = b /\ v = n
    BY <2>1, <2>2, WriteHas
  <2> SUFFICES ASSUME NEW c \in Blocks PROVE Holds(c)'
    BY DEF ListHolds
  <2>7. /\ cur[c] <= ver[c]
        /\ \A e \in InUse : \A v \in Versions : Has(e, c, v) => v <= cur[c]
        /\ cur[c] # 0 => \E e \in FileSet(diskMeta) : Has(e, c, cur[c])
    BY DEF CInv, ListHolds, Holds
  <2>8. CASE c = b
    <3>1. cur'[c] = n /\ n <= ver'[c]
      BY <2>3, <2>8
    <3>2. ASSUME NEW e \in InUse', NEW v \in Versions, Has(e, c, v)' PROVE v <= n
      <4>1. v = n \/ v <= cur[b]
        BY <2>4, <2>6, <2>7, <2>8, <3>2
      <4>2. v \in Nat
        BY DEF Versions
      <4> QED
        BY <2>3, <4>1, <4>2
    <3>3. Has(LogFile(k), c, n)'
      BY <2>6, <2>8, LogFields
    <3> QED
      BY <2>5, <3>1, <3>2, <3>3, HoldsNext
  <2>9. CASE c # b
    <3>1. PICK x : x = cur[c]
      OBVIOUS
    <3>2. cur'[c] = x /\ ver'[c] = ver[c]
      BY <2>3, <2>9, <3>1
    <3>3. \A e, v : Has(e, c, v)' <=> Has(e, c, v)
      BY <2>6, <2>9
    <3>4. x <= ver'[c] /\ \A e \in InUse' : \A v \in Versions : Has(e, c, v)' => v <= x
      BY <2>4, <2>7, <3>1, <3>2, <3>3
    <3>5. x # 0 => \E e \in FileSet(diskMeta') : Has(e, c, x)'
      BY <2>4, <2>7, <3>1, <3>3
    <3> QED
      BY <3>2, <3>4, <3>5, HoldsNext
  <2> QED
    BY <2>8, <2>9
<1>3. CASE PowerLoss
  <2>1. PICK len :
           /\ \A l \in Logs : len[l] \in 0..Len(entries[l])
           /\ cur' = [b \in Blocks |-> Recovered(diskMeta, entries, len, b)]
           /\ \A e \in DataFiles : \A b, v : Has(e, b, v)' <=> Left(len, e, b, v)
    BY <1>3, Cut
  <2>2. UNCHANGED <<tables, diskMeta, ver>> /\ InUse' = FileSet(diskMeta)
    <3>1. pc' = "down"
      BY <1>3 DEF PowerLoss, ForgetMemory
    <3> QED
      BY <1>3, <3>1, Cut DEF InUse, Up
  <2> SUFFICES ASSUME NEW b \in Blocks PROVE Holds(b)'
    BY DEF ListHolds
  <2>3. PICK r : r = Recovered(diskMeta, entries, len, b)
    OBVIOUS
  <2>4. /\ r \in Versions
        /\ r # 0 => \E e \in FileSet(diskMeta) : Left(len, e, b, r)
        /\ \A e \in FileSet(diskMeta) : \A v \in Versions : Left(len, e, b, v) => v <= r
    BY <2>1, <2>3, RecoveredIs DEF CInv, ListOrder
  <2>5. FileSet(diskMeta) \subseteq DataFiles
    BY FilesTyped DEF CInv, Listed
  <2>6. r <= ver[b]
    <3>1. ver[b] \in Nat /\ cur[b] \in Nat /\ r \in Nat /\ cur[b] <= ver[b]
      BY <1>1, <2>4 DEF CInv, ListHolds, Holds, Versions
    <3>2. r # 0 => r <= cur[b]
      <4> SUFFICES ASSUME r # 0 PROVE r <= cur[b]
        OBVIOUS
      <4>1. PICK e \in FileSet(diskMeta) : Left(len, e, b, r)
        BY <2>4
      <4>2. Has(e, b, r)
        BY <2>1, <2>5, <4>1, LeftHas
      <4> QED
        BY <2>4, <4>1, <4>2 DEF CInv, ListHolds, Holds, InUse
    <3> QED
      BY <3>1, <3>2
  <2>7. cur'[b] = r /\ r <= ver'[b]
    BY <2>1, <2>2, <2>3, <2>6
  <2>8. /\ \A e \in InUse' : \A v \in Versions : Has(e, b, v)' => v <= r
        /\ r # 0 => \E e \in FileSet(diskMeta') : Has(e, b, r)'
    BY <2>1, <2>2, <2>4, <2>5
  <2> QED
    BY <2>7, <2>8, HoldsNext
<1>4. CASE ~AWrite /\ ~PowerLoss
  <2>1. UNCHANGED cur /\ UNCHANGED ver
    BY <1>4, Changes, TrackerFrame DEF HistoryChanges, TrackerMoves, CInv, BInv, WInv
  <2> SUFFICES ASSUME NEW b \in Blocks PROVE Holds(b)'
    BY DEF ListHolds
  <2>2. PICK c : c = cur[b]
    OBVIOUS
  <2>3. cur'[b] = c /\ c <= ver'[b] /\ c \in Versions
    BY <1>1, <2>1, <2>2 DEF CInv, ListHolds, Holds
  <2>4. ASSUME NEW e \in InUse', NEW v \in Versions, Has(e, b, v)' PROVE v <= c
    BY <1>4, <2>2, <2>4, HasMoves DEF CInv, ListHolds, Holds
  <2>5. ASSUME c # 0 PROVE \E e \in FileSet(diskMeta') : Has(e, b, c)'
    <3>1. PICK e \in FileSet(diskMeta) : Has(e, b, c)
      BY <2>2, <2>5 DEF CInv, ListHolds, Holds
    <3>2. Has(e, b, c)'
      BY <1>4, <3>1, HasKept DEF InUse
    <3>3. ASSUME ASave PROVE e \in FileSet(diskMeta')
      <4>1. meta = diskMeta
        BY <3>3, SavedMeta, ActionPcs
      <4> QED
        BY <3>3, <4>1, SavedLists DEF CInv
    <3>4. ASSUME CloseSave PROVE e \in FileSet(diskMeta')
      BY <3>1, <3>4, Shut
    <3>5. CASE Commit
      BY <1>4, <2>2, <2>3, <2>5, <3>5, CommitHolds
    <3>6. CASE ~ Commit
      BY <3>2, <3>3, <3>4, <3>6, Changes DEF DiskChanges
    <3> QED
      BY <3>5, <3>6
  <2> QED
    BY <2>3, <2>4, <2>5, HoldsNext
<1> QED
  BY <1>2, <1>3, <1>4


-----------------------------------------------------------------------------
(* Every step keeps the invariant: the list *)

LEMMA ListFacts ==
    ASSUME CInv
    PROVE  diskMeta \in Seq(DataFiles) /\ Distinct(diskMeta) /\ FileSet(diskMeta) \subseteq DataFiles
<1>1. diskMeta \in Seq(DataFiles) /\ Distinct(diskMeta)
  BY DEF CInv, BInv, ListsType, ListsDistinct
<1> QED
  BY <1>1, FileSetType

\* Nothing comes after the newest file.
LEMMA NewestLast ==
    ASSUME CInv, NEW e, NEW newer, Newest(e, newer), NEW f, f \notin newer
    PROVE  ~ Before(diskMeta, e, f)
<1> SUFFICES ASSUME Before(diskMeta, e, f) PROVE FALSE
  OBVIOUS
<1>1. e \in FileSet(diskMeta) /\ f \in FileSet(diskMeta)
  BY BeforeFiles
<1>2. CASE e = f
  BY <1>2, ListFacts, NotBeforeItself
<1>3. CASE e # f
  <2>1. Before(diskMeta, f, e)
    BY <1>1, <1>3 DEF Newest
  <2> QED
    BY <1>1, <1>3, <2>1, ListFacts, TotalOrder
<1> QED
  BY <1>2, <1>3

\* The list with a new log.
LEMMA Saved ==
    ASSUME CInv, ASave
    PROVE  /\ Up
           /\ \/ pc = "openSave" /\ pc' = "openPush"
              \/ pc = "rotateSave" /\ pc' = "rotateSwap"
           /\ meta' = diskMeta'
           /\ FileSet(diskMeta') = FileSet(diskMeta) \cup {JobLog}
           /\ JobLog \notin FileSet(diskMeta)
           /\ \A f, g : Before(diskMeta, f, g) => Before(diskMeta', f, g)
           /\ \A f \in FileSet(diskMeta) : Before(diskMeta', f, JobLog)
           /\ \A f, g : Before(diskMeta', f, g) => Before(diskMeta, f, g) \/ g = JobLog
           /\ \A b, v : ~ Has(JobLog, b, v)
           /\ UNCHANGED <<wvars, logFiles, tables, nextSeq, readvars, runReq, job, histvars>>
<1>1. /\ \/ pc = "openSave" /\ pc' = "openPush"
         \/ pc = "rotateSave" /\ pc' = "rotateSwap"
      /\ meta' = PushWriteLog(meta, job.log)
      /\ meta' = diskMeta'
      /\ UNCHANGED <<wvars, logFiles, tables, nextSeq, readvars, runReq, job, histvars>>
  BY DEF ASave, OpenSave, RotateSave, Goto, wvars
<1>2. Up /\ meta = diskMeta /\ pc \in Making
  BY <1>1, SavedMeta DEF Up, Closing, Making
<1>3. JobLog \in DataFiles /\ diskMeta' = Append(diskMeta, JobLog) /\ JobLog \notin FileSet(diskMeta)
  BY <1>1, <1>2, SavedLists, LogFields DEF PushWriteLog, JobLog, CInv, BInv, JobHeld
<1>4. \A b, v : ~ Has(JobLog, b, v)
  BY <1>2, EmptyLog DEF CInv, NewLog, JobLog
<1> QED
  BY <1>1, <1>2, <1>3, <1>4, AppendOrder, AppendFile, ListFacts

\* The table is not older than what came before the log.
LEMMA CommitOrder ==
    ASSUME CInv, Commit, NEW e \in FileSet(diskMeta'), NEW f \in FileSet(diskMeta'),
           Before(diskMeta', e, f)
    PROVE  /\ Older(e, f)
           /\ e.type = "log" => f.type = "log"
<1> DEFINE t == TableFile(job.table)
<1>1. /\ pc = "commit" /\ Up /\ Serving
      /\ FileSet(diskMeta') = ((FileSet(diskMeta) \ {JobLog}) \cup {t}) \ Unused
      /\ Before(diskMeta, Was(e, job.log, job.table), Was(f, job.log, job.table))
      /\ TopFiles = {Active} /\ LowerFiles = rs
      /\ JobLog \in FileSet(diskMeta)
  BY Committed, LogsUnused
<1>2. /\ e = t => Was(e, job.log, job.table) = JobLog
      /\ e # t => Was(e, job.log, job.table) = e
      /\ f = t => Was(f, job.log, job.table) = JobLog
      /\ f # t => Was(f, job.log, job.table) = f
  BY DEF Was, JobLog
<1>3. ASSUME NEW x \in FileSet(diskMeta'), x.type = "log" PROVE x = Active
  <2>1. x \in FileSet(diskMeta) /\ x \notin Unused
    BY <1>1, <1>3, LogFields
  <2>2. x.name \in Logs /\ x = LogFile(x.name)
    BY <1>3, <2>1, ListFacts, FileKinds
  <2> QED
    BY <1>1, <2>1, <2>2, LogsUnused DEF Active
<1>4. ~ Before(diskMeta, Active, JobLog)
  <2>1. Newest(Active, {})
    BY <1>1 DEF CInv, ListEnd
  <2> QED
    BY <2>1, NewestLast
<1>5. CASE e # t /\ f # t
  <2>1. Before(diskMeta, e, f) /\ e \in FileSet(diskMeta) /\ f \in FileSet(diskMeta)
    BY <1>1, <1>2, <1>5
  <2> QED
    BY <2>1 DEF CInv, ListOrder, InOrder, LogsLast
<1>6. CASE e # t /\ f = t
  <2>1. Before(diskMeta, e, JobLog) /\ e \in FileSet(diskMeta)
    BY <1>1, <1>2, <1>6
  <2>2. e # Active
    BY <1>4, <2>1
  <2>3. e \in rs
    BY <1>1, <2>1, <2>2 DEF CInv, Members
  <2>4. Older(e, f)
    BY <1>1, <1>6, <2>3, TableHas DEF Older, CInv, IndexTop
  <2> QED
    BY <1>3, <2>2, <2>4
<1>7. CASE e = t /\ f # t
  <2>1. Before(diskMeta, JobLog, f) /\ f \in FileSet(diskMeta)
    BY <1>1, <1>2, <1>7
  <2>2. f.type = "log"
    BY <1>1, <2>1, LogFields DEF CInv, ListOrder, LogsLast, JobLog
  <2>3. f = Active
    BY <1>3, <2>2
  <2>4. Older(t, Active)
    BY <1>1 DEF CInv, NewTable
  <2> QED
    BY <1>7, <2>2, <2>3, <2>4
<1>8. ~ (e = t /\ f = t)
  BY <1>1, <1>2, ListFacts, NotBeforeItself
<1> QED
  BY <1>5, <1>6, <1>7, <1>8

\* A write goes where no newer file has the block.
LEMMA WriteOnTop ==
    ASSUME CInv, NEW b \in Blocks, NEW k \in Logs, WriteOf(b, k),
           NEW f, Before(diskMeta, LogFile(k), f)
    PROVE  f # LogFile(k) /\ \A v \in Versions : ~ Has(f, b, v)
<1>1. f # LogFile(k)
  BY ListFacts, NotBeforeItself
<1>2. Serving /\ (k = activeWriter \/ (pc = "rotateWait" /\ k = job.log))
  BY WriteFacts
<1>3. CASE k = activeWriter /\ pc # "rotateSwap"
  <2>1. Newest(LogFile(k), {})
    BY <1>2, <1>3 DEF CInv, ListEnd, Active
  <2> QED
    BY <2>1, NewestLast
<1>4. CASE k = activeWriter /\ pc = "rotateSwap"
  <2>1. Newest(LogFile(k), {JobLog})
    BY <1>2, <1>4 DEF CInv, ListEnd, Active
  <2>2. f = JobLog
    BY <2>1, NewestLast
  <2>3. entries[job.log] = <<>>
    BY <1>4 DEF CInv, NewLog, Making
  <2> QED
    BY <1>1, <2>2, <2>3, EmptyLog DEF JobLog
<1>5. CASE pc = "rotateWait" /\ k = job.log
  <2>1. Newest(LogFile(k), {Active})
    BY <1>2, <1>5 DEF CInv, ListEnd, JobLog
  <2>2. f = Active
    BY <2>1, NewestLast
  <2> QED
    BY <1>1, <1>5, <2>2 DEF CInv, LateWrites, WriteOf
<1> QED
  BY <1>2, <1>3, <1>4, <1>5

LEMMA ListOrderStep ==
    ASSUME CInv, [BNext]_vars
    PROVE  ListOrder'
<1> SUFFICES ASSUME NEW e \in FileSet(diskMeta'), NEW f \in FileSet(diskMeta'),
                    Before(diskMeta', e, f)
             PROVE  Older(e, f)' /\ (e.type = "log" => f.type = "log")
  BY DEF ListOrder, InOrder, LogsLast
<1>1. ASSUME e \in FileSet(diskMeta), f \in FileSet(diskMeta), Before(diskMeta, e, f)
      PROVE  Older(e, f) /\ (e.type = "log" => f.type = "log")
  BY <1>1 DEF CInv, ListOrder, InOrder, LogsLast
<1>2. CASE AWrite
  <2>1. PICK b \in Blocks, k \in Logs : WriteOf(b, k)
    BY <1>2, Written
  <2>2. diskMeta' = diskMeta
    BY <2>1 DEF WriteOf
  <2>3. Older(e, f) /\ (e.type = "log" => f.type = "log") /\ e \in DataFiles /\ f \in DataFiles
    BY <1>1, <2>2, ListFacts
  <2>4. \A c \in Blocks : \A v \in Versions : Has(e, c, v) => v <= cur[c]
    BY <2>2 DEF CInv, ListHolds, Holds, InUse
  <2>5. e.type = "log" /\ e.name = k => e = LogFile(k)
    BY <2>3, FileKinds
  <2>6. e.type = "log" /\ e.name = k => f # LogFile(k) /\ \A v \in Versions : ~ Has(f, b, v)
    BY <2>1, <2>2, <2>5, WriteOnTop
  <2> QED
    BY <2>1, <2>3, <2>4, <2>6, WriteOlder
<1>3. CASE PowerLoss
  <2>1. UNCHANGED diskMeta /\ \E len :
           /\ \A l \in Logs : len[l] \in 0..Len(entries[l])
           /\ \A x \in DataFiles : \A b, v : Has(x, b, v)' <=> Left(len, x, b, v)
    BY <1>3, Cut
  <2>2. \A x \in DataFiles : \A b, v : Has(x, b, v)' => Has(x, b, v)
    BY <2>1, LeftHas
  <2>3. Older(e, f) /\ (e.type = "log" => f.type = "log") /\ e \in DataFiles /\ f \in DataFiles
    BY <1>1, <2>1, ListFacts
  <2> QED
    BY <2>2, <2>3 DEF Older, Versions
<1>4. CASE ~AWrite /\ ~PowerLoss
  <2>1. ASSUME e \in FileSet(diskMeta), f \in FileSet(diskMeta), Before(diskMeta, e, f)
        PROVE  Older(e, f)' /\ (e.type = "log" => f.type = "log")
    BY <1>1, <1>4, <2>1, OlderKept DEF InUse
  <2>2. CASE ASave
    <3>1. CASE Before(diskMeta, e, f)
      BY <2>1, <3>1, BeforeFiles
    <3>2. CASE f = JobLog
      <4>1. \A b, v : ~ Has(f, b, v)
        BY <2>2, <3>2, Saved
      <4>2. f.type = "log" /\ UNCHANGED entries
        BY <2>2, <3>2, Saved, LogFields DEF JobLog, wvars
      <4>3. \A b, v : ~ Has(f, b, v)'
        BY <4>1, <4>2 DEF Has
      <4> QED
        BY <4>2, <4>3 DEF Older
    <3> QED
      BY <2>2, <3>1, <3>2, Saved
  <2>3. CASE Commit
    <3>1. Older(e, f) /\ (e.type = "log" => f.type = "log")
      BY <2>3, CommitOrder
    <3>2. e \in InUse /\ f \in InUse
      BY <2>3, ListMoves, LogsUnused, Committed DEF InUse, LowerFiles
    <3> QED
      BY <1>4, <3>1, <3>2, OlderKept
  <2>4. CASE CloseSave
    BY <2>1, <2>4, Shut DEF SameOrder
  <2> QED
    BY <2>1, <2>2, <2>3, <2>4, Changes DEF DiskChanges
<1> QED
  BY <1>2, <1>3, <1>4

LEMMA MetaSavedStep ==
    ASSUME CInv, [BNext]_vars
    PROVE  MetaSaved'
<1> SUFFICES ASSUME pc' # "down" PROVE meta' = diskMeta'
  BY DEF MetaSaved
<1>1. ~ ForgetMemory
  BY ActionPcs
<1>2. CASE OpenLoad
  BY <1>2 DEF OpenLoad
<1>3. CASE ASave
  BY <1>3, Saved
<1>4. CASE Commit
  BY <1>4, Committed
<1>5. CASE CloseSave
  BY <1>5, Shut
<1>6. CASE UNCHANGED <<meta, diskMeta>>
  <2>1. pc = "down" => pc' = "down" \/ OpenLoad
    BY DownSteps DEF CInv, BInv, Merge, vars, bfvars
  <2> QED
    BY <1>2, <1>6, <2>1 DEF CInv, MetaSaved
<1> QED
  BY <1>1, <1>2, <1>3, <1>4, <1>5, <1>6, Changes DEF MemoryChanges, DiskChanges

-----------------------------------------------------------------------------
(* Every step keeps the invariant: the logs that are written *)

LEMMA MorePcs ==
    /\ OpenPush => pc = "openPush" /\ pc' = "idle"
    /\ RotateMakeLog => pc = "rotate" /\ pc' = "rotateSave"
    /\ RotateSwap => pc = "rotateSwap" /\ pc' = "rotateWait"
    /\ RotateWait => pc = "rotateWait" /\ pc' = "rotatePush"
    /\ CompactionDone => pc = "delete" /\ pc' = "loop"
    /\ BCloseStart => pc = "idle" /\ pc' = "closing"
  BY DEF OpenPush, RotateMakeLog, RotateSwap, RotateWait, CompactionDone, BCloseStart, Goto

\* Which steps change the log and the table of the job.
LEMMA JobKept ==
    ASSUME BInv, [BNext]_vars
    PROVE  /\ \/ job'.log = job.log
              \/ AMakeLog \/ OpenPush \/ RotateSwap \/ Install \/ CompactionDone \/ ForgetMemory
           /\ \/ job'.table = job.table
              \/ BuildTable \/ OpenPush \/ CompactionDone \/ ForgetMemory
<1>1. job \in [log : Logs \cup {NoLog}, table : Nat, unused : SUBSET DataFiles]
  BY DEF BInv, JobType
<1>2. ASSUME AMakeLog PROVE job'.table = job.table
  BY <1>1, <1>2 DEF AMakeLog, OpenMakeLog, RotateMakeLog
<1>3. ASSUME RotateSwap PROVE job'.table = job.table
  BY <1>1, <1>3 DEF RotateSwap
<1>4. ASSUME Install PROVE job'.table = job.table
  BY <1>1, <1>4 DEF Install
<1>5. ASSUME BuildTable PROVE job'.log = job.log
  BY <1>1, <1>5 DEF BuildTable
<1>6. ASSUME Commit PROVE job'.log = job.log /\ job'.table = job.table
  BY <1>1, <1>6 DEF Commit
<1>7. ASSUME ADeleteLog \/ ADeleteTable \/ ACloseDelete
      PROVE  job'.log = job.log /\ job'.table = job.table
  BY <1>1, <1>7 DEF ADeleteLog, ADeleteTable, ACloseDelete, DeleteLog, DeleteTable, CloseDelete
<1>8. ASSUME CloseSave PROVE job'.log = job.log /\ job'.table = job.table
  BY <1>8, ClosedLists
<1> QED
  BY <1>2, <1>3, <1>4, <1>5, <1>6, <1>7, <1>8, Changes DEF JobChanges

\* What the swap of the logs does.
LEMMA Swapped ==
    ASSUME CInv, RotateSwap
    PROVE  /\ pc = "rotateSwap" /\ pc' = "rotateWait" /\ Up /\ Serving
           /\ activeWriter' = job.log /\ job'.log = activeWriter
           /\ job.log \in Logs /\ activeWriter \in Logs /\ job.log # activeWriter
           /\ Active' = JobLog /\ JobLog' = Active
           /\ pendingWriters' = Append(pendingWriters, activeWriter)
           /\ push'.pc = "wait" /\ push'.old = activeWriter
           /\ UNCHANGED <<diskMeta, meta, writers, pendingReaders, rs, index, tables, entries, wr>>
<1>1. /\ pc = "rotateSwap" /\ pc' = "rotateWait"
      /\ activeWriter' = job.log
      /\ job' = [job EXCEPT !.log = activeWriter]
      /\ pendingWriters' = Append(pendingWriters, activeWriter)
      /\ push'.pc = "wait" /\ push'.old = activeWriter
      /\ activeWriter # NoLog
      /\ UNCHANGED <<diskMeta, meta, writers, pendingReaders, rs, index, tables, entries, wr>>
  BY DEF RotateSwap, Goto, PushSwap, NewWriter
<1>2. job \in [log : Logs \cup {NoLog}, table : Nat, unused : SUBSET DataFiles] /\ job.log \in Logs
  BY <1>1 DEF CInv, BInv, JobType, WithLog, Rotating
<1>3. activeWriter \in Logs
  BY <1>1 DEF CInv, BInv, WInv, WTypeOK
<1>4. job.log # activeWriter
  BY <1>1 DEF CInv, NewLog, Making
<1>5. job'.log = activeWriter
  BY <1>1, <1>2
<1> QED
  BY <1>1, <1>2, <1>3, <1>4, <1>5 DEF Up, Serving, Closing, Active, JobLog

\* What the first log of a session does.
LEMMA FirstLog ==
    ASSUME CInv, OpenPush
    PROVE  /\ pc = "openPush" /\ pc' = "idle" /\ Up /\ ~Serving
           /\ activeWriter' = job.log /\ job.log \in Logs
           /\ Active' = JobLog
           /\ writers' = <<JobLog>>
           /\ UNCHANGED <<diskMeta, meta, pendingWriters, pendingReaders, rs, index, tables, entries,
                          wr, push>>
<1>1. /\ pc = "openPush" /\ pc' = "idle"
      /\ activeWriter' = job.log
      /\ writers' = <<LogFile(job.log)>>
      /\ UNCHANGED <<diskMeta, meta, pendingWriters, pendingReaders, rs, index, tables, entries,
                     wr, push>>
  BY DEF OpenPush, PushFirstLog, NewWriter
<1>2. job.log \in Logs
  BY <1>1 DEF CInv, BInv, JobType, WithLog
<1> QED
  BY <1>1, <1>2 DEF Up, Serving, Closing, Active, JobLog

LEMMA CallsStep ==
    ASSUME CInv, [BNext]_vars
    PROVE  Calls'
<1>1. TrackerMoves /\ PhaseMoves
  BY TrackerFrame, PhaseFrame DEF CInv, BInv, WInv
<1>2. ASSUME Serving' PROVE activeWriter' # NoLog
  <2>1. ~ BCloseStart /\ ~ ForgetMemory
    BY <1>2, MorePcs, ActionPcs DEF Serving
  <2>2. OpenPush \/ RotateSwap => activeWriter' # NoLog
    BY FirstLog, Swapped, NoLogAssumption
  <2> QED
    BY <1>1, <1>2, <2>1, <2>2 DEF TrackerMoves, PhaseMoves, CInv, Calls
<1>3. ASSUME ~Serving', NEW b \in Blocks PROVE wr'[b].pc = "idle"
  <2>1. CASE BCloseStart
    BY <2>1 DEF BCloseStart, CloseStart
  <2>2. CASE ForgetMemory
    BY <2>2 DEF ForgetMemory, IdleWrite
  <2>3. CASE ~Serving
    BY <1>1, <2>3 DEF TrackerMoves, CInv, Calls
  <2> QED
    BY <1>1, <1>3, <2>1, <2>2, <2>3 DEF PhaseMoves
<1>4. push'.pc = "wait" <=> pc' = "rotateWait"
  <2>1. ASSUME ForgetMemory PROVE push'.pc # "wait" /\ pc' # "rotateWait"
    BY <2>1 DEF ForgetMemory, IdlePush
  <2>2. ASSUME RotateWait PROVE push'.pc # "wait" /\ pc' # "rotateWait"
    BY <2>2 DEF RotateWait, PushReturn, IdlePush, Goto
  <2>3. ASSUME RotateSwap PROVE push'.pc = "wait" /\ pc' = "rotateWait"
    BY <2>3, Swapped
  <2> QED
    BY <1>1, <2>1, <2>2, <2>3 DEF TrackerMoves, PhaseMoves, CInv, Calls
<1>5. ASSUME push'.pc = "wait" PROVE push'.old = job'.log
  <2>1. CASE RotateSwap
    BY <2>1, Swapped
  <2>2. CASE ~ RotateSwap
    <3>1. pc' = "rotateWait" /\ pc = "rotateWait"
      BY <1>1, <1>4, <1>5, <2>2 DEF PhaseMoves
    <3>2. job'.log = job.log
      BY <2>2, <3>1, JobKept, MorePcs, ActionPcs DEF CInv
    <3>3. push'.old = push.old
      BY <1>1, <2>2, <3>1, MorePcs, ActionPcs DEF TrackerMoves
    <3> QED
      BY <3>1, <3>2, <3>3 DEF CInv, Calls
  <2> QED
    BY <2>1, <2>2
<1> QED
  BY <1>2, <1>3, <1>4, <1>5 DEF Calls

LEMMA ListEndStep ==
    ASSUME CInv, [BNext]_vars
    PROVE  ListEnd'
<1> DEFINE EndOf(files, e, newer) ==
               /\ e \in FileSet(files)
               /\ \A f \in FileSet(files) : f # e /\ f \notin newer => Before(files, f, e)
           Goal == /\ Serving' /\ pc' # "rotateSwap" => EndOf(diskMeta', Active', {})
                   /\ pc' \in {"openPush", "rotateSwap"} => EndOf(diskMeta', JobLog', {})
                   /\ pc' = "rotateSwap" => EndOf(diskMeta', Active', {JobLog'})
                   /\ pc' \in {"rotateWait", "rotatePush"} => EndOf(diskMeta', JobLog', {Active'})
<1> SUFFICES Goal
  BY DEF ListEnd, Newest
<1>1. /\ Serving /\ pc # "rotateSwap" => EndOf(diskMeta, Active, {})
      /\ pc \in {"openPush", "rotateSwap"} => EndOf(diskMeta, JobLog, {})
      /\ pc = "rotateSwap" => EndOf(diskMeta, Active, {JobLog})
      /\ pc \in {"rotateWait", "rotatePush"} => EndOf(diskMeta, JobLog, {Active})
  BY DEF CInv, ListEnd, Newest
<1>2. TrackerMoves /\ PhaseMoves
  BY TrackerFrame, PhaseFrame DEF CInv, BInv, WInv
<1>3. CASE ASave
  <2>1. Active' = Active /\ JobLog' = JobLog
    BY <1>3, Saved DEF Active, JobLog, wvars
  <2>2. EndOf(diskMeta', JobLog, {})
    BY <1>3, Saved
  <2>3. pc' = "rotateSwap" => EndOf(diskMeta', Active, {JobLog})
    <3> SUFFICES ASSUME pc' = "rotateSwap" PROVE EndOf(diskMeta', Active, {JobLog})
      OBVIOUS
    <3>1. pc = "rotateSave" /\ Serving
      BY <1>3, Saved DEF Serving
    <3>2. EndOf(diskMeta, Active, {})
      BY <1>1, <3>1
    <3> QED
      BY <1>3, <3>2, Saved
  <2>4. pc' \in {"openPush", "rotateSwap"} /\ (Serving' => pc' = "rotateSwap")
    BY <1>3, Saved DEF Serving
  <2> HIDE DEF EndOf
  <2> QED
    BY <2>1, <2>2, <2>3, <2>4
<1>4. CASE Commit
  <2>1. /\ pc = "commit" /\ pc' = "delete" /\ Serving /\ Up
        /\ diskMeta' \in Seq(DataFiles) /\ Distinct(diskMeta')
        /\ FileSet(diskMeta') = ((FileSet(diskMeta) \ {JobLog}) \cup {TableFile(job.table)}) \ Unused
        /\ \A e, f \in FileSet(diskMeta') : Before(diskMeta', e, f) =>
              Before(diskMeta, Was(e, job.log, job.table), Was(f, job.log, job.table))
        /\ TopFiles = {Active} /\ LowerFiles = rs
        /\ JobLog # Active
    BY <1>4, Committed, LogsUnused DEF CInv, LogMembers, JobLog, Active, LogFile
  <2>2. Active' = Active
    BY <1>4, Committed DEF Active
  <2>3. Newest(Active, {})
    BY <2>1 DEF CInv, ListEnd
  <2>4. Active \in FileSet(diskMeta')
    BY <2>1, <2>3 DEF CInv, Members, Unused, Newest
  <2>5. ASSUME NEW f \in FileSet(diskMeta'), f # Active PROVE Before(diskMeta', f, Active)
    <3>1. Was(Active, job.log, job.table) = Active
      BY LogFields DEF Was, Active
    <3>2. ~ Before(diskMeta', Active, f)
      BY <2>1, <2>3, <2>4, <3>1, NewestLast
    <3> QED
      BY <2>1, <2>4, <2>5, <3>2, TotalOrder
  <2> QED
    BY <2>1, <2>2, <2>4, <2>5
<1>5. CASE CloseSave
  BY <1>5, ActionPcs DEF Serving
<1>6. CASE UNCHANGED diskMeta
  <2> HIDE DEF EndOf
  <2>1. CASE RotateSwap
    BY <1>1, <1>6, <2>1, Swapped DEF Serving
  <2>2. CASE OpenPush
    BY <1>1, <1>6, <2>2, FirstLog
  <2>3. CASE ForgetMemory \/ BCloseStart
    BY <2>3, MorePcs, ActionPcs DEF Serving
  <2>4. CASE ~RotateSwap /\ ~OpenPush /\ ~ForgetMemory /\ ~BCloseStart /\ ~ASave
    <3>1. Active' = Active
      BY <1>2, <2>4 DEF TrackerMoves, Active
    <3>2. pc' \in {"openPush", "rotateSwap", "rotateWait", "rotatePush"} => JobLog' = JobLog
      BY <2>4, JobKept, MorePcs, ActionPcs DEF JobLog, CInv
    <3>3. /\ Serving' => Serving
          /\ pc' # "rotateSwap" => pc # "rotateSwap"
          /\ pc' = "openPush" => pc = "openPush"
          /\ pc' = "rotateSwap" => pc = "rotateSwap"
          /\ pc' \in {"rotateWait", "rotatePush"} => pc \in {"rotateWait", "rotatePush"}
      BY <1>2, <2>4, MorePcs DEF PhaseMoves, ASave
    <3> QED
      BY <1>1, <1>6, <3>1, <3>2, <3>3
  <2> QED
    BY <1>3, <2>1, <2>2, <2>3, <2>4
<1> QED
  BY <1>3, <1>4, <1>5, <1>6, Changes DEF DiskChanges

LEMMA NewLogStep ==
    ASSUME CInv, [BNext]_vars
    PROVE  NewLog'
<1> SUFFICES ASSUME pc' \in Making
             PROVE  /\ entries'[job'.log] = <<>>
                    /\ job'.log \notin Pending' \cup {activeWriter'}
                    /\ JobLog' \notin LowerFiles'
  BY DEF NewLog
<1>1. TrackerMoves /\ PhaseMoves
  BY TrackerFrame, PhaseFrame DEF CInv, BInv, WInv
<1>2. Up' /\ ~OpenLoad /\ ~RotatePush /\ ~Install /\ ~ForgetMemory /\ ~BCloseStart /\ ~OpenPush
      /\ ~RotateSwap /\ ~CompactionDone
  BY ActionPcs, MorePcs DEF Up, Making, Closing
<1>3. CASE AMakeLog
  <2>1. NewName \in Logs \ logFiles
    BY <1>3, FreshName DEF AMakeLog, OpenMakeLog, RotateMakeLog, CInv, BInv
  <2>2. /\ pc \in {"openMake", "rotate"}
        /\ MakeLogWriter(NewName)
        /\ job' = [job EXCEPT !.log = NewName]
        /\ UNCHANGED <<rs, pendingReaders>>
    BY <1>3, ActionPcs DEF AMakeLog, OpenMakeLog, RotateMakeLog
  <2>3. job'.log = NewName
    BY <2>2 DEF CInv, BInv, JobType
  <2>4. entries'[NewName] = <<>>
    BY <2>1, <2>2 DEF MakeLogWriter, CInv, BInv, WInv, WTypeOK
  <2>5. NewName \notin Pending /\ NewName # activeWriter
    BY <2>1, <2>2, NoLogAssumption DEF MakeLogWriter, RunnerIdle, CInv, BInv, WInv, LogsHeld
  <2>6. Pending' = Pending /\ activeWriter' = activeWriter
    BY <2>2 DEF MakeLogWriter, Pending
  <2>7. LogFile(NewName) \notin LowerFiles
    <3> SUFFICES ASSUME LogFile(NewName) \in LowerFiles PROVE FALSE
      OBVIOUS
    <3>1. Up
      BY <2>2 DEF Up, Closing
    <3>2. Exists(LogFile(NewName))
      BY <3>1, InUseExists DEF InUse
    <3> QED
      BY <2>1, <3>2, LogFields DEF Exists
  <2>8. LowerFiles' = LowerFiles
    BY <2>2 DEF LowerFiles
  <2> QED
    BY <2>3, <2>4, <2>5, <2>6, <2>7, <2>8 DEF JobLog
<1>4. CASE ~ AMakeLog
  <2>1. pc \in Making
    BY <1>1, <1>4 DEF PhaseMoves, Making, AMakeLog, ASave, OpenSave, RotateSave, Goto
  <2>2. job'.log = job.log /\ JobLog' = JobLog
    BY <1>2, <1>4, JobKept DEF CInv, JobLog
  <2>3. /\ entries[job.log] = <<>>
        /\ job.log \notin Pending \cup {activeWriter}
        /\ JobLog \notin LowerFiles
        /\ job.log \in Logs
    BY <2>1 DEF CInv, NewLog, BInv, JobType, WithLog, Rotating, Making
  <2>4. Pending' = Pending /\ activeWriter' = activeWriter
    BY <1>1, <1>2 DEF TrackerMoves, Pending
  <2>5. entries'[job.log] = <<>>
    <3>1. CASE AWrite
      <4>1. PICK b \in Blocks, k \in Logs : WriteOf(b, k)
        BY <3>1, Written
      <4>2. k # job.log
        BY <2>1, <2>3, <4>1, WriteFacts DEF Making
      <4> QED
        BY <2>3, <4>1, <4>2 DEF WriteOf, CInv, BInv, WInv, WTypeOK
    <3>2. CASE UNCHANGED entries
      BY <2>3, <3>2
    <3> QED
      BY <1>2, <1>4, <2>1, <3>1, <3>2, Changes, ActionPcs DEF DiskChanges, Making, PowerLoss
  <2>6. JobLog \notin LowerFiles'
    BY <1>2, <2>3, LowerMoves
  <2> QED
    BY <2>2, <2>3, <2>4, <2>5, <2>6
<1> QED
  BY <1>3, <1>4

\* A list of one file.
LEMMA OneFile ==
    ASSUME NEW S, NEW files \in Seq(S), Distinct(files), NEW e, FileSet(files) = {e}
    PROVE  files = <<e>>
<1>1. DOMAIN files = 1..Len(files) /\ Len(files) \in Nat
  OBVIOUS
<1>2. \A i \in DOMAIN files : files[i] = e
  BY DEF FileSet
<1>3. \A i, j \in DOMAIN files : i = j
  BY <1>2 DEF Distinct
<1>4. PICK i \in DOMAIN files : files[i] = e
  BY DEF FileSet
<1>5. Len(files) = 1
  <2>1. 1 \in DOMAIN files /\ Len(files) \in DOMAIN files
    BY <1>1, <1>4
  <2> QED
    BY <1>3, <2>1
<1>6. files[1] = e /\ files = [n \in 1..1 |-> files[n]]
  BY <1>1, <1>2, <1>5
<1> QED
  BY <1>1, <1>5, <1>6

\* The old log leaves the top of the stack.
LEMMA PushedWriters ==
    ASSUME CInv, RotatePush
    PROVE  writers' = <<Active>> /\ Active' = Active
<1>1. /\ pc = "rotatePush"
      /\ writers' = RemoveFirst(writers, JobLog)
      /\ Active' = Active
  BY DEF RotatePush, Goto, JobLog, Active, wvars
<1>2. writers = <<Active, JobLog>> /\ Active # JobLog
  BY <1>1 DEF CInv, WritersShape
<1>3. PICK a, j : a = Active /\ j = JobLog
  OBVIOUS
<1>4. writers = <<a, j>> /\ a # j /\ writers' = RemoveFirst(writers, j)
  BY <1>1, <1>2, <1>3
<1>5. DOMAIN <<a, j>> = {1, 2} /\ <<a, j>>[1] = a /\ <<a, j>>[2] = j
  OBVIOUS
<1>6. FileSet(writers) = {a, j}
  BY Zenon, <1>4, ShortLists
<1>7. Distinct(writers)
  BY <1>4, <1>5 DEF Distinct
<1>8. writers \in Seq(AllLogs)
  BY DEF CInv, BInv, ReadersType
<1>9. PICK w : w = writers'
  OBVIOUS
<1>10. w \in Seq(AllLogs) /\ Distinct(w) /\ FileSet(w) = {a}
  <2>1. w = RemoveFirst(writers, j)
    BY <1>4, <1>9
  <2>2. /\ RemoveFirst(writers, j) \in Seq(AllLogs)
        /\ Distinct(RemoveFirst(writers, j))
        /\ FileSet(RemoveFirst(writers, j)) = FileSet(writers) \ {j}
    BY <1>7, <1>8, RemoveFile
  <2>3. {a, j} \ {j} = {a}
    BY <1>4
  <2> QED
    BY Zenon, <1>6, <2>1, <2>2, <2>3
<1>11. w = <<a>>
  BY <1>10, OneFile
<1> QED
  BY <1>1, <1>3, <1>9, <1>11

LEMMA TwoFiles ==
    ASSUME NEW n, NEW a
    PROVE  <<n>> \o <<a>> = <<n, a>>
<1> DEFINE s == <<n>> \o <<a>>
           t == <<n, a>>
           S == {n, a}
<1>1. <<n>> \in Seq(S) /\ <<a>> \in Seq(S) /\ t \in Seq(S)
  OBVIOUS
<1>2. Len(<<n>>) = 1 /\ Len(<<a>>) = 1 /\ Len(t) = 2 /\ t[1] = n /\ t[2] = a
  OBVIOUS
<1>3. /\ s \in Seq(S) /\ Len(s) = 2
      /\ s[1] = n /\ s[2] = a
  BY <1>1, <1>2
<1> HIDE DEF s, t, S
<1>4. \A i \in 1..2 : s[i] = t[i]
  BY <1>2, <1>3
<1>5. s = t
  BY <1>1, <1>2, <1>3, <1>4, SeqEqual
<1> QED
  BY <1>5 DEF s, t

LEMMA WritersShapeStep ==
    ASSUME CInv, [BNext]_vars
    PROVE  WritersShape'
<1>1. TrackerMoves /\ PhaseMoves
  BY TrackerFrame, PhaseFrame DEF CInv, BInv, WInv
<1>2. /\ pc \in {"down"} \cup Opening => writers = <<>>
      /\ pc \in {"rotateSave", "rotateSwap"} => writers = <<JobLog, Active>>
      /\ pc \in {"rotateWait", "rotatePush"} => writers = <<Active, JobLog>> /\ Active # JobLog
      /\ Serving /\ pc \notin Rotating => writers = <<Active>>
  BY DEF CInv, WritersShape
<1>3. CASE ForgetMemory
  BY <1>3 DEF ForgetMemory, WritersShape, Serving
<1>4. CASE OpenPush
  BY <1>4, FirstLog DEF WritersShape, Opening, Rotating
<1>5. CASE RotateMakeLog
  <2>1. /\ pc = "rotate" /\ pc' = "rotateSave"
        /\ writers' = <<LogFile(NewName)>> \o writers
        /\ job' = [job EXCEPT !.log = NewName]
        /\ activeWriter' = activeWriter
    BY <1>5 DEF RotateMakeLog, Goto, MakeLogWriter
  <2>2. JobLog' = LogFile(NewName) /\ Active' = Active
    BY <2>1 DEF JobLog, Active, CInv, BInv, JobType
  <2>3. writers = <<Active>>
    BY <1>2, <2>1 DEF Serving, Rotating
  <2>4. writers' = <<JobLog', Active'>>
    <3>1. PICK n, a : n = LogFile(NewName) /\ a = Active
      OBVIOUS
    <3>2. <<n>> \o <<a>> = <<n, a>>
      BY TwoFiles
    <3> QED
      BY <2>1, <2>2, <2>3, <3>1, <3>2
  <2> QED
    BY <2>1, <2>4 DEF WritersShape, Opening, Rotating
<1>6. CASE RotatePush
  BY <1>6, PushedWriters, ActionPcs DEF WritersShape, Opening, Rotating
<1>7. CASE RotateSwap
  <2>1. Active # JobLog
    BY <1>7, Swapped, LogFields DEF Active, JobLog
  <2> QED
    BY <1>2, <1>7, <2>1, Swapped DEF WritersShape, Opening, Rotating
<1>8. CASE BCloseStart
  BY <1>8, MorePcs DEF WritersShape, Opening, Rotating, Serving
<1>9. CASE /\ ~ForgetMemory /\ ~OpenPush /\ ~RotateMakeLog /\ ~RotatePush /\ ~RotateSwap
           /\ ~BCloseStart
  <2>1. UNCHANGED writers /\ Active' = Active
    BY <1>1, <1>9, Changes DEF MemoryChanges, TrackerMoves, Active
  <2>2. pc' \in Rotating => JobLog' = JobLog
    BY <1>9, JobKept, ActionPcs, MorePcs DEF CInv, JobLog, AMakeLog, OpenMakeLog, Rotating
  <2>3. /\ pc' \in {"down"} \cup Opening => pc \in {"down"} \cup Opening
        /\ pc' \in {"rotateSave", "rotateSwap"} => pc \in {"rotateSave", "rotateSwap"}
        /\ pc' \in {"rotateWait", "rotatePush"} => pc \in {"rotateWait", "rotatePush"}
        /\ Serving' /\ pc' \notin Rotating => Serving /\ pc \notin Rotating
    BY <1>1, <1>9, MorePcs DEF PhaseMoves, RotateSave, Goto
  <2>4. \A x \in {"rotateSave", "rotateSwap", "rotateWait", "rotatePush"} : x \in Rotating
    BY DEF Rotating
  <2> QED
    BY <1>2, <2>1, <2>2, <2>3, <2>4 DEF WritersShape
<1> QED
  BY <1>3, <1>4, <1>5, <1>6, <1>7, <1>8, <1>9

-----------------------------------------------------------------------------
(* Every step keeps the invariant: the files that the process knows *)

\* A step that changes neither the list nor the readers.
Still ==
    /\ UNCHANGED <<diskMeta, writers, pendingReaders, rs>>
    /\ pc' = "rotateSave" <=> pc = "rotateSave"
    /\ pc' \in {"removing", "commit"} <=> pc \in {"removing", "commit"}
    /\ pc' = "openPush" <=> pc = "openPush"
    /\ pc \in {"removing", "commit"} => TableFile(job'.table) = TableFile(job.table)
    /\ pc \in {"rotateSave", "openPush"} => JobLog' = JobLog

LEMMA StillSteps ==
    ASSUME CInv, [BNext]_vars, Up'
    PROVE  \/ Up /\ Still
           \/ OpenLoad \/ RotateMakeLog \/ ASave \/ OpenPush \/ RotatePush
           \/ Merge \/ Install \/ Commit
<1> SUFFICES ASSUME ~OpenLoad, ~RotateMakeLog, ~ASave, ~OpenPush, ~RotatePush, ~Merge, ~Install,
                    ~Commit
             PROVE  Up /\ Still
  OBVIOUS
<1>1. TrackerMoves /\ PhaseMoves
  BY TrackerFrame, PhaseFrame DEF CInv, BInv, WInv
<1>2. ~ForgetMemory /\ ~CloseSave
  BY ActionPcs DEF Up, Closing
<1>3. Up /\ UNCHANGED <<diskMeta, writers, pendingReaders, rs>>
  BY <1>1, <1>2, Changes DEF PhaseMoves, MemoryChanges, DiskChanges
<1>4. /\ pc' = "rotateSave" <=> pc = "rotateSave"
      /\ pc' \in {"removing", "commit"} <=> pc \in {"removing", "commit"}
      /\ pc' = "openPush" <=> pc = "openPush"
  BY <1>1, <1>2 DEF PhaseMoves, ASave
<1>5. pc \in {"removing", "commit"} => job'.table = job.table
  BY <1>2, <1>4, JobKept, ActionPcs, MorePcs DEF CInv
<1>6. pc \in {"rotateSave", "openPush"} => job'.log = job.log
  BY <1>2, <1>4, JobKept, ActionPcs, MorePcs DEF CInv
<1> QED
  BY <1>3, <1>4, <1>5, <1>6 DEF Still, JobLog

LEMMA MembersStep ==
    ASSUME CInv, [BNext]_vars
    PROVE  Members'
<1> DEFINE New(p, j, t) == IF p = "rotateSave" THEN {j}
                           ELSE IF p \in {"removing", "commit"} THEN {t} ELSE {}
           Coming(p, j) == IF p = "openPush" THEN {j} ELSE {}
           Good(top, low, list, r, p, j, t) ==
               /\ top \cap low = {}
               /\ top \cup low \subseteq list \cup New(p, j, t)
               /\ p \in {"removing", "commit"} => t \in r
               /\ list \subseteq top \cup low \cup Coming(p, j)
<1> SUFFICES ASSUME Up'
             PROVE  Good(TopFiles', LowerFiles', FileSet(diskMeta'), rs', pc', JobLog',
                         TableFile(job'.table))
  BY DEF Members
<1>1. Up => Good(TopFiles, LowerFiles, FileSet(diskMeta), rs, pc, JobLog, TableFile(job.table))
  BY DEF CInv, Members
<1>2. CASE Up /\ Still
  <2>1. TopFiles' = TopFiles /\ LowerFiles' = LowerFiles
    BY <1>2 DEF Still, TopFiles, LowerFiles
  <2>2. PICK j, t, k, u : j = JobLog /\ t = TableFile(job.table) /\ k = JobLog'
                          /\ u = TableFile(job'.table)
    OBVIOUS
  <2>3. /\ pc \in {"removing", "commit"} => u = t
        /\ pc \in {"rotateSave", "openPush"} => k = j
    BY <1>2, <2>2 DEF Still
  <2>4. /\ New(pc', k, u) = New(pc, j, t) /\ Coming(pc', k) = Coming(pc, j)
        /\ pc' \in {"removing", "commit"} => u \in rs
    BY <1>1, <1>2, <2>2, <2>3 DEF Still
  <2>5. /\ TopFiles \cap LowerFiles = {}
        /\ TopFiles \cup LowerFiles \subseteq FileSet(diskMeta) \cup New(pc, j, t)
        /\ FileSet(diskMeta) \subseteq TopFiles \cup LowerFiles \cup Coming(pc, j)
    BY <1>1, <1>2, <2>2
  <2> HIDE DEF New, Coming
  <2>6. Good(TopFiles, LowerFiles, FileSet(diskMeta), rs, pc', k, u)
    BY <2>4, <2>5
  <2> HIDE DEF Good
  <2> QED
    BY <1>2, <2>1, <2>2, <2>6 DEF Still
<1>3. CASE OpenLoad
  <2>1. /\ pc = "down" /\ pc' = "openMake"
        /\ UNCHANGED <<diskMeta, writers, rs>> /\ pendingReaders' = Reverse(diskMeta)
    BY <1>3 DEF OpenLoad
  <2>2. TopFiles' = {}
    BY <2>1, TopIs DEF TopFiles
  <2>3. rs' = {}
    BY <2>1 DEF CInv, BInv, DownEmpty
  <2>4. LowerFiles' = FileSet(diskMeta)
    BY <2>1, <2>3, ReverseFiles, ListFacts DEF LowerFiles
  <2> QED
    BY <2>1, <2>2, <2>3, <2>4
<1>4. CASE RotateMakeLog
  <2>1. /\ pc = "rotate" /\ pc' = "rotateSave" /\ Up
        /\ NewName \in Logs \ logFiles
        /\ writers' = <<LogFile(NewName)>> \o writers
        /\ UNCHANGED <<diskMeta, pendingReaders, rs>>
        /\ job' = [job EXCEPT !.log = NewName]
    BY <1>4, FreshName DEF RotateMakeLog, Goto, CInv, BInv, Up, Closing
  <2>2. TopFiles' = TopFiles \cup {LogFile(NewName)}
    BY <2>1, LogFields, PrependFile DEF TopFiles, CInv, BInv, ReadersType
  <2>3. LowerFiles' = LowerFiles /\ JobLog' = LogFile(NewName)
    BY <2>1 DEF LowerFiles, JobLog, CInv, BInv, JobType
  <2>4. LogFile(NewName) \notin LowerFiles
    <3> SUFFICES ASSUME LogFile(NewName) \in LowerFiles PROVE FALSE
      OBVIOUS
    <3>1. Exists(LogFile(NewName))
      BY <2>1, InUseExists DEF InUse
    <3> QED
      BY <2>1, <3>1, LogFields DEF Exists
  <2> QED
    BY <1>1, <2>1, <2>2, <2>3, <2>4
<1>5. CASE ASave
  <2>1. TopFiles' = TopFiles /\ LowerFiles' = LowerFiles /\ JobLog' = JobLog /\ rs' = rs
    BY <1>5, Saved DEF TopFiles, LowerFiles, JobLog
  <2>2. Up /\ FileSet(diskMeta') = FileSet(diskMeta) \cup {JobLog}
    BY <1>5, Saved
  <2>3. \/ pc = "openSave" /\ pc' = "openPush"
        \/ pc = "rotateSave" /\ pc' = "rotateSwap" /\ JobLog \in TopFiles
    BY <1>5, Saved, TopIs DEF Rotating
  <2> QED
    BY <1>1, <2>1, <2>2, <2>3
<1>6. CASE OpenPush
  <2>1. /\ pc = "openPush" /\ pc' = "idle" /\ Up
        /\ UNCHANGED <<diskMeta, pendingReaders, rs>>
        /\ writers' = <<JobLog>>
    BY <1>6, FirstLog
  <2>2. TopFiles = {} /\ TopFiles' = {JobLog} /\ LowerFiles' = LowerFiles
    <3>1. FileSet(writers') = {JobLog}
      BY <2>1, ShortLists
    <3> QED
      BY <2>1, <3>1, TopIs DEF TopFiles, LowerFiles, Opening
  <2>3. JobLog \in FileSet(diskMeta) /\ JobLog \notin LowerFiles
    BY <2>1 DEF CInv, ListEnd, Newest, NewLog, Making
  <2> QED
    BY <1>1, <2>1, <2>2, <2>3
<1>7. CASE RotatePush
  <2>1. /\ pc = "rotatePush" /\ pc' = "start" /\ Up
        /\ UNCHANGED <<diskMeta, rs>>
        /\ FileSet(pendingReaders') = FileSet(pendingReaders) \cup {JobLog}
        /\ writers' = <<Active>>
    BY <1>7, PushedReader, PushedWriters
  <2>2. TopFiles' = {Active} /\ TopFiles = {Active, JobLog} /\ Active # JobLog
    <3>1. FileSet(writers') = {Active}
      BY <2>1, ShortLists
    <3> QED
      BY <2>1, <3>1, TopIs DEF TopFiles, Rotating, CInv, WritersShape
  <2>3. LowerFiles' = LowerFiles \cup {JobLog}
    BY <2>1 DEF LowerFiles
  <2> QED
    BY <1>1, <2>1, <2>2, <2>3
<1>8. CASE Merge
  <2>1. /\ UNCHANGED <<diskMeta, writers, pc, job>>
        /\ rs' = rs \cup FileSet(pendingReaders)
        /\ pendingReaders' = <<>>
    BY <1>8 DEF Merge
  <2>2. TopFiles' = TopFiles /\ LowerFiles' = LowerFiles /\ JobLog' = JobLog
    BY <2>1, ShortLists DEF TopFiles, LowerFiles, JobLog
  <2>3. Up
    BY <2>1 DEF Up
  <2> QED
    BY <1>1, <2>1, <2>2, <2>3
<1>9. CASE Install
  <2>1. /\ pc = "install" /\ pc' = "removing" /\ Up
        /\ UNCHANGED <<diskMeta, writers, pendingReaders>>
        /\ rs' = rs \cup {TableFile(job.table)}
        /\ job'.table = job.table
    BY <1>9 DEF Install, Goto, Up, Closing, CInv, BInv, JobType
  <2>2. TopFiles' = TopFiles /\ LowerFiles' = LowerFiles \cup {TableFile(job.table)}
    BY <2>1 DEF TopFiles, LowerFiles
  <2>3. TableFile(job.table) \notin TopFiles
    <3>1. TopFiles = {Active}
      BY <2>1, TopIs DEF Serving, Rotating
    <3> QED
      BY <3>1, LogFields DEF Active
  <2> QED
    BY <1>1, <2>1, <2>2, <2>3
<1>10. CASE Commit
  <2>1. /\ pc = "commit" /\ pc' = "delete" /\ Up /\ Serving
        /\ FileSet(diskMeta') = ((FileSet(diskMeta) \ {JobLog}) \cup {TableFile(job.table)}) \ Unused
        /\ rs' = rs \ Unused
        /\ TopFiles = {Active} /\ LowerFiles = rs /\ JobLog \in Unused
        /\ UNCHANGED <<writers, pendingReaders>>
    BY <1>10, Committed, LogsUnused
  <2>2. TopFiles' = TopFiles
    BY <2>1 DEF TopFiles
  <2>3. LowerFiles' = rs \ Unused
    <3>1. pendingReaders = <<>>
      BY <2>1 DEF CInv, BInv, ReadersType, Compacting
    <3> QED
      BY <2>1, <3>1, ShortLists DEF LowerFiles
  <2>4. Active \in FileSet(diskMeta)
    BY <2>1 DEF CInv, ListEnd, Newest
  <2>5. Unused \subseteq rs
    BY DEF Unused
  <2> QED
    BY <1>1, <2>1, <2>2, <2>3, <2>4, <2>5
<1> HIDE DEF Good
<1> QED
  BY <1>2, <1>3, <1>4, <1>5, <1>6, <1>7, <1>8, <1>9, <1>10, StillSteps

\* The files of a list as a tracker sees them.
LEMMA ListedLogs ==
    ASSUME CInv, NEW l \in Logs
    PROVE  /\ LogFile(l) \in FileSet(diskMeta) => l \in LogsOf(diskMeta)
           /\ l \in LogsOf(diskMeta) => LogFile(l) \in FileSet(diskMeta)
<1>1. ASSUME LogFile(l) \in FileSet(diskMeta) PROVE l \in LogsOf(diskMeta)
  BY <1>1, LogFields DEF LogsOf
<1>2. ASSUME l \in LogsOf(diskMeta) PROVE LogFile(l) \in FileSet(diskMeta)
  <2>1. PICK e \in FileSet(diskMeta) : e.type = "log" /\ e.name = l
    BY <1>2 DEF LogsOf
  <2> QED
    BY <2>1, ListFacts, FileKinds
<1> QED
  BY <1>1, <1>2

\* The new table replaces the pending logs.
LEMMA Installed ==
    ASSUME CInv, Install
    PROVE  /\ pc = "install" /\ pc' = "removing" /\ Up /\ Serving
           /\ pendingWriters' = <<>> /\ Pending' = {}
           /\ job'.log \in Pending /\ job'.table = job.table
           /\ pendingReaders = <<>>
           /\ rs' = rs \cup {TableFile(job.table)}
           /\ index' = [b \in Blocks |-> IF Content(TableFile(job.table), b) # 0
                                         THEN TableFile(job.table) ELSE index[b]]
           /\ UNCHANGED <<diskMeta, meta, writers, pendingReaders, tables, entries, activeWriter, wr>>
<1>1. /\ pc = "install" /\ pc' = "removing"
      /\ job' = [job EXCEPT !.log = Last(pendingWriters)]
      /\ RemoveStart(Len(pendingWriters))
      /\ rs' = rs \cup {TableFile(job.table)}
      /\ index' = [b \in Blocks |-> IF Content(TableFile(job.table), b) # 0
                                    THEN TableFile(job.table) ELSE index[b]]
      /\ UNCHANGED <<diskMeta, meta, writers, pendingReaders, tables, entries, activeWriter, wr>>
  BY DEF Install, Goto, RemoveStart
<1>2. PICK pw : pw = pendingWriters
  OBVIOUS
<1>3. /\ pw \in Seq(Logs) /\ Len(pw) \in 1..Len(pw)
      /\ pendingWriters' = SubSeq(pw, Len(pw) + 1, Len(pw))
  BY <1>1, <1>2 DEF RemoveStart, CInv, BInv, WInv, WTypeOK
<1>4. pendingWriters' = <<>>
  BY <1>3
<1>5. Pending' = {}
  BY <1>4 DEF Pending
<1>6. Last(pw) = pw[Len(pw)] /\ Len(pw) \in DOMAIN pw
  BY <1>3 DEF Last
<1>7. Last(pendingWriters) \in Pending
  BY <1>2, <1>6 DEF Pending
<1>8. job'.log = Last(pendingWriters) /\ job'.table = job.table
  BY <1>1 DEF CInv, BInv, JobType
<1>9. pendingReaders = <<>>
  BY <1>1 DEF CInv, BInv, ReadersType, Compacting
<1> QED
  BY <1>1, <1>4, <1>5, <1>7, <1>8, <1>9 DEF Up, Serving, Closing

LEMMA Loaded ==
    ASSUME CInv, OpenLoad
    PROVE  /\ pc = "down" /\ pc' = "openMake"
           /\ pendingReaders' = Reverse(diskMeta)
           /\ pendingWriters' = LogNames(diskMeta)
           /\ Pending' = LogsOf(diskMeta)
           /\ rs' = {}
           /\ UNCHANGED <<diskMeta, index, entries, tables>>
<1>1. /\ pc = "down" /\ pc' = "openMake"
      /\ pendingReaders' = Reverse(diskMeta)
      /\ pendingWriters' = LogNames(diskMeta)
      /\ UNCHANGED <<diskMeta, rs, index, entries, tables>>
  BY DEF OpenLoad
<1>2. rs = {}
  BY <1>1 DEF CInv, BInv, DownEmpty
<1>3. PICK names : names = LogNames(diskMeta)
  OBVIOUS
<1>4. /\ \A i \in DOMAIN names : names[i] \in LogsOf(diskMeta)
      /\ \A l \in LogsOf(diskMeta) : \E i \in DOMAIN names : names[i] = l
  BY <1>3, LogNamesList, ListFacts
<1>5. Pending' = {names[i] : i \in DOMAIN names}
  BY <1>1, <1>3 DEF Pending
<1>6. Pending' = LogsOf(diskMeta)
  BY <1>4, <1>5
<1> QED
  BY <1>1, <1>2, <1>6

\* What else changes which logs are known.
LEMMA TrackerStill ==
    ASSUME CInv, [BNext]_vars, Up'
    PROVE  \/ /\ Up /\ UNCHANGED <<pendingWriters, activeWriter, diskMeta>>
              /\ pc' \in {"removing", "commit"} <=> pc \in {"removing", "commit"}
              /\ pc \in {"openPush", "rotateSwap"} => pc' = pc
              /\ pc' \in {"openPush", "rotateSwap", "removing", "commit"} => job'.log = job.log
           \/ OpenLoad \/ ASave \/ OpenPush \/ RotateSwap \/ Install \/ Commit
<1> SUFFICES ASSUME ~OpenLoad, ~ASave, ~OpenPush, ~RotateSwap, ~Install, ~Commit
             PROVE  /\ Up /\ UNCHANGED <<pendingWriters, activeWriter, diskMeta>>
                    /\ pc' \in {"removing", "commit"} <=> pc \in {"removing", "commit"}
                    /\ pc \in {"openPush", "rotateSwap"} => pc' = pc
                    /\ pc' \in {"openPush", "rotateSwap", "removing", "commit"} => job'.log = job.log
  OBVIOUS
<1>1. TrackerMoves /\ PhaseMoves
  BY TrackerFrame, PhaseFrame DEF CInv, BInv, WInv
<1>2. ~ForgetMemory /\ ~CloseSave /\ ~BCloseStart
  BY ActionPcs, MorePcs DEF Up, Closing
<1>3. Up /\ UNCHANGED <<pendingWriters, activeWriter, diskMeta>>
  BY <1>1, <1>2, Changes DEF PhaseMoves, TrackerMoves, DiskChanges
<1>4. /\ pc' \in {"removing", "commit"} <=> pc \in {"removing", "commit"}
      /\ pc \in {"openPush", "rotateSwap"} => pc' = pc
  BY <1>1, <1>2 DEF PhaseMoves
<1>5. pc' \in {"openPush", "rotateSwap", "removing", "commit"} => job'.log = job.log
  BY <1>2, JobKept, ActionPcs, MorePcs DEF CInv
<1> QED
  BY <1>3, <1>4, <1>5

LEMMA LogMembersStep ==
    ASSUME CInv, [BNext]_vars
    PROVE  LogMembers'
<1> SUFFICES ASSUME Up'
             PROVE  /\ \A l \in Pending' : LogFile(l) \in FileSet(diskMeta')
                    /\ pc' \notin {"removing", "commit"} =>
                          \A l \in Logs : LogFile(l) \in FileSet(diskMeta') =>
                              \/ l \in Pending' \cup {activeWriter'}
                              \/ pc' \in {"openPush", "rotateSwap"} /\ l = job'.log
                    /\ pc' \in {"removing", "commit"} =>
                          /\ pendingWriters' = <<>>
                          /\ JobLog' \in FileSet(diskMeta')
                          /\ job'.log # activeWriter'
  BY DEF LogMembers
<1>1. ASSUME Up
      PROVE  /\ \A l \in Pending : LogFile(l) \in FileSet(diskMeta)
             /\ pc \notin {"removing", "commit"} =>
                   \A l \in Logs : LogFile(l) \in FileSet(diskMeta) =>
                       \/ l \in Pending \cup {activeWriter}
                       \/ pc \in {"openPush", "rotateSwap"} /\ l = job.log
             /\ pc \in {"removing", "commit"} =>
                   /\ pendingWriters = <<>>
                   /\ JobLog \in FileSet(diskMeta)
                   /\ job.log # activeWriter
  BY <1>1 DEF CInv, LogMembers
<1>2. Pending \subseteq Logs
  BY DEF Pending, CInv, BInv, WInv, WTypeOK
<1>3. CASE OpenLoad
  BY <1>3, Loaded, ListedLogs, LogNamesList, ListFacts
<1>4. CASE ASave
  <2>1. /\ Up /\ pc \notin {"removing", "commit"} /\ pc \notin {"openPush", "rotateSwap"}
        /\ pc' \in {"openPush", "rotateSwap"}
        /\ FileSet(diskMeta') = FileSet(diskMeta) \cup {JobLog}
        /\ Pending' = Pending /\ UNCHANGED <<activeWriter, job>>
    BY <1>4, Saved DEF Pending, wvars
  <2>2. \A l \in Logs : LogFile(l) = JobLog => l = job.log
    BY LogFields DEF JobLog
  <2> QED
    BY <1>1, <2>1, <2>2
<1>5. CASE OpenPush
  <2>1. /\ pc = "openPush" /\ pc' = "idle" /\ Up
        /\ activeWriter' = job.log /\ diskMeta' = diskMeta /\ Pending' = Pending
    BY <1>5, FirstLog DEF Pending
  <2>2. activeWriter = NoLog
    BY <1>5 DEF OpenPush, PushFirstLog
  <2> QED
    BY <1>1, <2>1, <2>2, NoLogAssumption
<1>6. CASE RotateSwap
  <2>1. Pending' = Pending \cup {activeWriter}
    BY <1>6, Swapped, PendingAppend DEF CInv, BInv, WInv, WTypeOK
  <2>2. Active \in FileSet(diskMeta)
    BY <1>6, Swapped DEF CInv, ListEnd, Newest
  <2> QED
    BY <1>1, <1>6, <2>1, <2>2, Swapped DEF Active
<1>7. CASE Install
  <2>1. activeWriter \notin Pending
    BY <1>7, Installed DEF CInv, Calls, BInv, WInv, LogsHeld
  <2> QED
    BY <1>1, <1>7, <2>1, Installed DEF JobLog
<1>8. CASE Commit
  <2>1. /\ pc = "commit" /\ pc' = "delete" /\ Up
        /\ FileSet(diskMeta') \subseteq FileSet(diskMeta) \cup {TableFile(job.table)}
        /\ FileSet(diskMeta') \cap Unused = {}
        /\ UNCHANGED <<pendingWriters, activeWriter>>
    BY <1>8, Committed, LogsUnused
  <2>2. Pending' = {}
    BY <1>1, <2>1 DEF Pending
  <2>3. ASSUME NEW l \in Logs, LogFile(l) \in FileSet(diskMeta') PROVE l = activeWriter
    <3>1. LogFile(l) \in FileSet(diskMeta) /\ LogFile(l) \notin Unused
      BY <2>1, <2>3, LogFields
    <3> QED
      BY <2>1, <3>1, LogsUnused
  <2> QED
    BY <2>1, <2>2, <2>3
<1>9. CASE /\ Up /\ UNCHANGED <<pendingWriters, activeWriter, diskMeta>>
           /\ pc' \in {"removing", "commit"} <=> pc \in {"removing", "commit"}
           /\ pc \in {"openPush", "rotateSwap"} => pc' = pc
           /\ pc' \in {"openPush", "rotateSwap", "removing", "commit"} => job'.log = job.log
  <2>1. Pending' = Pending
    BY <1>9 DEF Pending
  <2>2. pc' \in {"removing", "commit"} => JobLog' = JobLog
    BY <1>9 DEF JobLog
  <2> QED
    BY <1>1, <1>9, <2>1, <2>2
<1> QED
  BY <1>3, <1>4, <1>5, <1>6, <1>7, <1>8, <1>9, TrackerStill

LEMMA StackOrderStep ==
    ASSUME CInv, [BNext]_vars
    PROVE  StackOrder'
<1> DEFINE Readers(list, p) == \A i, j \in DOMAIN p : i < j => Before(list, p[j], p[i])
           Under(list, r, p) == \A e \in r, f \in FileSet(p) : Before(list, e, f)
           Logged(list, w) == \A i, j \in DOMAIN w :
                                 i < j => Before(list, LogFile(w[i]), LogFile(w[j]))
           Goal == /\ Readers(diskMeta', pendingReaders')
                   /\ Under(diskMeta', rs', pendingReaders')
                   /\ Logged(diskMeta', pendingWriters')
<1> SUFFICES ASSUME Up' PROVE Goal
  BY DEF StackOrder
<1>1. ASSUME Up
      PROVE  /\ Readers(diskMeta, pendingReaders)
             /\ Under(diskMeta, rs, pendingReaders)
             /\ Logged(diskMeta, pendingWriters)
  BY <1>1 DEF CInv, StackOrder
<1>2. /\ \A list, r : Readers(list, <<>>) /\ Under(list, r, <<>>)
      /\ \A list : Logged(list, <<>>)
  <2>1. DOMAIN <<>> = {}
    OBVIOUS
  <2>2. FileSet(<<>>) = {}
    BY <2>1 DEF FileSet
  <2> QED
    BY <2>1, <2>2
<1>3. TrackerMoves /\ PhaseMoves
  BY TrackerFrame, PhaseFrame DEF CInv, BInv, WInv
<1>4. CASE OpenLoad
  <2>1. /\ pendingReaders' = Reverse(diskMeta)
        /\ pendingWriters' = LogNames(diskMeta)
        /\ rs' = {} /\ diskMeta' = diskMeta
    BY <1>4, Loaded
  <2>2. Readers(diskMeta, Reverse(diskMeta))
    BY ReverseOrder, ListFacts
  <2>3. Logged(diskMeta, LogNames(diskMeta))
    BY LogNamesList, ListFacts
  <2> QED
    BY <2>1, <2>2, <2>3
<1>5. CASE ASave
  <2>1. UNCHANGED <<pendingReaders, rs, pendingWriters>> /\ Up
    BY <1>5, Saved DEF wvars
  <2>2. \A f, g : Before(diskMeta, f, g) => Before(diskMeta', f, g)
    BY <1>5, Saved
  <2> QED
    BY <1>1, <2>1, <2>2
<1>6. CASE RotatePush
  <2>1. /\ pc = "rotatePush" /\ Up /\ UNCHANGED <<diskMeta, rs, pendingWriters>>
        /\ FileSet(pendingReaders') = FileSet(pendingReaders) \cup {JobLog}
        /\ pendingReaders' = <<JobLog>> \o pendingReaders
    BY <1>6, PushedReader DEF RotatePush, JobLog, wvars
  <2>2. ASSUME NEW f \in LowerFiles PROVE Before(diskMeta, f, JobLog)
    <3>1. f \in FileSet(diskMeta)
      BY <2>1 DEF CInv, Members
    <3>2. f # Active /\ f # JobLog
      BY <2>1, TopIs DEF CInv, Members, Rotating
    <3>3. Newest(JobLog, {Active})
      BY <2>1 DEF CInv, ListEnd
    <3> QED
      BY <3>1, <3>2, <3>3 DEF Newest
  <2>3. Under(diskMeta, rs, pendingReaders')
    BY <1>1, <2>1, <2>2 DEF LowerFiles
  <2>4. Readers(diskMeta, pendingReaders')
    <3>1. PICK p, n, k, x : p = pendingReaders /\ n = Len(p) /\ k = JobLog /\ x = <<k>> \o p
      OBVIOUS
    <3>2. /\ p \in Seq(DataFiles) /\ n \in Nat /\ DOMAIN p = 1..n
          /\ x = pendingReaders'
      BY <2>1, <3>1 DEF CInv, BInv, ReadersType
    <3>3. /\ DOMAIN x = 1..(n + 1)
          /\ x[1] = k
          /\ \A i \in 2..(n + 1) : i - 1 \in 1..n /\ x[i] = p[i - 1]
      BY <3>1, <3>2
    <3>4. \A i \in 1..n : p[i] \in LowerFiles
      BY <3>1, <3>2 DEF LowerFiles, FileSet
    <3>5. ASSUME NEW i \in DOMAIN x, NEW j \in DOMAIN x, i < j
          PROVE  Before(diskMeta, x[j], x[i])
      <4>1. j \in 2..(n + 1) /\ j - 1 \in 1..n /\ x[j] = p[j - 1]
        BY <3>2, <3>3, <3>5
      <4>2. CASE i = 1
        BY <2>2, <3>1, <3>3, <3>4, <4>1, <4>2
      <4>3. CASE i # 1
        <5>1. i \in 2..(n + 1) /\ i - 1 \in 1..n /\ x[i] = p[i - 1] /\ i - 1 < j - 1
          BY <3>2, <3>3, <3>5, <4>3
        <5> QED
          BY <1>1, <2>1, <3>1, <3>2, <4>1, <5>1
      <4> QED
        BY <4>2, <4>3
    <3> QED
      BY <3>2, <3>5
  <2> QED
    BY <1>1, <2>1, <2>3, <2>4
<1>7. CASE Merge
  <2>1. pendingReaders' = <<>> /\ UNCHANGED <<diskMeta, pendingWriters, pc>>
    BY <1>7 DEF Merge, wvars
  <2> QED
    BY <1>1, <1>2, <2>1 DEF Up
<1>8. CASE Install
  BY <1>2, <1>8, Installed
<1>9. CASE Commit
  <2>1. pendingReaders' = <<>> /\ pendingWriters' = <<>>
    BY <1>9, Committed, LogsUnused DEF CInv, LogMembers, BInv, ReadersType, Compacting
  <2> QED
    BY <1>2, <2>1
<1>10. CASE RotateSwap
  <2>1. /\ Up /\ pc = "rotateSwap" /\ UNCHANGED <<diskMeta, rs, pendingReaders>>
        /\ pendingWriters' = Append(pendingWriters, activeWriter)
    BY <1>10, Swapped
  <2>2. ASSUME NEW l \in Pending PROVE Before(diskMeta, LogFile(l), Active)
    <3>1. LogFile(l) \in FileSet(diskMeta)
      BY <2>1 DEF CInv, LogMembers
    <3>2. l # activeWriter /\ l # job.log
      BY <1>10, <2>1, Swapped, NoLogAssumption DEF CInv, NewLog, Making, BInv, WInv, LogsHeld
    <3>3. Newest(Active, {JobLog})
      BY <2>1 DEF CInv, ListEnd
    <3> QED
      BY <3>1, <3>2, <3>3, LogFields DEF Newest, Active, JobLog
  <2>3. PICK w, n, a, x : w = pendingWriters /\ n = Len(w) /\ a = activeWriter /\ x = Append(w, a)
    OBVIOUS
  <2>4. w \in Seq(Logs) /\ n \in Nat /\ DOMAIN w = 1..n /\ x = pendingWriters' /\ a \in Logs
    BY <1>10, <2>1, <2>3, Swapped DEF CInv, BInv, WInv, WTypeOK
  <2>5. /\ DOMAIN x = 1..(n + 1)
        /\ x[n + 1] = a
        /\ \A i \in 1..n : x[i] = w[i]
    <3>1. w \in Seq(Logs) /\ a \in Logs
      BY <2>4
    <3>2. /\ DOMAIN Append(w, a) = 1..(Len(w) + 1)
          /\ Append(w, a)[Len(w) + 1] = a
          /\ \A i \in 1..Len(w) : Append(w, a)[i] = w[i]
      BY <3>1
    <3> QED
      BY <2>3, <3>2
  <2>6. \A i \in 1..n : w[i] \in Pending
    BY <2>3, <2>4 DEF Pending
  <2>7. Logged(diskMeta, x)
    <3> SUFFICES ASSUME NEW i \in DOMAIN x, NEW j \in DOMAIN x, i < j
                 PROVE  Before(diskMeta, LogFile(x[i]), LogFile(x[j]))
      OBVIOUS
    <3>1. i \in 1..n /\ x[i] = w[i]
      BY <2>4, <2>5
    <3>2. CASE j = n + 1
      BY <2>2, <2>3, <2>5, <2>6, <3>1, <3>2 DEF Active
    <3>3. CASE j # n + 1
      <4>1. j \in 1..n /\ x[j] = w[j]
        BY <2>4, <2>5, <3>3
      <4> QED
        BY <1>1, <2>1, <2>3, <2>4, <3>1, <4>1
    <3> QED
      BY <3>2, <3>3
  <2> QED
    BY <1>1, <2>1, <2>4, <2>7
<1>11. CASE UNCHANGED <<diskMeta, pendingReaders, rs, pendingWriters>> /\ ~OpenLoad
  <2>1. Up
    BY <1>3, <1>11 DEF PhaseMoves
  <2> QED
    BY <1>1, <1>11, <2>1
<1>12. ~ForgetMemory /\ ~CloseSave /\ ~BCloseStart
  BY ActionPcs, MorePcs DEF Up, Closing
<1> HIDE DEF Goal
<1> QED
  BY <1>3, <1>4, <1>5, <1>6, <1>7, <1>8, <1>9, <1>10, <1>11, <1>12, Changes
  DEF TrackerMoves, MemoryChanges, DiskChanges

\* A write leaves every other file alone.
LEMMA WriteElsewhere ==
    ASSUME CInv, NEW b \in Blocks, NEW k \in Logs, WriteOf(b, k),
           NEW e \in DataFiles \cup {NoFile}, e # LogFile(k)
    PROVE  /\ \A c, v : Has(e, c, v)' <=> Has(e, c, v)
           /\ \A c : Content(e, c)' = Content(e, c)
<1>1. UNCHANGED tables
  BY DEF WriteOf
<1>2. e.type = "log" => e.name # k /\ e.name \in Logs
  BY FileKinds, LogFields
<1>3. e.type = "log" => entries'[e.name] = entries[e.name]
  BY <1>2 DEF WriteOf, CInv, BInv, WInv, WTypeOK
<1>4. \A c, v : Has(e, c, v)' <=> Has(e, c, v)
  BY <1>1, <1>3 DEF Has
<1>5. ASSUME NEW c PROVE Content(e, c)' = Content(e, c)
  <2>1. CASE e.type = "log"
    <3>1. /\ Content(e, c) = LastOf(entries[e.name], c)
          /\ Content(e, c)' = LastOf(entries'[e.name], c)
      BY <2>1 DEF Content, LogContent, LastOf
    <3> QED
      BY <1>3, <2>1, <3>1
  <2>2. CASE e.type # "log"
    BY <1>1, <2>2 DEF Content
  <2> QED
    BY <2>1, <2>2
<1> QED
  BY <1>4, <1>5

\* Nothing that is indexed changes.
LEMMA IndexedKept ==
    ASSUME CInv, [BNext]_vars, ~PowerLoss, Up, NEW e \in rs \cup {NoFile}
    PROVE  /\ \A c, v : Has(e, c, v)' <=> Has(e, c, v)
           /\ \A c : Content(e, c)' = Content(e, c)
<1>1. CASE e = NoFile
  BY <1>1, LogFields DEF Has, Content
<1>2. CASE e \in rs
  <2>1. e \in InUse /\ e \in LowerFiles /\ e \in DataFiles
    BY <1>2 DEF InUse, LowerFiles, CInv, BInv, ReadersType
  <2>2. CASE AWrite
    <3>1. PICK b \in Blocks, k \in Logs : WriteOf(b, k)
      BY <2>2, Written
    <3>2. e # LogFile(k)
      BY <2>1, <3>1, WriteFacts DEF CInv, Members
    <3> QED
      BY <2>1, <3>1, <3>2, WriteElsewhere
  <2>3. CASE ~AWrite
    BY <2>1, <2>3, HasKept
  <2> QED
    BY <2>2, <2>3
<1> QED
  BY <1>1, <1>2

\* What a file in use gives for a block.
LEMMA GivenIs ==
    ASSUME CInv, NEW b \in Blocks, NEW e \in InUse
    PROVE  /\ Content(e, b) \in Versions
           /\ Content(e, b) # 0 => Has(e, b, Content(e, b))
           /\ \A v \in Versions : Has(e, b, v) => v <= Content(e, b) /\ Content(e, b) # 0
<1>1. ContentFacts /\ Readable(e)
  BY InUseExists DEF ContentFacts, CInv, BInv, WInv
<1>2. /\ Content(e, b) \in Versions
      /\ Content(e, b) # 0 => Has(e, b, Content(e, b))
      /\ \A v \in Versions : Has(e, b, v) => v <= Content(e, b) /\ v # 0
  BY <1>1, ContentIs
<1>3. \A v \in Versions : v # 0 /\ v <= Content(e, b) => Content(e, b) # 0
  BY <1>2 DEF Versions
<1> QED
  BY <1>2, <1>3

\* The index after the pending readers are merged into it.
LEMMA MergedTop ==
    ASSUME CInv, Merge, Up, NEW b \in Blocks
    PROVE  /\ index'[b] \in rs'
              \/ index'[b] = NoFile
           /\ index'[b] # NoFile => Content(index'[b], b) # 0
           /\ \A e \in rs' : \A v \in Versions : Has(e, b, v) => v <= Content(index'[b], b)
<1>1. PICK p, T, i0, g : /\ p = pendingReaders
                         /\ T = {i \in DOMAIN p : Content(p[i], b) # 0}
                         /\ i0 = index[b]
                         /\ g = index'[b]
  OBVIOUS
<1>2. /\ g = IF T = {} THEN i0 ELSE p[Min(T)]
      /\ rs' = rs \cup FileSet(p)
  BY <1>1 DEF Merge
<1>3. p \in Seq(DataFiles) /\ DOMAIN p = 1..Len(p) /\ Len(p) \in Nat
  BY <1>1 DEF CInv, BInv, ReadersType
<1>4. /\ i0 \in rs \cup {NoFile}
      /\ i0 # NoFile => Content(i0, b) # 0
      /\ \A e \in rs : \A v \in Versions : Has(e, b, v) => v <= Content(i0, b)
  BY <1>1, IndexHas DEF CInv, IndexTop
<1>5. \A i \in DOMAIN p : p[i] \in FileSet(p) /\ p[i] \in InUse
  BY <1>1 DEF FileSet, InUse, LowerFiles
<1>6. ASSUME NEW i \in DOMAIN p, NEW v \in Versions, Has(p[i], b, v)
      PROVE  i \in T /\ v <= Content(p[i], b)
  BY <1>1, <1>5, <1>6, GivenIs
<1>7. CASE T = {}
  <2>1. ASSUME NEW e \in FileSet(p), NEW v \in Versions, Has(e, b, v) PROVE FALSE
    <3>1. PICK i \in DOMAIN p : e = p[i]
      BY DEF FileSet
    <3> QED
      BY <1>6, <1>7, <2>1, <3>1
  <2> QED
    BY <1>1, <1>2, <1>4, <1>7, <2>1
<1>8. CASE T # {}
  <2>1. PICK m : m = Min(T)
    OBVIOUS
  <2>2. T \in SUBSET Nat
    BY <1>1, <1>3
  <2>3. m \in T /\ \A i \in T : m <= i
    BY <1>8, <2>1, <2>2, MinOfSet
  <2>4. g = p[m] /\ m \in DOMAIN p /\ Content(g, b) # 0
    BY <1>1, <1>2, <1>8, <2>1, <2>3
  <2>5. g \in InUse /\ g \in FileSet(p) /\ g \in FileSet(pendingReaders)
    BY <1>1, <1>5, <2>4
  <2>6. PICK c : c = Content(g, b)
    OBVIOUS
  <2>7. c \in Versions /\ Has(g, b, c)
    BY <2>4, <2>5, <2>6, GivenIs
  <2>8. ASSUME NEW e, Before(diskMeta, e, g), NEW v \in Versions, Has(e, b, v) PROVE v <= c
    <3>1. Older(e, g)
      BY <2>8, BeforeFiles DEF CInv, ListOrder, InOrder
    <3> QED
      BY <2>7, <2>8, <3>1 DEF Older
  <2>9. ASSUME NEW e \in rs, NEW v \in Versions, Has(e, b, v) PROVE v <= c
    <3>1. Before(diskMeta, e, g)
      BY <2>5 DEF CInv, StackOrder
    <3> QED
      BY <2>8, <2>9, <3>1
  <2>10. ASSUME NEW e \in FileSet(p), NEW v \in Versions, Has(e, b, v) PROVE v <= c
    <3>1. PICK i \in DOMAIN p : e = p[i]
      BY DEF FileSet
    <3>2. i \in T /\ v <= Content(p[i], b)
      BY <1>6, <2>10, <3>1
    <3>3. CASE i = m
      BY <2>4, <2>6, <3>2, <3>3
    <3>4. CASE i # m
      <4>1. m < i
        <5>1. m \in Nat /\ i \in Nat /\ m <= i
          BY <2>2, <2>3, <3>2
        <5> QED
          BY <3>4, <5>1
      <4>2. Before(diskMeta, p[i], p[m])
        BY <1>1, <2>4, <4>1 DEF CInv, StackOrder
      <4> QED
        BY <2>4, <2>8, <2>10, <3>1, <4>2
    <3> QED
      BY <3>3, <3>4
  <2> QED
    BY <1>1, <1>2, <2>4, <2>5, <2>6, <2>9, <2>10
<1> QED
  BY <1>7, <1>8

LEMMA IndexTopStep ==
    ASSUME CInv, [BNext]_vars
    PROVE  IndexTop'
<1> SUFFICES ASSUME Up', NEW b \in Blocks
             PROVE  /\ (index[b] # NoFile => Content(index[b], b) # 0)'
                    /\ \A e \in rs' : \A v \in Versions :
                          Has(e, b, v)' => v <= Content(index[b], b)'
  BY DEF IndexTop, Versions
<1>1. ~PowerLoss /\ ~ForgetMemory
  BY ActionPcs DEF Up, PowerLoss
<1>2. PICK g : g = index'[b]
  OBVIOUS
<1>3. Content(index[b], b)' = Content(g, b)'
  BY <1>2 DEF Content
<1> SUFFICES /\ g # NoFile => Content(g, b)' # 0
             /\ \A e \in rs' : \A v \in Versions : Has(e, b, v)' => v <= Content(g, b)'
  BY <1>2, <1>3
<1>4. ASSUME Up
      PROVE  /\ index[b] # NoFile => Content(index[b], b) # 0
             /\ \A e \in rs : \A v \in Versions : Has(e, b, v) => v <= Content(index[b], b)
             /\ index[b] \in rs \cup {NoFile}
  BY <1>4, IndexHas DEF CInv, IndexTop
<1>5. CASE OpenLoad
  <2>1. rs' = {} /\ index' = index
    BY <1>5, Loaded
  <2>2. g = NoFile
    BY <1>2, <1>5, <2>1 DEF CInv, BInv, ReadersType, OpenLoad
  <2> QED
    BY <2>1, <2>2
<1>6. CASE Merge
  <2>1. Up /\ ~AWrite
    <3>1. pc' = pc /\ entries' = entries
      BY <1>6 DEF Merge, wvars
    <3>2. Up
      BY <3>1 DEF Up
    <3>3. ASSUME AWrite PROVE FALSE
      <4>1. PICK c \in Blocks, k \in Logs : WriteOf(c, k)
        BY <3>3, Written
      <4>2. pendingReaders' = pendingReaders
        BY <4>1 DEF WriteOf
      <4> QED
        BY <1>6, <4>2 DEF Merge
    <3> QED
      BY <3>2, <3>3
  <2>2. /\ g \in rs' \/ g = NoFile
        /\ g # NoFile => Content(g, b) # 0
        /\ \A e \in rs' : \A v \in Versions : Has(e, b, v) => v <= Content(g, b)
    BY <1>2, <1>6, <2>1, MergedTop
  <2>3. rs' \subseteq InUse
    BY <1>6, <2>1 DEF Merge, InUse, LowerFiles
  <2>4. \A e \in rs' : /\ \A c, v : Has(e, c, v)' <=> Has(e, c, v)
                       /\ \A c : Content(e, c)' = Content(e, c)
    BY <1>1, <2>1, <2>3, HasKept
  <2>5. g # NoFile => Content(g, b)' = Content(g, b)
    BY <2>2, <2>4
  <2>6. g = NoFile => Content(g, b)' = 0 /\ Content(g, b) = 0
    BY LogFields DEF Content
  <2> QED
    BY <2>2, <2>4, <2>5, <2>6
<1>7. CASE Install
  <2>1. PICK t : t = TableFile(job.table)
    OBVIOUS
  <2>2. /\ Up /\ pc = "install" /\ rs' = rs \cup {t} /\ UNCHANGED <<tables, entries>>
        /\ g = IF Content(t, b) # 0 THEN t ELSE index[b]
    BY <1>2, <1>7, <2>1, Installed
  <2>3. Content(t, b) = tables[job.table][b]
    BY <2>1, LogFields DEF Content
  <2>4. PICK i, c : i = index[b] /\ c = Content(i, b)
    OBVIOUS
  <2>5. Content(t, b) # 0 => Content(t, b) = c
    BY <2>2, <2>3, <2>4 DEF CInv, NewTable
  <2>6. Content(g, b) = c
    BY <2>2, <2>4, <2>5
  <2>7. Content(g, b)' = Content(g, b)
    BY <2>2 DEF Content, LogContent
  <2>8. \A e, v : Has(e, b, v)' <=> Has(e, b, v)
    BY <2>2 DEF Has
  <2>9. ASSUME NEW v \in Versions, Has(t, b, v) PROVE v <= c
    <3>1. v = c
      BY <2>1, <2>2, <2>4, <2>9, TableHas
    <3> QED
      BY <3>1 DEF Versions
  <2> QED
    BY <1>4, <2>2, <2>4, <2>6, <2>7, <2>8, <2>9
<1>8. CASE UNCHANGED index /\ rs' \subseteq rs /\ ~OpenLoad
  <2>1. Up
    BY <1>8, PhaseFrame DEF PhaseMoves, CInv, BInv
  <2>2. g = index[b] /\ g \in rs \cup {NoFile}
    BY <1>2, <1>4, <1>8, <2>1
  <2>3. Content(g, b)' = Content(g, b)
    BY <1>1, <2>1, <2>2, IndexedKept
  <2>4. \A e \in rs' : \A v : Has(e, b, v)' <=> Has(e, b, v)
    BY <1>1, <1>8, <2>1, IndexedKept
  <2> QED
    BY <1>4, <1>8, <2>1, <2>2, <2>3, <2>4
<1>9. CASE Commit
  BY <1>8, <1>9, Committed, ActionPcs
<1> QED
  BY <1>1, <1>5, <1>6, <1>7, <1>8, <1>9, Changes DEF MemoryChanges

\* What the new table has is what the index has, and it has every block of the
\* pending logs.
LEMMA BuiltTable ==
    ASSUME CInv, BuildTable, NEW b \in Blocks, NEW n, n = tables'[nextSeq][b]
    PROVE  /\ n # 0 => n = Content(index[b], b)
           /\ \A l \in Logs : LogFile(l) \in FileSet(diskMeta) /\ l # activeWriter =>
                 \A v \in Versions : Has(LogFile(l), b, v) => n # 0
<1>1. /\ pc = "build" /\ Up /\ Serving /\ pc \notin Rotating
      /\ pendingReaders = <<>>
  BY DEF BuildTable, Goto, Up, Closing, Serving, Rotating, CInv, BInv, ReadersType, Compacting
<1>2. TopFiles = {Active} /\ LowerFiles = rs
  BY <1>1, TopIs, ShortLists DEF LowerFiles
<1>3. rs \subseteq FileSet(diskMeta) /\ FileSet(diskMeta) \subseteq {Active} \cup rs /\ Active \notin rs
  BY <1>1, <1>2 DEF CInv, Members
<1>4. PICK es \in SUBSET rs :
         tables' = [s \in DOMAIN tables \cup {nextSeq} |->
                       IF s = nextSeq THEN Compacted(es) ELSE tables[s]]
  BY DEF BuildTable
<1>5. PICK pw, i0, c : pw = pendingWriters /\ i0 = index[b] /\ c = Content(i0, b)
  OBVIOUS
<1> DEFINE G(i) == Content(LogFile(pw[i]), b)
           T == {i \in DOMAIN pw : G(i) # 0}
<1>6. n = IF T # {} THEN G(Max(T)) ELSE IF i0 \in es THEN c ELSE 0
  <2>1. n = Compacted(es)[b]
    BY <1>4
  <2> QED
    BY <1>5, <2>1 DEF Compacted
<1>7. pw \in Seq(Logs) /\ DOMAIN pw = 1..Len(pw) /\ Len(pw) \in Nat
  BY <1>5 DEF CInv, BInv, WInv, WTypeOK
<1>8. \A i \in DOMAIN pw : pw[i] \in Pending /\ pw[i] \in Logs
  BY <1>5, <1>7 DEF Pending
<1>9. \A l \in Pending : l # activeWriter /\ LogFile(l) \in FileSet(diskMeta)
  BY <1>1 DEF CInv, LogMembers, Calls, BInv, WInv, LogsHeld
<1>10. \A i \in DOMAIN pw : LogFile(pw[i]) \in rs /\ LogFile(pw[i]) \in InUse
  BY <1>1, <1>3, <1>8, <1>9, LogFields DEF Active, InUse, LowerFiles
<1>11. ASSUME NEW l \in Logs, LogFile(l) \in FileSet(diskMeta), l # activeWriter
       PROVE  \E i \in DOMAIN pw : pw[i] = l
  <2>1. l \in Pending
    BY <1>1, <1>11 DEF CInv, LogMembers
  <2> QED
    BY <1>5, <2>1 DEF Pending
<1>12. \A i \in DOMAIN pw : G(i) \in Versions
  BY <1>10, GivenIs
<1> HIDE DEF G
<1>13. ASSUME T # {} PROVE n # 0 /\ n = c
  <2>1. PICK m : m = Max(T)
    OBVIOUS
  <2>2. T \in SUBSET Nat /\ \A i \in T : i <= Len(pw)
    BY <1>7
  <2>3. m \in T /\ \A i \in T : i <= m
    <3> HIDE DEF T
    <3> QED
      BY <1>7, <1>13, <2>1, <2>2, MaxOfBounded
  <2>4. PICK g : g = LogFile(pw[m])
    OBVIOUS
  <2>5. /\ m \in DOMAIN pw /\ n = Content(g, b) /\ n # 0
        /\ g \in rs /\ g \in InUse /\ g \in FileSet(diskMeta) /\ g.type = "log"
    BY <1>3, <1>6, <1>10, <1>13, <2>1, <2>3, <2>4, LogFields DEF G
  <2>6. n \in Versions /\ Has(g, b, n)
    BY <2>5, GivenIs
  <2>7. n <= c /\ c \in Versions
    BY <1>1, <1>5, <2>5, <2>6, IndexHas DEF CInv, IndexTop
  <2>8. c # 0
    BY <2>5, <2>6, <2>7 DEF Versions
  <2>9. i0 \in rs /\ Has(i0, b, c) /\ i0 \in FileSet(diskMeta) /\ i0 \in DataFiles
    BY <1>1, <1>3, <1>5, <2>8, IndexHas, ListFacts
  <2>10. ASSUME Before(diskMeta, i0, g) PROVE c <= n
    <3>1. Older(i0, g)
      BY <2>5, <2>9, <2>10 DEF CInv, ListOrder, InOrder
    <3> QED
      BY <2>6, <2>7, <2>9, <3>1 DEF Older
  <2>11. c <= n
    <3>1. CASE i0.type = "log"
      <4>1. i0.name \in Logs /\ i0 = LogFile(i0.name)
        BY <2>9, <3>1, FileKinds
      <4>2. i0.name # activeWriter
        BY <1>3, <2>9, <4>1 DEF Active
      <4>3. PICK j \in DOMAIN pw : pw[j] = i0.name
        BY <1>11, <2>9, <4>1, <4>2
      <4>4. j \in T
        BY <1>5, <2>8, <4>1, <4>3 DEF G
      <4>5. CASE j = m
        <5>1. c = n
          BY <1>5, <2>4, <2>5, <4>1, <4>3, <4>5
        <5> QED
          BY <2>7, <5>1 DEF Versions
      <4>6. CASE j # m
        <5>1. j < m
          <6>1. j \in Nat /\ m \in Nat /\ j <= m
            BY <2>2, <2>3, <4>4
          <6> QED
            BY <4>6, <6>1
        <5>2. Before(diskMeta, LogFile(pw[j]), LogFile(pw[m]))
          BY <1>1, <1>5, <2>5, <5>1 DEF CInv, StackOrder
        <5> QED
          BY <2>4, <2>10, <4>1, <4>3, <5>2
      <4> QED
        BY <4>5, <4>6
    <3>2. CASE i0.type # "log"
      <4>1. i0 # g
        BY <2>5, <3>2
      <4>2. ~ Before(diskMeta, g, i0)
        BY <2>5, <2>9, <3>2 DEF CInv, ListOrder, LogsLast
      <4>3. Before(diskMeta, i0, g)
        BY <2>5, <2>9, <4>1, <4>2, ListFacts, TotalOrder
      <4> QED
        BY <2>10, <4>3
    <3> QED
      BY <3>1, <3>2
  <2>12. n = c
    BY <2>6, <2>7, <2>11 DEF Versions
  <2> QED
    BY <2>5, <2>12
<1>14. n # 0 => n = c
  BY <1>6, <1>13
<1>15. ASSUME NEW l \in Logs, LogFile(l) \in FileSet(diskMeta), l # activeWriter,
              NEW v \in Versions, Has(LogFile(l), b, v)
       PROVE  n # 0
  <2>1. PICK i \in DOMAIN pw : pw[i] = l
    BY <1>11, <1>15
  <2>2. G(i) # 0
    BY <1>10, <1>15, <2>1, GivenIs DEF G
  <2> QED
    BY <1>13, <2>2
<1> QED
  BY <1>5, <1>14, <1>15

\* Nothing in the active log is older than what is indexed.
LEMMA IndexUnderActive ==
    ASSUME CInv, Up, Serving, pc \notin Rotating, pc \notin {"removing", "commit"},
           NEW e \in rs
    PROVE  Older(e, Active)
<1>1. e \in FileSet(diskMeta) /\ e # Active
  BY TopIs DEF CInv, Members, LowerFiles, Rotating
<1>2. Newest(Active, {})
  BY DEF CInv, ListEnd, Rotating
<1>3. Before(diskMeta, e, Active) /\ Active \in FileSet(diskMeta)
  BY <1>1, <1>2 DEF Newest
<1> QED
  BY <1>1, <1>3 DEF CInv, ListOrder, InOrder

LEMMA NewTableStep ==
    ASSUME CInv, [BNext]_vars
    PROVE  NewTable'
<1> SUFFICES ASSUME pc' \in {"install", "removing", "commit"}
             PROVE  /\ \A b \in Blocks : tables'[job'.table][b] # 0 =>
                          /\ tables'[job'.table][b] = Content(index[b], b)'
                          /\ pc' # "install" => index'[b] = TableFile(job'.table)
                    /\ \A l \in Logs : LogFile(l) \in FileSet(diskMeta') /\ l # activeWriter' =>
                          \A b \in Blocks : \A v \in Versions :
                              Has(LogFile(l), b, v)' => tables'[job'.table][b] # 0
                    /\ Older(TableFile(job.table), Active)'
  BY DEF NewTable, Versions
<1>1. TrackerMoves /\ PhaseMoves
  BY TrackerFrame, PhaseFrame DEF CInv, BInv, WInv
<1>2. ~PowerLoss /\ ~ForgetMemory /\ Up'
  BY ActionPcs DEF Up, PowerLoss, Closing
<1>3. CASE BuildTable
  <2>1. /\ pc = "build" /\ pc' = "install" /\ Up /\ Serving /\ pc \notin Rotating
        /\ job'.table = nextSeq
        /\ UNCHANGED <<index, diskMeta, activeWriter, entries>>
    BY <1>3 DEF BuildTable, Goto, Up, Closing, Serving, Rotating, CInv, BInv, JobType, wvars
  <2>2. PICK s, a, T : s = nextSeq /\ a = Active /\ T = tables'[s]
    OBVIOUS
  <2>3. \A e, b, v : e.type = "log" => (Has(e, b, v)' <=> Has(e, b, v))
    BY <2>1 DEF Has
  <2>4. ASSUME NEW b \in Blocks
        PROVE  /\ T[b] # 0 => T[b] = Content(index[b], b)
               /\ \A l \in Logs : LogFile(l) \in FileSet(diskMeta) /\ l # activeWriter =>
                     \A v \in Versions : Has(LogFile(l), b, v) => T[b] # 0
    BY <1>3, <2>2, BuiltTable
  <2>5. ASSUME NEW b \in Blocks PROVE Content(index[b], b)' = Content(index[b], b)
    <3>1. PICK g : g = index[b]
      OBVIOUS
    <3>2. g \in rs \cup {NoFile} /\ index'[b] = g
      BY <2>1, <3>1, IndexHas
    <3>3. Content(g, b)' = Content(g, b)
      BY <1>2, <2>1, <3>2, IndexedKept
    <3>4. Content(index[b], b)' = Content(g, b)'
      BY <3>2 DEF Content
    <3> QED
      BY <3>1, <3>3, <3>4
  <2>6. Older(TableFile(s), a)'
    <3> SUFFICES ASSUME NEW b \in Blocks, NEW v \in Versions, NEW w \in Versions,
                        Has(TableFile(s), b, v)', Has(a, b, w)'
                 PROVE  v <= w
      BY DEF Older, Versions
    <3>1. v # 0 /\ T[b] = v
      BY <2>2, LogFields DEF Has
    <3>2. Has(a, b, w)
      BY <2>2, <2>3, LogFields DEF Active
    <3>3. PICK g, c : g = index[b] /\ c = Content(g, b)
      OBVIOUS
    <3>4. v = c
      BY <2>4, <3>1, <3>3
    <3>5. g \in rs /\ Has(g, b, v)
      BY <2>1, <3>1, <3>3, <3>4, IndexHas
    <3>6. Older(g, a)
      BY <2>1, <2>2, <3>5, IndexUnderActive
    <3> QED
      BY <3>2, <3>5, <3>6 DEF Older
  <2>7. TableFile(job'.table) = TableFile(s) /\ Active' = a /\ tables'[job'.table] = T
    BY <2>1, <2>2 DEF Active
  <2>8. Older(TableFile(job.table), Active)'
    <3>1. PICK t : t = TableFile(s)
      OBVIOUS
    <3>2. t = TableFile(job'.table)
      BY <2>7, <3>1
    <3> QED
      BY <2>6, <2>7, <3>1, <3>2 DEF Older
  <2> QED
    BY <2>1, <2>3, <2>4, <2>5, <2>7, <2>8, LogFields
<1>4. CASE ~BuildTable
  <2>1. pc \in {"install", "removing", "commit"} /\ Up /\ pc \notin Rotating
    BY <1>1, <1>4, ActionPcs DEF PhaseMoves, Up, Closing, Rotating
  <2>2. /\ job'.table = job.table /\ tables' = tables
        /\ UNCHANGED <<diskMeta, activeWriter>>
    BY <1>1, <1>2, <1>4, <2>1, JobKept, ActionPcs, MorePcs, Changes
    DEF CInv, DiskChanges, TrackerMoves, Up, Closing
  <2>3. PICK t, a, T : t = TableFile(job.table) /\ a = Active /\ T = tables[job.table]
    OBVIOUS
  <2>4. /\ \A b \in Blocks : T[b] # 0 => T[b] = Content(index[b], b)
        /\ \A b \in Blocks : T[b] # 0 /\ pc # "install" => index[b] = t
        /\ \A l \in Logs : LogFile(l) \in FileSet(diskMeta) /\ l # activeWriter =>
              \A b \in Blocks : \A v \in Versions : Has(LogFile(l), b, v) => T[b] # 0
        /\ Older(t, a)
    BY <2>1, <2>3 DEF CInv, NewTable
  <2>5. ASSUME NEW b \in Blocks, T[b] # 0
        PROVE  T[b] = Content(index[b], b)' /\ (pc' # "install" => index'[b] = t)
    <3>1. CASE Install
      <4>1. Content(t, b) = T[b] /\ Content(t, b)' = T[b]
        BY <2>2, <2>3, LogFields DEF Content
      <4>2. index'[b] = t
        BY <2>3, <2>5, <3>1, <4>1, Installed
      <4>3. Content(index[b], b)' = Content(t, b)'
        BY <4>2 DEF Content
      <4> QED
        BY <4>1, <4>2, <4>3
    <3>2. CASE ~Install
      <4>1. ~Merge
        BY <2>1 DEF Merge, CInv, BInv, ReadersType, Compacting
      <4>2. index' = index /\ (pc = "install" => pc' = "install")
        BY <1>1, <1>2, <2>1, <3>2, <4>1, Changes DEF MemoryChanges, PhaseMoves
      <4>3. PICK g : g = index[b]
        OBVIOUS
      <4>4. g \in rs \cup {NoFile} /\ index'[b] = g
        BY <2>1, <4>2, <4>3, IndexHas
      <4>5. Content(g, b)' = Content(g, b)
        BY <1>2, <2>1, <4>4, IndexedKept
      <4>6. Content(index[b], b)' = Content(g, b)'
        BY <4>4 DEF Content
      <4> QED
        BY <2>4, <2>5, <4>2, <4>3, <4>5, <4>6
    <3> QED
      BY <3>1, <3>2
  <2>6. ASSUME NEW l \in Logs, LogFile(l) \in FileSet(diskMeta), l # activeWriter,
               NEW b \in Blocks, NEW v \in Versions, Has(LogFile(l), b, v)'
        PROVE  T[b] # 0
    <3>1. Has(LogFile(l), b, v)
      <4>1. CASE AWrite
        <5>1. PICK c \in Blocks, k \in Logs : WriteOf(c, k)
          BY <4>1, Written
        <5>2. k = activeWriter
          BY <2>1, <5>1, WriteFacts
        <5>3. LogFile(l) # LogFile(k) /\ LogFile(l) \in DataFiles
          BY <2>6, <5>2, LogFields
        <5> QED
          BY <2>6, <5>1, <5>3, WriteElsewhere
      <4>2. CASE ~AWrite
        BY <1>2, <2>6, <4>2, HasKept DEF InUse
      <4> QED
        BY <4>1, <4>2
    <3> QED
      BY <2>4, <2>6, <3>1
  <2>7. Older(t, a)'
    <3>1. a.type = "log" /\ t.type = "table" /\ a \in FileSet(diskMeta) /\ a \in DataFiles
      BY <2>1, <2>3, LogFields, ListFacts DEF Active, CInv, ListEnd, Newest, Serving
    <3>2. CASE AWrite
      <4>1. PICK c \in Blocks, k \in Logs : WriteOf(c, k)
        BY <3>2, Written
      <4>2. \A b \in Blocks : \A v \in Versions : Has(t, b, v) => v <= cur[b]
        BY <2>1, <2>3, TableHas DEF CInv, ListHolds, Holds
      <4> QED
        BY <2>4, <3>1, <4>1, <4>2, WriteOlder
    <3>3. CASE ~AWrite
      <4>1. \A b, v : Has(t, b, v)' <=> Has(t, b, v)
        BY <2>2, <3>1 DEF Has
      <4>2. \A b, v : Has(a, b, v)' <=> Has(a, b, v)
        BY <1>2, <3>1, <3>3, HasKept DEF InUse
      <4> QED
        BY <2>4, <4>1, <4>2 DEF Older
    <3> QED
      BY <3>2, <3>3
  <2>8. Older(TableFile(job.table), Active)'
    <3>1. TableFile(job'.table) = t /\ Active' = a
      BY <2>2, <2>3 DEF Active
    <3> QED
      BY <2>7, <3>1 DEF Older
  <2>9. TableFile(job'.table) = t /\ tables'[job'.table] = T
    BY <2>2, <2>3
  <2> QED
    BY <2>2, <2>5, <2>6, <2>8, <2>9
<1> QED
  BY <1>3, <1>4

LEMMA LateWritesStep ==
    ASSUME CInv, [BNext]_vars
    PROVE  LateWrites'
<1>1. PICK a : a = Active'
  OBVIOUS
<1> SUFFICES ASSUME NEW b \in Blocks, pc' = "rotateWait", wr'[b].pc = "write",
                    wr'[b].log = job'.log, NEW v \in Versions, Has(a, b, v)'
             PROVE  FALSE
  <2>1. \A b, v : Has(Active, b, v)' <=> Has(a, b, v)'
    BY <1>1 DEF Has
  <2> QED
    BY <2>1 DEF LateWrites, Versions
<1>2. TrackerMoves /\ PhaseMoves
  BY TrackerFrame, PhaseFrame DEF CInv, BInv, WInv
<1>3. ~PowerLoss /\ ~ForgetMemory /\ ~OpenPush /\ ~BCloseStart
  BY ActionPcs, MorePcs DEF PowerLoss
<1>4. CASE RotateSwap
  <2>1. a = JobLog /\ UNCHANGED entries /\ pc = "rotateSwap"
    BY <1>1, <1>4, Swapped
  <2>2. entries[job.log] = <<>>
    BY <2>1 DEF CInv, NewLog, Making
  <2>3. ~ Has(a, b, v)
    BY <2>1, <2>2, EmptyLog DEF JobLog
  <2>4. a.type = "log"
    BY <2>1, LogFields DEF JobLog
  <2> QED
    BY <2>1, <2>3, <2>4 DEF Has
<1>5. CASE ~RotateSwap
  <2>1. pc = "rotateWait"
    BY <1>2, <1>5 DEF PhaseMoves
  <2>2. job'.log = job.log /\ activeWriter' = activeWriter
    BY <1>2, <1>3, <1>5, <2>1, JobKept, ActionPcs, MorePcs DEF CInv, TrackerMoves
  <2>3. a = Active /\ Active # JobLog
    BY <1>1, <2>1, <2>2 DEF Active, CInv, WritersShape
  <2>4. wr[b].pc = "write" /\ wr[b].log = job.log /\ wr'[b] = wr[b]
    BY <1>2, <2>2, <2>3 DEF TrackerMoves, Active, JobLog
  <2>5. ~ Has(a, b, v)
    BY <2>1, <2>3, <2>4 DEF CInv, LateWrites
  <2>6. CASE AWrite
    <3>1. PICK c \in Blocks, k \in Logs : WriteOf(c, k)
      BY <2>6, Written
    <3>2. c # b
      <4>1. wr'[c].pc = "count"
        BY <3>1 DEF WriteOf, CInv, BInv, WInv, WTypeOK
      <4> QED
        BY <4>1
    <3> QED
      BY <2>5, <3>1, <3>2, WriteHas
  <2>7. CASE ~AWrite
    <3>1. a \in InUse
      BY <2>1, <2>3 DEF InUse, CInv, ListEnd, Newest, Serving
    <3> QED
      BY <1>3, <2>5, <2>7, <3>1, HasKept
  <2> QED
    BY <2>6, <2>7
<1> QED
  BY <1>4, <1>5

-----------------------------------------------------------------------------
(* The invariant *)

LEMMA CInitInv == BInit => CInv
<1> SUFFICES ASSUME BInit PROVE CInv
  OBVIOUS
<1>1. BInv
  BY BInitInv
<1>2. /\ diskMeta = <<>> /\ pc = "down"
      /\ entries = [l \in Logs |-> <<>>]
      /\ cur = [b \in Blocks |-> 0] /\ ver = [b \in Blocks |-> 0]
      /\ wr = [b \in Blocks |-> IdleWrite] /\ push = IdlePush
      /\ writers = <<>>
  BY DEF BInit, WInit, Hole
<1>3. FileSet(diskMeta) = {}
  BY <1>2, ShortLists
<1>4. ~Up /\ ~Serving /\ pc \notin Making
  BY <1>2 DEF Up, Serving, Making
<1>5. InUse = {}
  BY <1>3, <1>4 DEF InUse
<1>6. \A l \in Logs : DOMAIN entries[l] = {}
  BY <1>2
<1>7. RecordsOrder
  BY <1>6 DEF RecordsOrder
<1>8. MetaSaved /\ ListOrder /\ ListHolds
  BY <1>2, <1>3, <1>5 DEF MetaSaved, ListOrder, InOrder, LogsLast, ListHolds, Holds
<1>9. Calls
  BY <1>2, <1>4 DEF Calls, IdleWrite, IdlePush
<1>10. ListEnd /\ NewLog /\ WritersShape
  BY <1>2, <1>4 DEF ListEnd, NewLog, WritersShape, Rotating
<1>11. Members /\ LogMembers /\ StackOrder /\ IndexTop
  BY <1>4 DEF Members, LogMembers, StackOrder, IndexTop
<1>12. NewTable /\ LateWrites
  BY <1>2 DEF NewTable, LateWrites
<1> QED
  BY <1>1, <1>7, <1>8, <1>9, <1>10, <1>11, <1>12 DEF CInv

LEMMA CStepInv == CInv /\ [BNext]_vars => CInv'
<1> SUFFICES ASSUME CInv, [BNext]_vars PROVE CInv'
  OBVIOUS
<1>1. BInv'
  BY BStepInv DEF CInv
<1> QED
  BY <1>1, RecordsOrderStep, MetaSavedStep, ListOrderStep, ListHoldsStep, CallsStep, ListEndStep,
     NewLogStep, WritersShapeStep, MembersStep, LogMembersStep, StackOrderStep, IndexTopStep,
     NewTableStep, LateWritesStep
  DEF CInv

LEMMA CInvariant == BSafeSpec => []CInv
  BY CInitInv, CStepInv, PTL DEF BSafeSpec

-----------------------------------------------------------------------------
(* What the files hold *)

\* What the stored list gives is what a read must return.
LEMMA DiskHolds == CInv => NothingLost
<1> SUFFICES ASSUME CInv, NEW b \in Blocks PROVE DiskView(b) = cur[b]
  BY DEF NothingLost
<1>1. PICK r, len : len = AllRecords /\ r = Recovered(diskMeta, entries, len, b)
  OBVIOUS
<1>2. entries \in [Logs -> Seq(Blocks \X Nat)]
  BY DEF CInv, BInv, WInv, WTypeOK
<1>3. \A l \in Logs : /\ len[l] = Len(entries[l])
                      /\ len[l] \in 0..Len(entries[l])
                      /\ DOMAIN entries[l] = 1..len[l]
  BY <1>1, <1>2 DEF AllRecords
<1>4. /\ r \in Versions
      /\ r # 0 => \E e \in FileSet(diskMeta) : Left(len, e, b, r)
      /\ \A e \in FileSet(diskMeta) : \A v \in Versions : Left(len, e, b, v) => v <= r
  BY <1>1, <1>3, RecoveredIs DEF CInv, ListOrder
<1>5. ASSUME NEW e \in FileSet(diskMeta), NEW v PROVE Left(len, e, b, v) <=> Has(e, b, v)
  <2>1. e.type = "log" => e.name \in Logs
    BY ListFacts, FileKinds
  <2> QED
    BY <1>3, <2>1 DEF Left, Has
<1>6. PICK c : c = cur[b]
  OBVIOUS
<1>7. /\ c \in Versions
      /\ \A e \in FileSet(diskMeta) : \A v \in Versions : Has(e, b, v) => v <= c
      /\ c # 0 => \E e \in FileSet(diskMeta) : Has(e, b, c)
  BY <1>6 DEF CInv, ListHolds, Holds, InUse, BInv, ContentsType
<1>8. r # 0 => r <= c
  BY <1>4, <1>5, <1>7
<1>9. c # 0 => c <= r
  BY <1>4, <1>5, <1>7
<1>10. r = c
  BY <1>4, <1>7, <1>8, <1>9 DEF Versions
<1> QED
  BY <1>1, <1>6, <1>10 DEF DiskView

\* Wherever the process is killed, in the middle of opening, rotating,
\* compacting, deleting or closing, what OpenBlockFileWithOptions would read out
\* of the files is the last write of every block.
THEOREM LosesNothing == BSafeSpec => []NothingLost
  BY DiskHolds, CInvariant, PTL

-----------------------------------------------------------------------------
(* What a read returns *)

\* The mutable readers are newer than everything below them ...
LEMMA TopNewest ==
    ASSUME CInv, Serving, NEW b, NEW c, NEW g \in TopFiles, Has(g, b, c),
           NEW e \in FileSet(diskMeta), e \in LowerFiles
    PROVE  Before(diskMeta, e, g)
<1>1. Up /\ e \notin TopFiles
  BY DEF Serving, Up, Closing, CInv, Members
<1>2. g = Active \/ (pc \in Rotating /\ g = JobLog)
  BY TopIs
<1>3. e # Active /\ (pc \in Rotating => e # JobLog)
  BY <1>1, TopIs
<1>4. CASE g = Active
  <2>1. Newest(Active, {}) \/ (pc = "rotateSwap" /\ Newest(Active, {JobLog}))
    BY DEF CInv, ListEnd
  <2>2. pc = "rotateSwap" => e # JobLog
    BY <1>3 DEF Rotating
  <2> QED
    BY <1>3, <1>4, <2>1, <2>2 DEF Newest
<1>5. CASE pc \in Rotating /\ g = JobLog
  <2>1. pc \notin {"rotateSave", "rotateSwap"}
    <3> SUFFICES ASSUME pc \in {"rotateSave", "rotateSwap"} PROVE FALSE
      OBVIOUS
    <3>1. entries[job.log] = <<>>
      BY DEF CInv, NewLog, Making
    <3> QED
      BY <1>5, <3>1, EmptyLog DEF JobLog
  <2>2. Newest(JobLog, {Active})
    BY <1>5, <2>1 DEF CInv, ListEnd, Rotating
  <2> QED
    BY <1>3, <1>5, <2>2 DEF Newest
<1> QED
  BY <1>2, <1>4, <1>5

\* ... and are themselves in order, a new one being empty.
LEMMA TopOrder ==
    ASSUME CInv, Serving, NEW b, NEW c,
           NEW i \in DOMAIN writers, NEW j \in DOMAIN writers, j < i, Has(writers[j], b, c)
    PROVE  Before(diskMeta, writers[i], writers[j])
<1>1. PICK a, k : a = Active /\ k = JobLog
  OBVIOUS
<1>2. DOMAIN <<a>> = {1} /\ DOMAIN <<k, a>> = {1, 2} /\ DOMAIN <<a, k>> = {1, 2}
  OBVIOUS
<1>3. \/ writers = <<a>>
      \/ pc \in {"rotateSave", "rotateSwap"} /\ writers = <<k, a>>
      \/ pc \in {"rotateWait", "rotatePush"} /\ writers = <<a, k>> /\ a # k
  BY <1>1 DEF CInv, WritersShape, Rotating
<1>4. writers # <<a>>
  BY <1>2
<1>5. CASE pc \in {"rotateSave", "rotateSwap"} /\ writers = <<k, a>>
  <2>1. i = 2 /\ j = 1
    BY <1>2, <1>5
  <2>2. writers[j] = k
    BY <1>5, <2>1
  <2>3. entries[job.log] = <<>>
    BY <1>5 DEF CInv, NewLog, Making
  <2> QED
    BY <1>1, <2>2, <2>3, EmptyLog DEF JobLog
<1>6. CASE pc \in {"rotateWait", "rotatePush"} /\ writers = <<a, k>> /\ a # k
  <2>1. i = 2 /\ j = 1
    BY <1>2, <1>6
  <2>2. writers[j] = a /\ writers[i] = k
    BY <1>6, <2>1
  <2>3. k \in FileSet(diskMeta) /\ Newest(a, {})
    BY <1>1, <1>6 DEF CInv, ListEnd, Newest
  <2> QED
    BY <1>6, <2>2, <2>3 DEF Newest
<1> QED
  BY <1>3, <1>4, <1>5, <1>6

\* Where the layers are in the stack.
LEMMA LayersAre ==
    ASSUME NEW S, NEW w \in Seq(S), NEW p \in Seq(S), NEW x \in S,
           NEW s, s = w \o p \o <<x>>
    PROVE  /\ Len(w) \in Nat /\ Len(p) \in Nat
           /\ DOMAIN w = 1..Len(w) /\ DOMAIN p = 1..Len(p)
           /\ DOMAIN s = 1..(Len(w) + Len(p) + 1)
           /\ \A i \in 1..Len(w) : s[i] = w[i]
           /\ \A i \in 1..Len(p) : s[Len(w) + i] = p[i]
           /\ s[Len(w) + Len(p) + 1] = x
<1>1. Len(w) \in Nat /\ Len(p) \in Nat /\ DOMAIN w = 1..Len(w) /\ DOMAIN p = 1..Len(p)
  OBVIOUS
<1>2. PICK u : u = w \o p
  OBVIOUS
<1>3. /\ u \in Seq(S) /\ Len(u) = Len(w) + Len(p)
      /\ \A i \in 1..Len(w) : u[i] = w[i]
      /\ \A i \in 1..Len(p) : u[Len(w) + i] = p[i]
  BY <1>1, <1>2
<1>4. <<x>> \in Seq(S) /\ Len(<<x>>) = 1 /\ <<x>>[1] = x
  OBVIOUS
<1>5. /\ s = u \o <<x>> /\ DOMAIN s = 1..(Len(u) + 1)
      /\ \A i \in 1..Len(u) : s[i] = u[i]
      /\ s[Len(u) + 1] = x
  BY <1>2, <1>3, <1>4
<1>6. /\ \A i \in 1..Len(w) : i \in 1..Len(u)
      /\ \A i \in 1..Len(p) : Len(w) + i \in 1..Len(u)
  BY <1>1, <1>3
<1> QED
  BY <1>1, <1>3, <1>5, <1>6

\* The layers are files, or nothing.
LEMMA StackTyped ==
    ASSUME CInv, NEW b \in Blocks
    PROVE  /\ writers \in Seq(DataFiles \cup {NoFile})
           /\ pendingReaders \in Seq(DataFiles \cup {NoFile})
           /\ index[b] \in DataFiles \cup {NoFile}
<1>1. /\ writers \in Seq(AllLogs)
      /\ pendingReaders \in Seq(DataFiles)
      /\ rs \subseteq DataFiles /\ index[b] \in rs \cup {NoFile}
  BY DEF CInv, BInv, ReadersType
<1>2. AllLogs \subseteq DataFiles \cup {NoFile} /\ DataFiles \subseteq DataFiles \cup {NoFile}
  BY DEF DataFiles
<1>3. \A S, R : S \subseteq R => \A q \in Seq(S) : q \in Seq(R)
  OBVIOUS
<1> QED
  BY <1>1, <1>2, <1>3

\* What is listed before the file of a layer is not newer than what that gives.
LEMMA NewerLayer ==
    ASSUME CInv, NEW b \in Blocks, NEW e, NEW g \in InUse, NEW v \in Versions, Has(e, b, v),
           Content(g, b) # 0, Before(diskMeta, e, g)
    PROVE  v <= Content(g, b)
<1>1. e \in FileSet(diskMeta) /\ g \in FileSet(diskMeta)
  BY BeforeFiles
<1>2. Older(e, g)
  BY <1>1 DEF CInv, ListOrder, InOrder
<1>3. Content(g, b) \in Versions /\ Has(g, b, Content(g, b))
  BY GivenIs
<1> QED
  BY <1>2, <1>3 DEF Older

\* A listed version has a layer that gives it or a newer one, and so does every
\* layer over that one that gives anything.
LEMMA Above ==
    ASSUME CInv, Serving, NEW b \in Blocks, NEW e \in FileSet(diskMeta), NEW v \in Versions,
           Has(e, b, v), NEW s, s = writers \o pendingReaders \o <<index[b]>>
    PROVE  \E i \in DOMAIN s :
              /\ Content(s[i], b) # 0
              /\ \A j \in DOMAIN s : j <= i /\ Content(s[j], b) # 0 => v <= Content(s[j], b)
<1> DEFINE w == Len(writers)
           p == Len(pendingReaders)
<1>1. Up /\ pc # "openPush"
  BY DEF Serving, Up, Closing
<1>2. e \in TopFiles \cup LowerFiles
  BY <1>1 DEF CInv, Members
<1>3. /\ writers \in Seq(DataFiles \cup {NoFile})
      /\ pendingReaders \in Seq(DataFiles \cup {NoFile})
      /\ index[b] \in DataFiles \cup {NoFile}
  BY StackTyped
<1>4. /\ w \in Nat /\ p \in Nat
      /\ DOMAIN writers = 1..w /\ DOMAIN pendingReaders = 1..p
      /\ DOMAIN s = 1..(w + p + 1)
      /\ \A i \in 1..w : s[i] = writers[i]
      /\ \A i \in 1..p : s[w + i] = pendingReaders[i]
      /\ s[w + p + 1] = index[b]
  BY <1>3, LayersAre
<1>5. /\ \A i \in 1..w : writers[i] \in TopFiles /\ writers[i] \in InUse
      /\ \A i \in 1..p : pendingReaders[i] \in LowerFiles /\ pendingReaders[i] \in InUse
  BY <1>1, <1>4 DEF InUse, TopFiles, LowerFiles, FileSet
<1>6. e \in InUse /\ v <= Content(e, b) /\ Content(e, b) # 0
  BY GivenIs DEF InUse
<1>7. ASSUME e \in LowerFiles, NEW j \in 1..w, Content(writers[j], b) # 0
      PROVE  v <= Content(writers[j], b)
  <2>1. Has(writers[j], b, Content(writers[j], b))
    BY <1>5, <1>7, GivenIs
  <2>2. Before(diskMeta, e, writers[j])
    BY <1>5, <1>7, <2>1, TopNewest
  <2> QED
    BY <1>5, <1>7, <2>2, NewerLayer
<1>8. CASE e \in TopFiles
  <2>1. PICK i \in 1..w : writers[i] = e
    BY <1>4, <1>8 DEF TopFiles, FileSet
  <2>2. i \in DOMAIN s /\ s[i] = e
    BY <1>4, <2>1
  <2>3. ASSUME NEW j \in DOMAIN s, j <= i, Content(s[j], b) # 0 PROVE v <= Content(s[j], b)
    <3>1. j \in 1..w /\ s[j] = writers[j]
      BY <1>4, <2>1, <2>3
    <3>2. CASE j = i
      BY <1>6, <2>2, <3>2
    <3>3. CASE j < i
      <4>1. Has(writers[j], b, Content(writers[j], b))
        BY <1>5, <2>3, <3>1, GivenIs
      <4>2. Before(diskMeta, e, writers[j])
        BY <1>4, <2>1, <3>1, <3>3, <4>1, TopOrder
      <4> QED
        BY <1>5, <2>3, <3>1, <4>2, NewerLayer
    <3> QED
      BY <1>4, <2>1, <2>3, <3>2, <3>3
  <2> QED
    BY <1>6, <2>2, <2>3
<1>9. CASE e \in FileSet(pendingReaders)
  <2>1. PICK k \in 1..p : pendingReaders[k] = e
    BY <1>4, <1>9 DEF FileSet
  <2>2. w + k \in DOMAIN s /\ s[w + k] = e
    BY <1>4, <2>1
  <2>3. ASSUME NEW j \in DOMAIN s, j <= w + k, Content(s[j], b) # 0 PROVE v <= Content(s[j], b)
    <3>1. CASE j \in 1..w
      BY <1>4, <1>7, <1>9, <2>3, <3>1 DEF LowerFiles
    <3>2. CASE j = w + k
      BY <1>6, <2>2, <3>2
    <3>3. CASE j \notin 1..w /\ j # w + k
      <4>1. PICK n \in 1..p : j = w + n /\ n < k
        <5>1. j - w \in 1..p /\ j = w + (j - w) /\ j - w < k
          BY <1>4, <2>1, <2>3, <3>3
        <5> QED
          BY <5>1
      <4>2. s[j] = pendingReaders[n]
        BY <1>4, <4>1
      <4>3. Before(diskMeta, e, pendingReaders[n])
        BY <1>1, <1>4, <2>1, <4>1 DEF CInv, StackOrder
      <4> QED
        BY <1>5, <2>3, <4>2, <4>3, NewerLayer
    <3> QED
      BY <3>1, <3>2, <3>3
  <2> QED
    BY <1>6, <2>2, <2>3
<1>10. CASE e \in rs
  <2>1. v <= Content(index[b], b) /\ Content(index[b], b) \in Versions
    BY <1>1, <1>10, IndexHas DEF CInv, IndexTop
  <2>2. Content(index[b], b) # 0
    <3>1. ContentFacts /\ Readable(e)
      BY <1>6, InUseExists DEF ContentFacts, CInv, BInv, WInv
    <3>2. v # 0
      BY <3>1, ContentIs
    <3> QED
      BY <2>1, <3>2 DEF Versions
  <2>3. w + p + 1 \in DOMAIN s /\ Content(s[w + p + 1], b) # 0
    BY <1>4, <2>2
  <2>4. ASSUME NEW j \in DOMAIN s, Content(s[j], b) # 0 PROVE v <= Content(s[j], b)
    <3>1. CASE j \in 1..w
      BY <1>4, <1>7, <1>10, <2>4, <3>1 DEF LowerFiles
    <3>2. CASE j = w + p + 1
      BY <1>4, <2>1, <3>2
    <3>3. CASE j \notin 1..w /\ j # w + p + 1
      <4>1. PICK n \in 1..p : j = w + n
        <5>1. j - w \in 1..p /\ j = w + (j - w)
          BY <1>4, <2>4, <3>3
        <5> QED
          BY <5>1
      <4>2. s[j] = pendingReaders[n] /\ pendingReaders[n] \in FileSet(pendingReaders)
        BY <1>4, <4>1 DEF FileSet
      <4>3. Before(diskMeta, e, pendingReaders[n])
        BY <1>1, <1>10, <4>2 DEF CInv, StackOrder
      <4> QED
        BY <1>5, <2>4, <4>2, <4>3, NewerLayer
    <3> QED
      BY <3>1, <3>2, <3>3
  <2> QED
    BY <2>3, <2>4
<1> QED
  BY <1>2, <1>8, <1>9, <1>10 DEF LowerFiles

\* No layer gives more than a read must return.
LEMMA LayersHold ==
    ASSUME CInv, Serving, NEW b \in Blocks,
           NEW s, s = writers \o pendingReaders \o <<index[b]>>
    PROVE  /\ DOMAIN s \in SUBSET (Nat \ {0})
           /\ \A n \in DOMAIN s : \A m \in 1..(n - 1) : m \in DOMAIN s
           /\ \A i \in DOMAIN s : Content(s[i], b) \in Versions /\ Content(s[i], b) <= cur[b]
<1> DEFINE w == Len(writers)
           p == Len(pendingReaders)
<1>1. Up
  BY DEF Serving, Up, Closing
<1>2. /\ writers \in Seq(DataFiles \cup {NoFile})
      /\ pendingReaders \in Seq(DataFiles \cup {NoFile})
      /\ index[b] \in DataFiles \cup {NoFile}
  BY StackTyped
<1>3. /\ w \in Nat /\ p \in Nat
      /\ DOMAIN writers = 1..w /\ DOMAIN pendingReaders = 1..p
      /\ DOMAIN s = 1..(w + p + 1)
      /\ \A i \in 1..w : s[i] = writers[i]
      /\ \A i \in 1..p : s[w + i] = pendingReaders[i]
      /\ s[w + p + 1] = index[b]
  BY <1>2, LayersAre
<1>4. /\ DOMAIN s \in SUBSET (Nat \ {0})
      /\ \A n \in DOMAIN s : \A m \in 1..(n - 1) : m \in DOMAIN s
  BY <1>3
<1>5. cur[b] \in Versions /\ \A e \in InUse : \A v \in Versions : Has(e, b, v) => v <= cur[b]
  BY DEF CInv, ListHolds, Holds, BInv, ContentsType
<1>6. ASSUME NEW g \in InUse
      PROVE  Content(g, b) \in Versions /\ Content(g, b) <= cur[b]
  <2>1. /\ Content(g, b) \in Versions
        /\ Content(g, b) # 0 => Has(g, b, Content(g, b))
    BY GivenIs
  <2>2. Content(g, b) # 0 => Content(g, b) <= cur[b]
    BY <1>5, <2>1
  <2> QED
    BY <1>5, <2>1, <2>2 DEF Versions
<1>7. Content(index[b], b) \in Versions /\ Content(index[b], b) <= cur[b]
  <2>1. /\ Content(index[b], b) \in Versions
        /\ Content(index[b], b) # 0 => index[b] \in InUse
    BY <1>1, IndexHas DEF InUse, LowerFiles
  <2> QED
    BY <1>5, <1>6, <2>1 DEF Versions
<1>8. /\ \A i \in 1..w : writers[i] \in InUse
      /\ \A i \in 1..p : pendingReaders[i] \in InUse
  BY <1>1, <1>3 DEF InUse, TopFiles, LowerFiles, FileSet
<1>9. ASSUME NEW i \in DOMAIN s
      PROVE  Content(s[i], b) \in Versions /\ Content(s[i], b) <= cur[b]
  <2>1. CASE i \in 1..w
    BY <1>3, <1>6, <1>8, <2>1
  <2>2. CASE i = w + p + 1
    BY <1>3, <1>7, <2>2
  <2>3. CASE i \notin 1..w /\ i # w + p + 1
    <3> HIDE DEF w, p
    <3>1. i - w \in 1..p /\ i = w + (i - w)
      <4>1. i \in 1..(w + p + 1) /\ w \in Nat /\ p \in Nat
        BY <1>3
      <4> QED
        BY <2>3, <4>1
    <3>2. PICK n \in 1..p : i = w + n
      BY <3>1
    <3> QED
      BY <1>3, <1>6, <1>8, <3>2
  <2> QED
    BY <2>1, <2>2, <2>3
<1> QED
  BY <1>4, <1>9

\* What the stack gives is what a read must return.
LEMMA StackHolds == CInv => ReadsLatest
<1> SUFFICES ASSUME CInv, Serving, NEW b \in Blocks PROVE MemView(b) = cur[b]
  BY DEF ReadsLatest
<1>1. PICK s : s = writers \o pendingReaders \o <<index[b]>>
  OBVIOUS
<1>2. PICK c : c = cur[b]
  OBVIOUS
<1>3. /\ DOMAIN s \in SUBSET (Nat \ {0})
      /\ \A n \in DOMAIN s : \A m \in 1..(n - 1) : m \in DOMAIN s
      /\ \A i \in DOMAIN s : Content(s[i], b) \in Versions /\ Content(s[i], b) <= c
  BY <1>1, <1>2, LayersHold
<1>4. c \in Versions /\ (c # 0 => \E e \in FileSet(diskMeta) : Has(e, b, c))
  BY <1>2 DEF CInv, ListHolds, Holds, BInv, ContentsType
<1>5. c # 0 => \E i \in DOMAIN s :
          /\ Content(s[i], b) # 0
          /\ \A j \in DOMAIN s : j <= i /\ Content(s[j], b) # 0 => c <= Content(s[j], b)
  BY <1>1, <1>4, Above
<1>6. CASE \E i \in DOMAIN s : Content(s[i], b) # 0
  <2> DEFINE T == {i \in DOMAIN s : Content(s[i], b) # 0}
             First(i) == /\ Content(s[i], b) # 0
                         /\ \A j \in 1..(i - 1) : Content(s[j], b) = 0
  <2>1. T \in SUBSET Nat /\ T # {}
    BY <1>3, <1>6
  <2>2. PICK n \in T : \A m \in T : n <= m
    BY <2>1, LeastNat
  <2>3. First(n)
    <3>1. ASSUME NEW j \in 1..(n - 1) PROVE Content(s[j], b) = 0
      <4>1. j \in DOMAIN s
        BY <1>3
      <4>2. n \in Nat /\ j \in Nat /\ ~ (n <= j)
        BY <2>1
      <4> QED
        BY <2>2, <4>1, <4>2
    <3> QED
      BY <3>1
  <2>4. PICK k : k = CHOOSE i \in DOMAIN s : First(i)
    OBVIOUS
  <2>5. k \in DOMAIN s /\ First(k)
    <3> HIDE DEF First
    <3>1. n \in DOMAIN s
      OBVIOUS
    <3> QED
      BY <2>3, <2>4, <3>1
  <2>6. MemView(b) = Content(s[k], b)
    BY <1>1, <1>6, <2>4 DEF MemView
  <2>7. Content(s[k], b) \in Versions /\ Content(s[k], b) <= c /\ Content(s[k], b) # 0
    BY <1>3, <2>5
  <2>8. c # 0
    BY <1>4, <2>7 DEF Versions
  <2>9. PICK i \in DOMAIN s :
          /\ Content(s[i], b) # 0
          /\ \A j \in DOMAIN s : j <= i /\ Content(s[j], b) # 0 => c <= Content(s[j], b)
    BY <1>5, <2>8
  <2>10. k <= i
    <3>1. i \in Nat /\ k \in Nat
      BY <1>3, <2>5
    <3>2. i \notin 1..(k - 1) /\ i # 0
      BY <1>3, <2>5, <2>9
    <3> QED
      BY <3>1, <3>2
  <2>11. c <= Content(s[k], b)
    BY <2>5, <2>7, <2>9, <2>10
  <2> QED
    BY <1>2, <1>4, <2>6, <2>7, <2>11 DEF Versions
<1>7. CASE ~ \E i \in DOMAIN s : Content(s[i], b) # 0
  <2>1. MemView(b) = 0
    BY <1>1, <1>7 DEF MemView
  <2>2. c = 0
    BY <1>5, <1>7
  <2> QED
    BY <1>2, <2>1, <2>2
<1> QED
  BY <1>6, <1>7

\* At any point of a rotation, a compaction or a merge, the first reader of the
\* stack that has a block, the mutable logs, then the readers not merged yet,
\* then the index (buildReaderStack in tracker/reader.go), gives ReadBlocks the
\* last write of it, and none has a block that was not written.
THEOREM ReadsCorrect == BSafeSpec => []ReadsLatest
  BY StackHolds, CInvariant, PTL


-----------------------------------------------------------------------------
(* Tables with something in them *)

NonEmpty(l) == l \in Logs /\ entries[l] # <<>>

\* The count that makes a rotation stands for records of the active log: a
\* write that is counted has written, and the late ones, which have written to
\* the log before, are counted before the count is reset.
LogsFilled ==
    /\ \A b \in Blocks : wr[b].pc = "count" => NonEmpty(wr[b].log)
    /\ pc \in {"down"} \cup Opening => writeCount = 0
    /\ Serving /\ pc # "rotateWait" /\ writeCount # 0 => NonEmpty(activeWriter)
    /\ pc \in {"rotate", "rotateSave", "rotateSwap"} => NonEmpty(activeWriter)
    /\ pc \in {"rotateWait", "rotatePush"} => NonEmpty(job.log) /\ job.log \in Pending
    /\ pc \in {"start", "build"} => \E l \in Pending : NonEmpty(l)

TInv == CInv /\ LogsFilled /\ TableNotEmpty

\* Which steps change the count, and how the phases of a compaction follow.
CountMoves ==
    /\ \/ UNCHANGED writeCount
       \/ (\E b \in Blocks : BWriteCount(b)) \/ RotateWait \/ BCloseStart \/ ForgetMemory
    /\ \A x \in Blocks : wr'[x].pc = "count" => wr'[x] = wr[x] \/ AWrite
    /\ pc' = "rotate" => pc = "rotate" \/ CompactWriterCheck
    /\ pc' = "start" => pc = "start" \/ RotatePush
    /\ pc' = "build" => pc = "build" \/ StartCompaction

LEMMA CountFrame ==
    ASSUME WTypeOK, [BNext]_vars
    PROVE  CountMoves
<1> USE DEF CountMoves, AWrite, WTypeOK, IdleWrite
<1>1. ASSUME OpenLoad PROVE CountMoves
  BY <1>1 DEF OpenLoad, wvars
<1>2. ASSUME OpenMakeLog PROVE CountMoves
  BY <1>2 DEF OpenMakeLog, MakeLogWriter, RunnerIdle, wvars
<1>3. ASSUME OpenSave PROVE CountMoves
  BY <1>3 DEF OpenSave, wvars
<1>4. ASSUME OpenPush PROVE CountMoves
  BY <1>4 DEF OpenPush, PushFirstLog, NewWriter, wvars
<1>5. ASSUME NEW b \in Blocks, BWriteStart(b) PROVE CountMoves
  BY <1>5 DEF BWriteStart, WriteStart, Admitted, bfvars, wvars
<1>6. ASSUME NEW f \in Flushers, BFlushStart(f) PROVE CountMoves
  BY <1>6 DEF BFlushStart, FlushStart, wvars
<1>7. ASSUME NEW b \in Blocks, BWriteAppend(b) PROVE CountMoves
  BY <1>7 DEF BWriteAppend, WriteAppend, wvars
<1>8. ASSUME NEW b \in Blocks, BWriteCount(b) PROVE CountMoves
  BY <1>8 DEF BWriteCount, WriteCount, WriteLeaves, bfvars, wvars
<1>9. ASSUME NEW b \in Blocks, BWriteReturn(b) PROVE CountMoves
  BY <1>9 DEF BWriteReturn, WriteReturn, wvars
<1>10. ASSUME NEW f \in Flushers, BFlushReturn(f) PROVE CountMoves
  BY <1>10 DEF BFlushReturn, FlushReturn, FlushLeaves, wvars
<1>11. ASSUME NEW f \in Flushers, NEW l \in Logs, BFlushLog(f, l) PROVE CountMoves
  BY <1>11 DEF BFlushLog, FlushLog, bfvars, wvars
<1>12. ASSUME NEW l \in Logs, BCloser(l) PROVE CountMoves
  BY <1>12 DEF BCloser, CloserStep, CloserFreeze, CloserSync, CloserLeaves, bfvars, wvars
<1>13. ASSUME Merge PROVE CountMoves
  BY <1>13 DEF Merge, wvars
<1>14. ASSUME RunnerLoop PROVE CountMoves
  BY <1>14 DEF RunnerLoop, wvars
<1>15. ASSUME CompactWriterCheck PROVE CountMoves
  BY <1>15 DEF CompactWriterCheck, wvars
<1>16. ASSUME RotateMakeLog PROVE CountMoves
  BY <1>16 DEF RotateMakeLog, Goto, MakeLogWriter, wvars
<1>17. ASSUME RotateSave PROVE CountMoves
  BY <1>17 DEF RotateSave, Goto, wvars
<1>18. ASSUME RotateSwap PROVE CountMoves
  BY <1>18 DEF RotateSwap, Goto, PushSwap, NewWriter, wvars
<1>19. ASSUME RotateWait PROVE CountMoves
  BY <1>19 DEF RotateWait, Goto, PushReturn, wvars
<1>20. ASSUME RotatePush PROVE CountMoves
  BY <1>20 DEF RotatePush, Goto, wvars
<1>21. ASSUME StartCompaction PROVE CountMoves
  BY <1>21 DEF StartCompaction, Goto, wvars
<1>22. ASSUME BuildTable PROVE CountMoves
  BY <1>22 DEF BuildTable, Goto, wvars
<1>23. ASSUME Install PROVE CountMoves
  BY <1>23 DEF Install, Goto, RemoveStart, wvars
<1>24. ASSUME Removing PROVE CountMoves
  BY <1>24 DEF Removing, Goto, RemoveReturn, wvars
<1>25. ASSUME Commit PROVE CountMoves
  BY <1>25 DEF Commit, Goto, wvars
<1>26. ASSUME NEW e \in job.unused, DeleteLog(e) PROVE CountMoves
  BY <1>26 DEF DeleteLog, CloseRemoved, wvars
<1>27. ASSUME NEW e \in job.unused, DeleteTable(e) PROVE CountMoves
  BY <1>27 DEF DeleteTable, wvars
<1>28. ASSUME CompactionDone PROVE CountMoves
  BY <1>28 DEF CompactionDone, Goto, wvars
<1>29. ASSUME BCloseStart PROVE CountMoves
  BY <1>29 DEF BCloseStart, Goto, CloseStart, wvars
<1>30. ASSUME BCloseBarrier PROVE CountMoves
  BY <1>30 DEF BCloseBarrier, CloseBarrier, bfvars, wvars
<1>31. ASSUME BCloseReturn PROVE CountMoves
  BY <1>31 DEF BCloseReturn, Goto, CloseReturn, wvars
<1>32. ASSUME CloseSave PROVE CountMoves
  BY <1>32 DEF CloseSave, Goto, wvars
<1>33. ASSUME NEW e \in job.unused, CloseDelete(e) PROVE CountMoves
  BY <1>33 DEF CloseDelete, wvars
<1>34. ASSUME Exit PROVE CountMoves
  BY <1>34 DEF Exit, ForgetMemory, wvars
<1>35. ASSUME Kill PROVE CountMoves
  BY <1>35 DEF Kill, ForgetMemory, wvars
<1>36. ASSUME PowerLoss PROVE CountMoves
  BY <1>36 DEF PowerLoss, ForgetMemory, wvars
<1>37. ASSUME UNCHANGED vars PROVE CountMoves
  BY <1>37 DEF vars, bfvars, wvars
<1> HIDE DEF CountMoves, AWrite, WTypeOK, IdleWrite
<1> QED
  BY <1>1, <1>2, <1>3, <1>4, <1>5, <1>6, <1>7, <1>8, <1>9, <1>10, <1>11, <1>12, <1>13, <1>14,
     <1>15, <1>16, <1>17, <1>18, <1>19, <1>20, <1>21, <1>22, <1>23, <1>24, <1>25, <1>26, <1>27,
     <1>28, <1>29, <1>30, <1>31, <1>32, <1>33, <1>34, <1>35, <1>36, <1>37
  DEF BNext, OpenStep, ClientStep, CompactStep, ShutdownStep, Quiescent

\* A log in use keeps its records.
LEMMA FilledKept ==
    ASSUME CInv, [BNext]_vars, ~PowerLoss, NEW l, NonEmpty(l), LogFile(l) \in InUse
    PROVE  NonEmpty(l)'
<1>1. l \in Logs /\ entries[l] # <<>>
  BY DEF NonEmpty
<1>2. CASE AWrite
  <2>1. PICK b \in Blocks, k \in Logs : WriteOf(b, k)
    BY <1>2, Written
  <2>2. PICK r : r = <<b, ver[b] + 1>> /\ entries' = [entries EXCEPT ![k] = Append(@, r)]
    BY <2>1 DEF WriteOf
  <2>3. entries'[l] = entries[l] \/ entries'[l] = Append(entries[l], r)
    BY <1>1, <2>2 DEF CInv, BInv, WInv, WTypeOK
  <2>4. Append(entries[l], r) # <<>>
    <3>1. \A s, x : s \in Seq(Blocks \X Nat) => Append(s, x) # <<>>
      OBVIOUS
    <3> QED
      BY <1>1, <3>1 DEF CInv, BInv, WInv, WTypeOK
  <2> QED
    BY <1>1, <2>3, <2>4 DEF NonEmpty
<1>3. CASE ~AWrite
  <2>1. entries'[l] = entries[l]
    BY <1>3, SameFile, LogFields
  <2> QED
    BY <1>1, <2>1 DEF NonEmpty
<1> QED
  BY <1>2, <1>3

\* The log of a write that is not counted yet.
LEMMA CountedLog ==
    ASSUME CInv, NEW b \in Blocks, wr[b].pc = "count", wr[b].log \in Logs
    PROVE  /\ Serving
           /\ wr[b].log = activeWriter \/ (pc = "rotateWait" /\ wr[b].log = job.log)
           /\ LogFile(wr[b].log) \in InUse
<1>1. Serving
  BY DEF CInv, Calls
<1>2. b \in ActiveWrites /\ wr[b].log # NoLog /\ cl.pc = "open"
  BY <1>1, NoLogAssumption DEF ActiveWrites, CInv, Calls, BInv, WInv, Phases
<1>3. wr[b].log = activeWriter \/ (pc = "rotateWait" /\ wr[b].log = job.log)
  BY <1>2 DEF CInv, Calls, BInv, WInv, WritesHeld
<1>4. LogFile(wr[b].log) \in InUse
  BY <1>1, <1>3 DEF CInv, ListEnd, Newest, Active, JobLog, InUse
<1> QED
  BY <1>1, <1>3, <1>4

\* The active log and the one that is being replaced are in use.
LEMMA WrittenInUse ==
    ASSUME CInv
    PROVE  /\ Serving => LogFile(activeWriter) \in InUse
           /\ pc \in {"rotateWait", "rotatePush"} => LogFile(job.log) \in InUse
           /\ Up => \A l \in Pending : LogFile(l) \in InUse
  BY DEF CInv, ListEnd, Newest, Active, JobLog, InUse, LogMembers

LEMMA LogsFilledStep ==
    ASSUME CInv, LogsFilled, [BNext]_vars
    PROVE  LogsFilled'
<1>1. TrackerMoves /\ PhaseMoves /\ CountMoves
  BY TrackerFrame, PhaseFrame, CountFrame DEF CInv, BInv, WInv
<1>2. PowerLoss => ForgetMemory
  BY DEF PowerLoss
<1>3. pc' # "down" => ~ForgetMemory /\ ~PowerLoss
  BY <1>2, ActionPcs
<1>4. ASSUME NEW b \in Blocks, wr'[b].pc = "count" PROVE NonEmpty(wr[b].log)'
  <2>1. ~ForgetMemory
    BY <1>4 DEF ForgetMemory, IdleWrite
  <2>2. CASE AWrite
    <3>1. PICK c \in Blocks, k \in Logs : WriteOf(c, k)
      BY <2>2, Written
    <3>2. PICK r : r = <<c, ver[c] + 1>> /\ entries' = [entries EXCEPT ![k] = Append(@, r)]
      BY <3>1 DEF WriteOf
    <3>3. wr'[b].log = wr[b].log /\ (b # c => wr'[b] = wr[b])
      BY <3>1 DEF WriteOf, CInv, BInv, WInv, WTypeOK
    <3>4. CASE b = c
      <4>1. wr'[b].log = k /\ entries'[k] = Append(entries[k], r)
        BY <3>1, <3>2, <3>3, <3>4 DEF WriteOf, CInv, BInv, WInv, WTypeOK
      <4>2. Append(entries[k], r) # <<>>
        <5>1. \A s, x : s \in Seq(Blocks \X Nat) => Append(s, x) # <<>>
          OBVIOUS
        <5> QED
          BY <5>1 DEF CInv, BInv, WInv, WTypeOK
      <4> QED
        BY <4>1, <4>2 DEF NonEmpty
    <3>5. CASE b # c
      <4>1. PICK l : l = wr[b].log /\ l = wr'[b].log
        BY <3>3
      <4>2. NonEmpty(l) /\ wr[b].pc = "count"
        BY <1>4, <3>3, <3>5, <4>1 DEF LogsFilled
      <4>3. LogFile(l) \in InUse
        BY <4>1, <4>2, CountedLog DEF NonEmpty
      <4>4. NonEmpty(l)'
        BY <1>2, <2>1, <4>2, <4>3, FilledKept
      <4> QED
        BY <4>1, <4>4 DEF NonEmpty
    <3> QED
      BY <3>4, <3>5
  <2>3. CASE ~AWrite
    <3>1. wr'[b] = wr[b]
      BY <1>1, <1>4, <2>3 DEF CountMoves
    <3>2. PICK l : l = wr[b].log /\ l = wr'[b].log
      BY <3>1
    <3>3. NonEmpty(l) /\ wr[b].pc = "count"
      BY <1>4, <3>1, <3>2 DEF LogsFilled
    <3>4. LogFile(l) \in InUse
      BY <3>2, <3>3, CountedLog DEF NonEmpty
    <3>5. NonEmpty(l)'
      BY <1>2, <2>1, <3>3, <3>4, FilledKept
    <3> QED
      BY <3>2, <3>5 DEF NonEmpty
  <2> QED
    BY <2>2, <2>3
<1>5. ASSUME pc' \in {"down"} \cup Opening PROVE writeCount' = 0
  <2>1. CASE ForgetMemory
    BY <2>1 DEF ForgetMemory
  <2>2. CASE ~ForgetMemory
    <3>1. pc \in {"down"} \cup Opening
      BY <1>1, <1>5, <2>2 DEF PhaseMoves
    <3>2. ~Serving /\ writeCount = 0 /\ pc \notin {"rotateWait", "idle"}
      BY <3>1 DEF LogsFilled, Serving, Opening
    <3>3. \A b \in Blocks : ~BWriteCount(b)
      BY <3>2 DEF CInv, Calls, BWriteCount, WriteCount
    <3> QED
      BY <1>1, <2>2, <3>2, <3>3, MorePcs DEF CountMoves
  <2> QED
    BY <2>1, <2>2
<1>6. ASSUME Serving', pc' # "rotateWait", writeCount' # 0 PROVE NonEmpty(activeWriter)'
  <2>1. ~ForgetMemory /\ ~PowerLoss /\ ~RotateSwap /\ ~BCloseStart
    BY <1>3, <1>6, MorePcs DEF Serving
  <2>2. ~RotateWait
    BY <1>6 DEF RotateWait, PushReturn
  <2>3. ~OpenPush
    <3> SUFFICES ASSUME OpenPush PROVE FALSE
      OBVIOUS
    <3>1. writeCount' = writeCount /\ pc = "openPush"
      BY DEF OpenPush, PushFirstLog
    <3> QED
      BY <1>6, <3>1 DEF LogsFilled, Opening
  <2>4. Serving /\ pc # "rotateWait"
    BY <1>1, <1>6, <2>1, <2>2, <2>3 DEF PhaseMoves
  <2>5. PICK l : l = activeWriter /\ l = activeWriter'
    BY <1>1, <2>1, <2>3 DEF TrackerMoves
  <2>6. NonEmpty(l)
    <3>1. CASE writeCount # 0
      BY <2>4, <2>5, <3>1 DEF LogsFilled
    <3>2. CASE writeCount = 0
      <4>1. PICK b \in Blocks : BWriteCount(b)
        BY <1>1, <1>6, <2>1, <2>2, <3>2 DEF CountMoves
      <4>2. wr[b].pc = "count" /\ NonEmpty(wr[b].log)
        BY <4>1 DEF BWriteCount, WriteCount, LogsFilled
      <4>3. wr[b].log = l
        BY <2>4, <2>5, <4>2, CountedLog DEF NonEmpty
      <4> QED
        BY <4>2, <4>3
    <3> QED
      BY <3>1, <3>2
  <2>7. NonEmpty(l)'
    BY <2>1, <2>4, <2>5, <2>6, WrittenInUse, FilledKept
  <2> QED
    BY <2>5, <2>7 DEF NonEmpty
<1>7. ASSUME pc' \in {"rotate", "rotateSave", "rotateSwap"} PROVE NonEmpty(activeWriter)'
  <2>1. ~ForgetMemory /\ ~PowerLoss /\ ~RotateSwap /\ ~BCloseStart /\ ~OpenPush
    BY <1>3, <1>7, MorePcs
  <2>2. RotateSave => pc = "rotateSave"
    BY DEF RotateSave, Goto
  <2>3. CompactWriterCheck /\ pc' = "rotate" => pc = "check" /\ writeCount # 0
    BY SizesAssumption DEF CompactWriterCheck
  <2>4. \/ pc \in {"rotate", "rotateSave", "rotateSwap"}
        \/ pc = "check" /\ writeCount # 0
    BY <1>1, <1>7, <2>2, <2>3, MorePcs DEF PhaseMoves, CountMoves
  <2>5. Serving /\ NonEmpty(activeWriter)
    BY <2>4 DEF LogsFilled, Serving
  <2>6. PICK l : l = activeWriter /\ l = activeWriter'
    BY <1>1, <2>1 DEF TrackerMoves
  <2>7. NonEmpty(l)'
    BY <2>1, <2>5, <2>6, WrittenInUse, FilledKept
  <2> QED
    BY <2>6, <2>7 DEF NonEmpty
<1>8. ASSUME pc' \in {"rotateWait", "rotatePush"} PROVE NonEmpty(job.log)' /\ (job.log \in Pending)'
  <2>1. CASE RotateSwap
    <3>1. PICK l : l = activeWriter /\ l = job'.log
      BY <2>1, Swapped
    <3>2. NonEmpty(l) /\ UNCHANGED entries /\ pendingWriters' = Append(pendingWriters, l)
      BY <2>1, <3>1, Swapped DEF LogsFilled
    <3>3. l \in Pending'
      BY <3>2, PendingAppend DEF NonEmpty, CInv, BInv, WInv, WTypeOK
    <3> QED
      BY <3>1, <3>2, <3>3 DEF NonEmpty
  <2>2. CASE ~RotateSwap
    <3>1. pc \in {"rotateWait", "rotatePush"} /\ ~ForgetMemory /\ ~PowerLoss
      BY <1>1, <1>3, <1>8, <2>2, MorePcs DEF PhaseMoves
    <3>2. /\ ~OpenLoad /\ ~Install /\ ~BCloseStart /\ ~AMakeLog /\ ~OpenPush /\ ~CompactionDone
      BY <3>1, ActionPcs, MorePcs
    <3>3. UNCHANGED pendingWriters
      BY <1>1, <2>2, <3>1, <3>2 DEF TrackerMoves
    <3>4. PICK l : l = job.log /\ l = job'.log
      BY <2>2, <3>1, <3>2, JobKept DEF CInv
    <3>5. NonEmpty(l)' /\ l \in Pending
      BY <3>1, <3>4, WrittenInUse, FilledKept DEF LogsFilled
    <3> QED
      BY <3>3, <3>4, <3>5 DEF NonEmpty, Pending
  <2> QED
    BY <2>1, <2>2
<1>9. ASSUME pc' \in {"start", "build"} PROVE (\E l \in Pending : NonEmpty(l))'
  <2>1. ~ForgetMemory /\ ~PowerLoss
    BY <1>3, <1>9
  <2>2. StartCompaction => pc = "start"
    BY DEF StartCompaction, Goto
  <2>3. pc \in {"start", "build", "rotatePush"}
    BY <1>1, <1>9, <2>2, ActionPcs DEF CountMoves
  <2>4. PICK l \in Pending : NonEmpty(l)
    BY <2>3 DEF LogsFilled
  <2>5. Up /\ ~OpenLoad /\ ~Install /\ ~BCloseStart /\ ~RotateSwap
    BY <2>3, ActionPcs, MorePcs DEF Up, Closing
  <2>6. UNCHANGED pendingWriters
    BY <1>1, <2>1, <2>5 DEF TrackerMoves
  <2>7. NonEmpty(l)' /\ l \in Pending'
    BY <2>1, <2>4, <2>5, <2>6, WrittenInUse, FilledKept DEF Pending
  <2> QED
    BY <2>7
<1> QED
  BY <1>4, <1>5, <1>6, <1>7, <1>8, <1>9 DEF LogsFilled

LEMMA TableNotEmptyStep ==
    ASSUME CInv, LogsFilled, TableNotEmpty, [BNext]_vars
    PROVE  TableNotEmpty'
<1>1. CASE BuildTable
  <2>1. pc = "build" /\ Up
    BY <1>1, ActionPcs DEF Up, Closing
  <2>2. PICK l \in Pending : NonEmpty(l)
    BY <2>1 DEF LogsFilled
  <2>3. PICK r : r = entries[l]
    OBVIOUS
  <2>4. r \in Seq(Blocks \X Nat) /\ r # <<>> /\ l \in Logs
    BY <2>2, <2>3 DEF NonEmpty, CInv, BInv, WInv, WTypeOK
  <2>5. 1 \in DOMAIN r
    BY <2>4
  <2>6. PICK b \in Blocks, v \in Versions : r[1] = <<b, v>>
    BY <2>3, <2>4, <2>5 DEF CInv, BInv, ContentsType
  <2>7. Has(LogFile(l), b, v)
    BY <2>3, <2>5, <2>6, LogFields DEF Has
  <2>8. l # activeWriter /\ LogFile(l) \in FileSet(diskMeta)
    BY <2>1, <2>2 DEF CInv, LogMembers, Calls, Serving, BInv, WInv, LogsHeld
  <2>9. tables'[nextSeq][b] # 0
    BY <1>1, <2>4, <2>7, <2>8, BuiltTable
  <2>10. tables'[nextSeq] # Hole
    BY <2>9 DEF Hole
  <2>11. DOMAIN tables' = DOMAIN tables \cup {nextSeq}
         /\ \A s \in DOMAIN tables : s # nextSeq => tables'[s] = tables[s]
    BY <1>1 DEF BuildTable
  <2>12. \A s \in DOMAIN tables' : tables'[s] # Hole
    BY <2>10, <2>11 DEF TableNotEmpty
  <2> QED
    BY <2>12 DEF TableNotEmpty, Hole
<1>2. CASE ADeleteTable
  BY <1>2 DEF ADeleteTable, DeleteTable, TableNotEmpty, Hole
<1>3. CASE UNCHANGED tables
  BY <1>3 DEF TableNotEmpty, Hole
<1> QED
  BY <1>1, <1>2, <1>3, Changes DEF DiskChanges

\* A table is never built from nothing, for any target size and any number of
\* concurrent calls: what compactWriter rotates has been written to, although
\* the count it looks at is kept apart from the logs and reset by PushNewLog.
THEOREM TablesFilled == BSafeSpec => []TableNotEmpty
<1>1. BInit => TInv
  <2> SUFFICES ASSUME BInit PROVE LogsFilled /\ TableNotEmpty
    BY CInitInv DEF TInv
  <2>1. TableNotEmpty
    BY DEF BInit, TableNotEmpty
  <2>2. /\ pc = "down" /\ writeCount = 0
        /\ wr = [b \in Blocks |-> IdleWrite]
    BY DEF BInit, WInit
  <2>3. LogsFilled
    BY <2>2 DEF LogsFilled, IdleWrite, Serving
  <2> QED
    BY <2>1, <2>3
<1>2. TInv /\ [BNext]_vars => TInv'
  BY CStepInv, LogsFilledStep, TableNotEmptyStep DEF TInv
<1>3. TInv => TableNotEmpty
  BY DEF TInv
<1> QED
  BY <1>1, <1>2, <1>3, PTL DEF BSafeSpec


-----------------------------------------------------------------------------
(* What a flush vouches for *)

\* A version of b that is not older than v would survive a power failure now ...
Durable(b, v) ==
    v # 0 => \E e \in FileSet(diskMeta) : \E w \in Versions : v <= w /\ Left(synced, e, b, w)

\* ... or is in one of the given logs, written in this session, which an fsync
\* makes durable.
Synced(l) == synced[l] = Len(entries[l])
Dirty(ls, b, v) ==
    \E l \in Logs : \E w \in Versions :
        l \in ls /\ wstate[l] \in {"open", "frozen"} /\ v <= w /\ Has(LogFile(l), b, w)
Safe(ls, b, v) == Durable(b, v) \/ Dirty(ls, b, v)

\* The logs of the tracker that the stored metadata needs.
Unreplaced == Pending \cup {activeWriter} \cup (IF pc = "removing" THEN rem.logs ELSE {})

\* The logs that RemovePending took out are listed until the table is.
RemovedListed ==
    /\ rem.pc = "wait" <=> pc = "removing"
    /\ pc \in {"removing", "commit"} => \A l \in rem.logs : LogFile(l) \in FileSet(diskMeta)

\* A swapped log whose closer is done has been fsynced.
ClosedSynced ==
    cl.pc = "open" =>
        \A l \in Pending \cup rem.logs :
            closer[l] = "none" /\ wstate[l] \in {"open", "frozen"} => Synced(l)

\* What has been acknowledged in this session, or will be by a write that has
\* written, is durable or in a log that a flush finds (the window apart).
AckedSafe ==
    /\ pc \in {"down"} \cup Opening => acked = Hole
    /\ Serving => \A b \in Blocks :
          /\ Safe(Unreplaced, b, acked[b])
          /\ wr[b].pc \in {"count", "check"} => Safe(Unreplaced, b, ver[b])

\* What a running flush is to vouch for is durable or in a log it has still to
\* sync.
NeedSafe ==
    \A f \in Flushers : fl[f].pc = "flush" =>
        /\ Serving
        /\ \A b \in Blocks : Safe(fl[f].todo, b, need[f][b])

FlushedSafe == \A b \in Blocks : Durable(b, flushed[b])

FaultsType == faults \in [kill : Nat, power : Nat, close : Nat]

DInv ==
    /\ CInv
    /\ RemovedListed
    /\ ClosedSynced
    /\ AckedSafe
    /\ NeedSafe
    /\ FlushedSafe
    /\ FaultsType

\* The steps that change what is fsynced, and the calls that do it.
SyncMoves ==
    /\ \A l \in Logs :
          \/ synced'[l] = synced[l]
          \/ synced'[l] = Len(entries[l]) /\ UNCHANGED entries
          \/ AMakeLog \/ ADeleteLog \/ PowerLoss
    /\ \A l \in Logs :
          \/ wstate'[l] = wstate[l]
          \/ wstate'[l] = "frozen" /\ closer[l] = "start"
          \/ wstate[l] \in {"none", "closed", "created"}
          \/ ADeleteLog \/ BCloseReturn \/ OpenLoad \/ ForgetMemory
    /\ \A l \in Logs :
          \/ closer'[l] = closer[l]
          \/ closer'[l] # "none"
          \/ /\ wstate[l] \in {"open", "frozen"} => synced'[l] = Len(entries[l])
             /\ UNCHANGED <<entries, wstate>>
          \/ ForgetMemory
    /\ cl'.pc = "open" => cl.pc = "open" \/ ForgetMemory

CallMoves ==
    /\ \A f \in Flushers : fl'[f].pc = "flush" =>
          \/ fl'[f] = fl[f] /\ need'[f] = need[f]
          \/ BFlushStart(f)
          \/ \E l \in Logs : BFlushLog(f, l)
    /\ \A b \in Blocks : wr'[b].pc \in {"count", "check"} =>
          \/ wr[b].pc \in {"count", "check"} /\ ver'[b] = ver[b]
          \/ BWriteAppend(b)
    /\ \/ rem'.pc = rem.pc /\ rem'.logs = rem.logs /\ (rem'.pc = "wait" => pc' = pc)
       \/ Install \/ Removing \/ ADeleteLog \/ ForgetMemory
    /\ pc' = "removing" => pc = "removing" \/ Install
    /\ pc = "removing" => pc' = "removing" \/ Removing \/ ForgetMemory
    /\ pc' = "commit" => pc = "commit" \/ Removing

LEMMA SyncFrame ==
    ASSUME WTypeOK, JobType, [BNext]_vars
    PROVE  SyncMoves
<1> USE DEF SyncMoves, WTypeOK, JobType, AMakeLog, ADeleteLog
<1>1. ASSUME OpenLoad PROVE SyncMoves
  BY <1>1 DEF OpenLoad, wvars
<1>2. ASSUME OpenMakeLog PROVE SyncMoves
  BY <1>2 DEF OpenMakeLog, MakeLogWriter, RunnerIdle, wvars
<1>3. ASSUME OpenSave PROVE SyncMoves
  BY <1>3 DEF OpenSave, wvars
<1>4. ASSUME OpenPush PROVE SyncMoves
  BY <1>4 DEF OpenPush, PushFirstLog, NewWriter, wvars
<1>5. ASSUME NEW b \in Blocks, BWriteStart(b) PROVE SyncMoves
  BY <1>5 DEF BWriteStart, WriteStart, Admitted, bfvars, wvars
<1>6. ASSUME NEW f \in Flushers, BFlushStart(f) PROVE SyncMoves
  BY <1>6 DEF BFlushStart, FlushStart, wvars
<1>7. ASSUME NEW b \in Blocks, BWriteAppend(b) PROVE SyncMoves
  BY <1>7 DEF BWriteAppend, WriteAppend, wvars
<1>8. ASSUME NEW b \in Blocks, BWriteCount(b) PROVE SyncMoves
  BY <1>8 DEF BWriteCount, WriteCount, WriteLeaves, bfvars, wvars
<1>9. ASSUME NEW b \in Blocks, BWriteReturn(b) PROVE SyncMoves
  BY <1>9 DEF BWriteReturn, WriteReturn, wvars
<1>10. ASSUME NEW f \in Flushers, BFlushReturn(f) PROVE SyncMoves
  BY <1>10 DEF BFlushReturn, FlushReturn, FlushLeaves, wvars
<1>11. ASSUME NEW f \in Flushers, NEW l \in Logs, BFlushLog(f, l) PROVE SyncMoves
  BY <1>11 DEF BFlushLog, FlushLog, Fsync, bfvars, wvars
<1>12. ASSUME NEW l \in Logs, BCloser(l) PROVE SyncMoves
  <2>1. CASE CloserFreeze(l)
    BY <1>12, <2>1 DEF BCloser, CloserFreeze, bfvars
  <2>2. CASE CloserSync(l)
    <3>1. /\ \A k \in Logs : k # l => synced'[k] = synced[k] /\ closer'[k] = closer[k]
          /\ wstate[l] \in {"open", "frozen"} => synced'[l] = Len(entries[l])
          /\ wstate[l] \notin {"open", "frozen"} => synced'[l] = synced[l]
          /\ UNCHANGED <<entries, wstate>> /\ cl'.pc = cl.pc
      BY <2>2 DEF CloserSync, CloserLeaves, Fsync
    <3> QED
      BY <3>1
  <2> QED
    BY <1>12, <2>1, <2>2 DEF BCloser, CloserStep
<1>13. ASSUME Merge PROVE SyncMoves
  BY <1>13 DEF Merge, wvars
<1>14. ASSUME RunnerLoop PROVE SyncMoves
  BY <1>14 DEF RunnerLoop, wvars
<1>15. ASSUME CompactWriterCheck PROVE SyncMoves
  BY <1>15 DEF CompactWriterCheck, wvars
<1>16. ASSUME RotateMakeLog PROVE SyncMoves
  BY <1>16 DEF RotateMakeLog, Goto, MakeLogWriter, wvars
<1>17. ASSUME RotateSave PROVE SyncMoves
  BY <1>17 DEF RotateSave, Goto, wvars
<1>18. ASSUME RotateSwap PROVE SyncMoves
  BY <1>18 DEF RotateSwap, Goto, PushSwap, NewWriter, wvars
<1>19. ASSUME RotateWait PROVE SyncMoves
  BY <1>19 DEF RotateWait, Goto, PushReturn, wvars
<1>20. ASSUME RotatePush PROVE SyncMoves
  BY <1>20 DEF RotatePush, Goto, wvars
<1>21. ASSUME StartCompaction PROVE SyncMoves
  BY <1>21 DEF StartCompaction, Goto, wvars
<1>22. ASSUME BuildTable PROVE SyncMoves
  BY <1>22 DEF BuildTable, Goto, wvars
<1>23. ASSUME Install PROVE SyncMoves
  BY <1>23 DEF Install, Goto, RemoveStart, wvars
<1>24. ASSUME Removing PROVE SyncMoves
  BY <1>24 DEF Removing, Goto, RemoveReturn, wvars
<1>25. ASSUME Commit PROVE SyncMoves
  BY <1>25 DEF Commit, Goto, wvars
<1>26. ASSUME NEW e \in job.unused, DeleteLog(e) PROVE SyncMoves
  BY <1>26 DEF DeleteLog, CloseRemoved, wvars
<1>27. ASSUME NEW e \in job.unused, DeleteTable(e) PROVE SyncMoves
  BY <1>27 DEF DeleteTable, wvars
<1>28. ASSUME CompactionDone PROVE SyncMoves
  BY <1>28 DEF CompactionDone, Goto, wvars
<1>29. ASSUME BCloseStart PROVE SyncMoves
  BY <1>29 DEF BCloseStart, Goto, CloseStart, wvars
<1>30. ASSUME BCloseBarrier PROVE SyncMoves
  BY <1>30 DEF BCloseBarrier, CloseBarrier, bfvars, wvars
<1>31. ASSUME BCloseReturn PROVE SyncMoves
  BY <1>31 DEF BCloseReturn, Goto, CloseReturn, wvars
<1>32. ASSUME CloseSave PROVE SyncMoves
  BY <1>32 DEF CloseSave, Goto, wvars
<1>33. ASSUME NEW e \in job.unused, CloseDelete(e) PROVE SyncMoves
  BY <1>33 DEF CloseDelete, wvars
<1>34. ASSUME Exit PROVE SyncMoves
  BY <1>34 DEF Exit, ForgetMemory, wvars
<1>35. ASSUME Kill PROVE SyncMoves
  BY <1>35 DEF Kill, ForgetMemory, wvars
<1>36. ASSUME PowerLoss PROVE SyncMoves
  BY <1>36 DEF PowerLoss, ForgetMemory, wvars
<1>37. ASSUME UNCHANGED vars PROVE SyncMoves
  BY <1>37 DEF vars, bfvars, wvars
<1> HIDE DEF SyncMoves, WTypeOK, JobType, AMakeLog, ADeleteLog
<1> QED
  BY <1>1, <1>2, <1>3, <1>4, <1>5, <1>6, <1>7, <1>8, <1>9, <1>10, <1>11, <1>12, <1>13, <1>14,
     <1>15, <1>16, <1>17, <1>18, <1>19, <1>20, <1>21, <1>22, <1>23, <1>24, <1>25, <1>26, <1>27,
     <1>28, <1>29, <1>30, <1>31, <1>32, <1>33, <1>34, <1>35, <1>36, <1>37
  DEF BNext, OpenStep, ClientStep, CompactStep, ShutdownStep, Quiescent

LEMMA CallFrame ==
    ASSUME WTypeOK, ContentsType, JobType, rem.pc = "wait" <=> pc = "removing", [BNext]_vars
    PROVE  CallMoves
<1> USE DEF CallMoves, WTypeOK, JobType, ContentsType, ADeleteLog, IdleWrite, IdleFlush
<1>1. ASSUME OpenLoad PROVE CallMoves
  BY <1>1 DEF OpenLoad, wvars
<1>2. ASSUME OpenMakeLog PROVE CallMoves
  BY <1>2 DEF OpenMakeLog, MakeLogWriter, RunnerIdle, wvars
<1>3. ASSUME OpenSave PROVE CallMoves
  BY <1>3 DEF OpenSave, wvars
<1>4. ASSUME OpenPush PROVE CallMoves
  BY <1>4 DEF OpenPush, PushFirstLog, NewWriter, wvars
<1>5. ASSUME NEW b \in Blocks, BWriteStart(b) PROVE CallMoves
  BY <1>5 DEF BWriteStart, WriteStart, Admitted, bfvars, wvars
<1>6. ASSUME NEW f \in Flushers, BFlushStart(f) PROVE CallMoves
  <2>1. \A g \in Flushers : g # f => fl'[g] = fl[g] /\ need'[g] = need[g]
    BY <1>6 DEF BFlushStart, FlushStart
  <2>2. UNCHANGED <<wr, ver, rem, pc>>
    BY <1>6 DEF BFlushStart, FlushStart
  <2> QED
    BY <1>6, <2>1, <2>2
<1>7. ASSUME NEW b \in Blocks, BWriteAppend(b) PROVE CallMoves
  <2>1. \A c \in Blocks : c # b => wr'[c] = wr[c] /\ ver'[c] = ver[c]
    BY <1>7 DEF BWriteAppend, WriteAppend
  <2>2. UNCHANGED <<fl, need, rem, pc>>
    BY <1>7 DEF BWriteAppend, WriteAppend
  <2> QED
    BY <1>7, <2>1, <2>2
<1>8. ASSUME NEW b \in Blocks, BWriteCount(b) PROVE CallMoves
  BY <1>8 DEF BWriteCount, WriteCount, WriteLeaves, bfvars, wvars
<1>9. ASSUME NEW b \in Blocks, BWriteReturn(b) PROVE CallMoves
  BY <1>9 DEF BWriteReturn, WriteReturn, wvars
<1>10. ASSUME NEW f \in Flushers, BFlushReturn(f) PROVE CallMoves
  BY <1>10 DEF BFlushReturn, FlushReturn, FlushLeaves, wvars
<1>11. ASSUME NEW f \in Flushers, NEW l \in Logs, BFlushLog(f, l) PROVE CallMoves
  <2>1. \A g \in Flushers : g # f => fl'[g] = fl[g]
    BY <1>11 DEF BFlushLog, FlushLog
  <2>2. UNCHANGED <<wr, ver, rem, pc, need>>
    BY <1>11 DEF BFlushLog, FlushLog, bfvars
  <2> QED
    BY <1>11, <2>1, <2>2
<1>12. ASSUME NEW l \in Logs, BCloser(l) PROVE CallMoves
  BY <1>12 DEF BCloser, CloserStep, CloserFreeze, CloserSync, CloserLeaves, bfvars, wvars
<1>13. ASSUME Merge PROVE CallMoves
  BY <1>13 DEF Merge, wvars
<1>14. ASSUME RunnerLoop PROVE CallMoves
  BY <1>14 DEF RunnerLoop, wvars
<1>15. ASSUME CompactWriterCheck PROVE CallMoves
  BY <1>15 DEF CompactWriterCheck, wvars
<1>16. ASSUME RotateMakeLog PROVE CallMoves
  BY <1>16 DEF RotateMakeLog, Goto, MakeLogWriter, wvars
<1>17. ASSUME RotateSave PROVE CallMoves
  BY <1>17 DEF RotateSave, Goto, wvars
<1>18. ASSUME RotateSwap PROVE CallMoves
  BY <1>18 DEF RotateSwap, Goto, PushSwap, NewWriter, wvars
<1>19. ASSUME RotateWait PROVE CallMoves
  BY <1>19 DEF RotateWait, Goto, PushReturn, wvars
<1>20. ASSUME RotatePush PROVE CallMoves
  BY <1>20 DEF RotatePush, Goto, wvars
<1>21. ASSUME StartCompaction PROVE CallMoves
  BY <1>21 DEF StartCompaction, Goto, wvars
<1>22. ASSUME BuildTable PROVE CallMoves
  BY <1>22 DEF BuildTable, Goto, wvars
<1>23. ASSUME Install PROVE CallMoves
  BY <1>23 DEF Install, Goto, RemoveStart, wvars
<1>24. ASSUME Removing PROVE CallMoves
  BY <1>24 DEF Removing, Goto, RemoveReturn, wvars
<1>25. ASSUME Commit PROVE CallMoves
  BY <1>25 DEF Commit, Goto, wvars
<1>26. ASSUME NEW e \in job.unused, DeleteLog(e) PROVE CallMoves
  BY <1>26 DEF DeleteLog, CloseRemoved, wvars
<1>27. ASSUME NEW e \in job.unused, DeleteTable(e) PROVE CallMoves
  BY <1>27 DEF DeleteTable, wvars
<1>28. ASSUME CompactionDone PROVE CallMoves
  BY <1>28 DEF CompactionDone, Goto, wvars
<1>29. ASSUME BCloseStart PROVE CallMoves
  BY <1>29 DEF BCloseStart, Goto, CloseStart, wvars
<1>30. ASSUME BCloseBarrier PROVE CallMoves
  BY <1>30 DEF BCloseBarrier, CloseBarrier, bfvars, wvars
<1>31. ASSUME BCloseReturn PROVE CallMoves
  BY <1>31 DEF BCloseReturn, Goto, CloseReturn, wvars
<1>32. ASSUME CloseSave PROVE CallMoves
  BY <1>32 DEF CloseSave, Goto, wvars
<1>33. ASSUME NEW e \in job.unused, CloseDelete(e) PROVE CallMoves
  BY <1>33 DEF CloseDelete, wvars
<1>34. ASSUME Exit PROVE CallMoves
  BY <1>34 DEF Exit, ForgetMemory, wvars
<1>35. ASSUME Kill PROVE CallMoves
  BY <1>35 DEF Kill, ForgetMemory, wvars
<1>36. ASSUME PowerLoss PROVE CallMoves
  BY <1>36 DEF PowerLoss, ForgetMemory, wvars
<1>37. ASSUME UNCHANGED vars PROVE CallMoves
  BY <1>37 DEF vars, bfvars, wvars
<1> HIDE DEF CallMoves, WTypeOK, JobType, ContentsType, ADeleteLog, IdleWrite, IdleFlush
<1> QED
  BY <1>1, <1>2, <1>3, <1>4, <1>5, <1>6, <1>7, <1>8, <1>9, <1>10, <1>11, <1>12, <1>13, <1>14,
     <1>15, <1>16, <1>17, <1>18, <1>19, <1>20, <1>21, <1>22, <1>23, <1>24, <1>25, <1>26, <1>27,
     <1>28, <1>29, <1>30, <1>31, <1>32, <1>33, <1>34, <1>35, <1>36, <1>37
  DEF BNext, OpenStep, ClientStep, CompactStep, ShutdownStep, Quiescent

FaultMoves == UNCHANGED faults \/ BCloseStart \/ Kill \/ PowerLoss

LEMMA FaultFrame ==
    ASSUME [BNext]_vars
    PROVE  FaultMoves
<1> USE DEF FaultMoves
<1>1. ASSUME OpenLoad PROVE FaultMoves
  BY <1>1 DEF OpenLoad
<1>2. ASSUME OpenMakeLog PROVE FaultMoves
  BY <1>2 DEF OpenMakeLog, MakeLogWriter, RunnerIdle
<1>3. ASSUME OpenSave PROVE FaultMoves
  BY <1>3 DEF OpenSave
<1>4. ASSUME OpenPush PROVE FaultMoves
  BY <1>4 DEF OpenPush, PushFirstLog, NewWriter
<1>5. ASSUME NEW b \in Blocks, BWriteStart(b) PROVE FaultMoves
  BY <1>5 DEF BWriteStart, WriteStart, Admitted, bfvars
<1>6. ASSUME NEW f \in Flushers, BFlushStart(f) PROVE FaultMoves
  BY <1>6 DEF BFlushStart, FlushStart
<1>7. ASSUME NEW b \in Blocks, BWriteAppend(b) PROVE FaultMoves
  BY <1>7 DEF BWriteAppend, WriteAppend
<1>8. ASSUME NEW b \in Blocks, BWriteCount(b) PROVE FaultMoves
  BY <1>8 DEF BWriteCount, WriteCount, WriteLeaves, bfvars
<1>9. ASSUME NEW b \in Blocks, BWriteReturn(b) PROVE FaultMoves
  BY <1>9 DEF BWriteReturn, WriteReturn
<1>10. ASSUME NEW f \in Flushers, BFlushReturn(f) PROVE FaultMoves
  BY <1>10 DEF BFlushReturn, FlushReturn, FlushLeaves
<1>11. ASSUME NEW f \in Flushers, NEW l \in Logs, BFlushLog(f, l) PROVE FaultMoves
  BY <1>11 DEF BFlushLog, FlushLog, bfvars
<1>12. ASSUME NEW l \in Logs, BCloser(l) PROVE FaultMoves
  BY <1>12 DEF BCloser, CloserStep, CloserFreeze, CloserSync, CloserLeaves, bfvars
<1>13. ASSUME Merge PROVE FaultMoves
  BY <1>13 DEF Merge
<1>14. ASSUME RunnerLoop PROVE FaultMoves
  BY <1>14 DEF RunnerLoop
<1>15. ASSUME CompactWriterCheck PROVE FaultMoves
  BY <1>15 DEF CompactWriterCheck
<1>16. ASSUME RotateMakeLog PROVE FaultMoves
  BY <1>16 DEF RotateMakeLog, Goto, MakeLogWriter
<1>17. ASSUME RotateSave PROVE FaultMoves
  BY <1>17 DEF RotateSave, Goto
<1>18. ASSUME RotateSwap PROVE FaultMoves
  BY <1>18 DEF RotateSwap, Goto, PushSwap, NewWriter
<1>19. ASSUME RotateWait PROVE FaultMoves
  BY <1>19 DEF RotateWait, Goto, PushReturn
<1>20. ASSUME RotatePush PROVE FaultMoves
  BY <1>20 DEF RotatePush, Goto
<1>21. ASSUME StartCompaction PROVE FaultMoves
  BY <1>21 DEF StartCompaction, Goto
<1>22. ASSUME BuildTable PROVE FaultMoves
  BY <1>22 DEF BuildTable, Goto
<1>23. ASSUME Install PROVE FaultMoves
  BY <1>23 DEF Install, Goto, RemoveStart
<1>24. ASSUME Removing PROVE FaultMoves
  BY <1>24 DEF Removing, Goto, RemoveReturn
<1>25. ASSUME Commit PROVE FaultMoves
  BY <1>25 DEF Commit, Goto
<1>26. ASSUME NEW e \in job.unused, DeleteLog(e) PROVE FaultMoves
  BY <1>26 DEF DeleteLog, CloseRemoved
<1>27. ASSUME NEW e \in job.unused, DeleteTable(e) PROVE FaultMoves
  BY <1>27 DEF DeleteTable
<1>28. ASSUME CompactionDone PROVE FaultMoves
  BY <1>28 DEF CompactionDone, Goto
<1>29. ASSUME BCloseStart PROVE FaultMoves
  BY <1>29 DEF BCloseStart, Goto, CloseStart
<1>30. ASSUME BCloseBarrier PROVE FaultMoves
  BY <1>30 DEF BCloseBarrier, CloseBarrier, bfvars
<1>31. ASSUME BCloseReturn PROVE FaultMoves
  BY <1>31 DEF BCloseReturn, Goto, CloseReturn
<1>32. ASSUME CloseSave PROVE FaultMoves
  BY <1>32 DEF CloseSave, Goto
<1>33. ASSUME NEW e \in job.unused, CloseDelete(e) PROVE FaultMoves
  BY <1>33 DEF CloseDelete
<1>34. ASSUME Exit PROVE FaultMoves
  BY <1>34 DEF Exit, ForgetMemory
<1>35. ASSUME Kill PROVE FaultMoves
  BY <1>35 DEF Kill, ForgetMemory
<1>36. ASSUME PowerLoss PROVE FaultMoves
  BY <1>36 DEF PowerLoss, ForgetMemory
<1>37. ASSUME UNCHANGED vars PROVE FaultMoves
  BY <1>37 DEF vars, bfvars
<1> HIDE DEF FaultMoves
<1> QED
  BY <1>1, <1>2, <1>3, <1>4, <1>5, <1>6, <1>7, <1>8, <1>9, <1>10, <1>11, <1>12, <1>13, <1>14,
     <1>15, <1>16, <1>17, <1>18, <1>19, <1>20, <1>21, <1>22, <1>23, <1>24, <1>25, <1>26, <1>27,
     <1>28, <1>29, <1>30, <1>31, <1>32, <1>33, <1>34, <1>35, <1>36, <1>37
  DEF BNext, OpenStep, ClientStep, CompactStep, ShutdownStep, Quiescent

\* The logs that matter to a flush are listed.
LEMMA UnreplacedListed ==
    ASSUME CInv, RemovedListed, Serving, NEW l \in Logs, l \in Unreplaced
    PROVE  /\ Up
           /\ LogFile(l) \in FileSet(diskMeta)
           /\ LogFile(l) \in InUse
           /\ l \in logFiles
           /\ cl.pc = "open"
           /\ pc \in {"removing", "commit"} \/ l \in Pending \cup {activeWriter}
           /\ wstate[l] \in {"open", "frozen", "reader"}
<1>1. Up /\ cl.pc = "open"
  BY DEF CInv, Calls, BInv, WInv, Phases, Up, Serving, Closing
<1>2. LogFile(l) \in FileSet(diskMeta)
  BY <1>1, NoLogAssumption DEF RemovedListed, Unreplaced, CInv, LogMembers, ListEnd, Newest, Active
<1>3. LogFile(l) \in InUse
  BY <1>2 DEF InUse
<1>4. l \in logFiles
  BY <1>3, InUseExists, LogFields DEF Exists
<1>5. wstate[l] \in {"open", "frozen", "reader"}
  BY <1>1, NoLogAssumption DEF Unreplaced, CInv, BInv, WInv, LogsHeld
<1> QED
  BY <1>1, <1>2, <1>3, <1>4, <1>5 DEF Unreplaced

\* What a flush has still to sync is among them.
LEMMA TodoUnreplaced ==
    ASSUME CInv, RemovedListed, NEW f \in Flushers
    PROVE  fl[f].todo \subseteq Unreplaced
  BY DEF CInv, BInv, WInv, FlushesHeld, RemovedListed, Unreplaced

\* What has been fsynced in a listed log stays there.
LEMMA SyncedGrows ==
    ASSUME CInv, [BNext]_vars, NEW l \in Logs, LogFile(l) \in FileSet(diskMeta)
    PROVE  \A b, v : (\E i \in 1..synced[l] : entries[l][i] = <<b, v>>) =>
                         \E i \in 1..synced'[l] : entries'[l][i] = <<b, v>>
<1>1. /\ synced \in [Logs -> Nat] /\ synced[l] \in Nat
      /\ entries \in [Logs -> Seq(Blocks \X Nat)]
      /\ entries[l] \in Seq(Blocks \X Nat) /\ Len(entries[l]) \in Nat
      /\ synced[l] <= Len(entries[l])
  BY DEF CInv, BInv, WInv, WTypeOK
<1> SUFFICES /\ synced'[l] \in Nat /\ synced[l] <= synced'[l]
             /\ \A i \in 1..synced[l] : entries'[l][i] = entries[l][i]
  BY <1>1
<1>2. CASE PowerLoss
  <2>1. PICK len : /\ \A k \in Logs : len[k] \in synced[k]..Len(entries[k])
                   /\ entries' = [k \in Logs |-> SubSeq(entries[k], 1, len[k])]
                   /\ synced' = len
    BY <1>2, Zenon DEF PowerLoss
  <2>2. synced'[l] \in synced[l]..Len(entries[l]) /\ entries'[l] = SubSeq(entries[l], 1, synced'[l])
    BY <2>1
  <2>3. synced'[l] \in Nat /\ synced[l] <= synced'[l] /\ synced'[l] <= Len(entries[l])
    BY <1>1, <2>2
  <2> QED
    BY <1>1, <2>2, <2>3
<1>3. CASE ~ PowerLoss
  <2>1. LogFile(l) \in InUse
    BY DEF InUse
  <2>2. l \in logFiles
    BY <2>1, InUseExists, LogFields DEF Exists
  <2>3. pc = "delete" => LogFile(l) \notin job.unused
    BY <2>1, UnusedGone
  <2>4. synced'[l] = synced[l] \/ (synced'[l] = Len(entries[l]) /\ UNCHANGED entries)
    <3>1. CASE AMakeLog
      <4>1. NewName \in Logs \ logFiles
        BY <3>1, FreshName DEF AMakeLog, OpenMakeLog, RotateMakeLog, CInv, BInv
      <4>2. synced' = [synced EXCEPT ![NewName] = 0]
        BY <3>1 DEF AMakeLog, OpenMakeLog, RotateMakeLog, MakeLogWriter
      <4> QED
        BY <1>1, <2>2, <4>1, <4>2
    <3>2. CASE ADeleteLog
      <4>1. PICK x \in job.unused : x.type = "log" /\ synced' = [synced EXCEPT ![x.name] = 0]
        BY <3>2 DEF ADeleteLog, DeleteLog, CloseRemoved
      <4>2. pc = "delete" /\ x = LogFile(x.name)
        BY <3>2, <4>1, ActionPcs, FileKinds DEF CInv, BInv, JobType
      <4>3. x.name # l
        BY <2>3, <4>2
      <4> QED
        BY <1>1, <4>1, <4>3
    <3> QED
      BY <1>3, <3>1, <3>2, SyncFrame DEF SyncMoves, CInv, BInv, WInv
  <2>5. \A i \in 1..synced[l] : entries'[l][i] = entries[l][i]
    <3>1. CASE AWrite
      <4>1. PICK b \in Blocks, k \in Logs : WriteOf(b, k)
        BY <3>1, Written
      <4>2. PICK n \in Nat : n = ver[b] + 1
        BY <4>1, WriteFacts
      <4>3. PICK r : r = <<b, n>>
        OBVIOUS
      <4>6. r \in Blocks \X Nat /\ entries' = [entries EXCEPT ![k] = Append(@, r)]
        BY <4>1, <4>2, <4>3 DEF WriteOf
      <4>4. CASE k # l
        BY <1>1, <4>6, <4>4
      <4>5. CASE k = l
        <5>1. entries'[l] = Append(entries[l], r)
          BY <1>1, <4>6, <4>5
        <5> QED
          BY <1>1, <4>6, <5>1
      <4> QED
        BY <4>4, <4>5
    <3>2. CASE ~ AWrite
      BY <1>3, <2>2, <2>3, <3>2, SameLog
    <3> QED
      BY <3>1, <3>2
  <2> QED
    BY <1>1, <2>4, <2>5
<1> QED
  BY <1>2, <1>3

\* What is durable stays durable.
LEMMA LeftKept ==
    ASSUME CInv, [BNext]_vars, NEW e \in FileSet(diskMeta), NEW b, NEW v, Left(synced, e, b, v)
    PROVE  Left(synced, e, b, v)'
<1>1. e \in DataFiles /\ e \in InUse
  BY ListFacts DEF InUse
<1>2. CASE e.type = "log"
  <2>1. e.name \in Logs /\ e = LogFile(e.name)
    BY <1>1, <1>2, FileKinds
  <2> QED
    BY <1>2, <2>1, SyncedGrows DEF Left
<1>3. CASE e.type # "log"
  <2>1. Has(e, b, v)
    BY <1>3 DEF Left
  <2>2. Has(e, b, v)'
    <3>1. CASE AWrite
      BY <2>1, <3>1, Written, WriteHas
    <3>2. CASE PowerLoss
      BY <1>3, <2>1, <3>2, Cut DEF Has
    <3> QED
      BY <1>1, <2>1, <3>1, <3>2, HasKept
  <2> QED
    BY <1>3, <2>2 DEF Left
<1> QED
  BY <1>2, <1>3

\* The logs are never cut before what has been fsynced.
LEMMA SyncedCut ==
    ASSUME CInv
    PROVE  /\ \A l \in Logs : synced[l] \in 0..Len(entries[l])
           /\ \A e \in FileSet(diskMeta) : \A b, v : Left(synced, e, b, v) => Has(e, b, v)
<1>1. \A l \in Logs : synced[l] \in 0..Len(entries[l])
  BY DEF CInv, BInv, WInv, WTypeOK
<1> QED
  BY <1>1, LeftHas, ListFacts

\* When the table replaces the logs, what was durable in one of them is in a
\* table.
LEMMA CommitDurable ==
    ASSUME CInv, [BNext]_vars, ~AWrite, ~PowerLoss, Commit, NEW b \in Blocks, NEW v \in Versions,
           v # 0, NEW e \in FileSet(diskMeta), e \in Unused, Has(e, b, v)
    PROVE  \E f \in FileSet(diskMeta') : \E w \in Versions : v <= w /\ Left(synced, f, b, w)'
<1>1. /\ pc = "commit" /\ Up
      /\ FileSet(diskMeta') =
            ((FileSet(diskMeta) \ {JobLog}) \cup {TableFile(job.table)}) \ Unused
      /\ JobLog \in Unused
      /\ TopFiles = {Active} /\ LowerFiles = rs
  BY Committed, LogsUnused
<1>2. PICK f, w : f = index[b] /\ w = Content(f, b)
  OBVIOUS
<1>3. e \in rs
  BY DEF Unused
<1>4. v <= w /\ w \in Versions
  BY <1>1, <1>2, <1>3, IndexHas DEF CInv, IndexTop
<1>5. w # 0
  BY <1>4 DEF Versions
<1>6. f \in rs /\ Has(f, b, w)
  BY <1>1, <1>2, <1>5, IndexHas
<1>7. f \in InUse
  BY <1>1, <1>6 DEF InUse
<1>8. f \notin Unused
  BY <1>2, UnusedNotLive
<1>9. f \in FileSet(diskMeta) \cup {TableFile(job.table)}
  BY <1>1, <1>6 DEF CInv, Members
<1>10. f.type # "log"
  <2> SUFFICES ASSUME f.type = "log" PROVE FALSE
    OBVIOUS
  <2>1. f \in DataFiles
    BY <1>7, InUseExists
  <2>2. f = LogFile(f.name) /\ f.name \in Logs
    BY <2>1, FileKinds
  <2>3. f \in FileSet(diskMeta)
    BY <1>9, <2>2, LogFields
  <2>4. f = Active
    BY <1>1, <1>8, <2>2, <2>3, LogsUnused DEF Active
  <2> QED
    BY <1>1, <1>6, <2>4 DEF CInv, Members
<1>11. Has(f, b, w)'
  BY <1>6, <1>7, HasKept
<1>12. Left(synced, f, b, w)'
  BY <1>10, <1>11 DEF Left
<1> QED
  BY <1>1, <1>4, <1>8, <1>9, <1>12

LEMMA DurableKept ==
    ASSUME CInv, [BNext]_vars, NEW b \in Blocks, NEW v \in Versions, Durable(b, v)
    PROVE  Durable(b, v)'
<1> SUFFICES ASSUME v # 0
             PROVE  \E e \in FileSet(diskMeta') : \E w \in Versions :
                       v <= w /\ Left(synced, e, b, w)'
  BY DEF Durable, Versions
<1>1. PICK e \in FileSet(diskMeta), w \in Versions : v <= w /\ Left(synced, e, b, w)
  BY DEF Durable
<1>2. Left(synced, e, b, w)'
  BY <1>1, LeftKept
<1>3. Has(e, b, w) /\ w # 0
  BY <1>1, SyncedCut DEF Versions
<1>4. CASE e \in FileSet(diskMeta')
  BY <1>1, <1>2, <1>4
<1>5. CASE e \notin FileSet(diskMeta')
  <2>1. ASSUME ASave PROVE FALSE
    <3>1. meta = diskMeta
      BY <2>1, SavedMeta, ActionPcs
    <3> QED
      BY <1>5, <2>1, <3>1, SavedLists DEF CInv
  <2>2. ASSUME CloseSave PROVE FALSE
    BY <1>3, <1>5, <2>2, Shut
  <2>3. Commit
    BY <1>5, <2>1, <2>2, Changes DEF DiskChanges
  <2>4. ~ AWrite /\ ~ PowerLoss
    BY <2>3 DEF Commit, Goto, AWrite, BWriteAppend, PowerLoss, ForgetMemory
  <2>5. e \in Unused
    BY <1>5, <2>3, Committed, LogsUnused
  <2>6. PICK f \in FileSet(diskMeta'), x \in Versions : w <= x /\ Left(synced, f, b, x)'
    BY <1>3, <2>3, <2>4, <2>5, CommitDurable
  <2>7. v <= x
    BY <1>1, <2>6 DEF Versions
  <2> QED
    BY <2>6, <2>7
<1> QED
  BY <1>4, <1>5

\* A log with all its records fsynced is as good as a table.
LEMMA SyncedDurable ==
    ASSUME CInv, NEW l \in Logs, LogFile(l) \in FileSet(diskMeta), Synced(l),
           NEW b, NEW v \in Versions, NEW w \in Versions, v <= w, Has(LogFile(l), b, w)
    PROVE  Durable(b, v)
<1>1. entries[l] \in Seq(Blocks \X Nat) /\ DOMAIN entries[l] = 1..Len(entries[l])
  BY DEF CInv, BInv, WInv, WTypeOK
<1>2. PICK i \in DOMAIN entries[l] : entries[l][i] = <<b, w>>
  BY LogFields DEF Has
<1>3. i \in 1..synced[l]
  BY <1>1, <1>2 DEF Synced
<1>4. Left(synced, LogFile(l), b, w)
  BY <1>2, <1>3, LogFields DEF Left
<1> QED
  BY <1>4 DEF Durable

\* Mostly, what is in a log of the tracker stays there, and can be fsynced.
LEMMA DirtyLog ==
    ASSUME CInv, RemovedListed, [BNext]_vars, Serving, Serving',
           NEW l \in Logs, l \in Unreplaced, wstate[l] \in {"open", "frozen"},
           NEW b, NEW w, Has(LogFile(l), b, w)
    PROVE  /\ wstate'[l] \in {"open", "frozen"}
           /\ Has(LogFile(l), b, w)'
           /\ pc # "removing" \/ l \in Pending \cup {activeWriter} => l \in Unreplaced'
<1>1. /\ LogFile(l) \in InUse
      /\ pc \in {"removing", "commit"} \/ l \in Pending \cup {activeWriter}
      /\ cl.pc = "open"
  BY UnreplacedListed
<1>2. ~ ForgetMemory /\ ~ PowerLoss /\ ~ BCloseReturn /\ ~ BCloseStart /\ ~ OpenLoad /\ ~ OpenPush
  BY DEF ForgetMemory, PowerLoss, BCloseReturn, BCloseStart, OpenLoad, OpenPush, Serving, Goto
<1>3. ~ ADeleteLog \/ wstate'[l] = wstate[l]
  <2> SUFFICES ASSUME ADeleteLog PROVE wstate'[l] = wstate[l]
    OBVIOUS
  <2>1. PICK x \in job.unused :
           x.type = "log" /\ x.name \in rem.logs /\ wstate' = [wstate EXCEPT ![x.name] = "closed"]
    BY DEF ADeleteLog, DeleteLog, CloseRemoved
  <2>2. pc = "delete"
    BY ActionPcs
  <2>3. l \in Pending \cup {activeWriter} /\ l # NoLog
    BY <1>1, <2>2, NoLogAssumption
  <2>4. x.name # l
    BY <2>1, <2>3 DEF CInv, BInv, WInv, LogsHeld
  <2> QED
    BY <2>1, <2>4 DEF CInv, BInv, WInv, WTypeOK
<1>4. wstate'[l] \in {"open", "frozen"}
  BY <1>2, <1>3, SyncFrame DEF SyncMoves, CInv, BInv, WInv
<1>5. Has(LogFile(l), b, w)'
  <2>1. CASE AWrite
    BY <2>1, Written, WriteHas
  <2>2. CASE ~ AWrite
    BY <1>1, <1>2, <2>2, HasKept
  <2> QED
    BY <2>1, <2>2
<1>6. ASSUME pc # "removing" \/ l \in Pending \cup {activeWriter} PROVE l \in Unreplaced'
  <2>1. l \in Pending \cup {activeWriter}
    BY <1>6 DEF Unreplaced
  <2>2. CASE RotateSwap
    <3>1. activeWriter \in Logs /\ pendingWriters' = Append(pendingWriters, activeWriter)
      BY <2>2 DEF RotateSwap, PushSwap, CInv, BInv, WInv, WTypeOK
    <3>2. Pending' = Pending \cup {activeWriter}
      BY <3>1, PendingAppend DEF CInv, BInv, WInv, WTypeOK
    <3> QED
      BY <2>1, <3>2 DEF Unreplaced
  <2>3. CASE Install
    <3>1. pc' = "removing" /\ UNCHANGED activeWriter
      BY <2>3 DEF Install, RemoveStart, Goto
    <3>2. rem'.logs = Pending
      <4>1. rem'.logs = {pendingWriters[i] : i \in 1..Len(pendingWriters)}
        BY <2>3 DEF Install, RemoveStart
      <4>2. DOMAIN pendingWriters = 1..Len(pendingWriters)
        BY DEF CInv, BInv, WInv, WTypeOK
      <4> QED
        BY <4>1, <4>2 DEF Pending
    <3> QED
      BY <2>1, <3>1, <3>2 DEF Unreplaced
  <2>4. CASE UNCHANGED <<activeWriter, pendingWriters>>
    BY <2>1, <2>4 DEF Unreplaced, Pending
  <2> QED
    BY <1>2, <2>2, <2>3, <2>4, TrackerFrame DEF TrackerMoves, CInv, BInv, WInv
<1> QED
  BY <1>4, <1>5, <1>6

-----------------------------------------------------------------------------
(* Every step keeps the invariant: what is fsynced *)

LEMMA RemovedListedStep ==
    ASSUME CInv, RemovedListed, [BNext]_vars
    PROVE  RemovedListed'
<1>1. CallMoves
  BY CallFrame DEF RemovedListed, CInv, BInv, WInv
<1>2. CASE Install
  <2>1. pc = "install" /\ pc' = "removing" /\ UNCHANGED diskMeta /\ Up
    BY <1>2 DEF Install, Goto, Up, Closing
  <2>2. rem'.pc = "wait" /\ rem'.logs = {pendingWriters[i] : i \in 1..Len(pendingWriters)}
    BY <1>2 DEF Install, RemoveStart
  <2>3. DOMAIN pendingWriters = 1..Len(pendingWriters)
    BY DEF CInv, BInv, WInv, WTypeOK
  <2>4. rem'.logs = Pending
    BY <2>2, <2>3 DEF Pending
  <2> QED
    BY <2>1, <2>2, <2>4 DEF RemovedListed, CInv, LogMembers
<1>3. CASE Removing
  <2>1. /\ pc = "removing" /\ pc' = "commit" /\ UNCHANGED diskMeta
        /\ rem' = [rem EXCEPT !.pc = "done"]
    BY <1>3 DEF Removing, RemoveReturn, Goto
  <2>2. rem'.pc = "done" /\ rem'.logs = rem.logs
    BY <2>1 DEF CInv, BInv, WInv, WTypeOK
  <2> QED
    BY <2>1, <2>2 DEF RemovedListed
<1>4. CASE ADeleteLog
  <2>1. pc = "delete" /\ pc' = "delete"
    BY <1>4, ActionPcs
  <2>2. /\ rem.pc = "done"
        /\ \E l : rem' = IF rem.logs = {l} THEN IdleRem ELSE [rem EXCEPT !.logs = @ \ {l}]
    BY <1>4 DEF ADeleteLog, DeleteLog, CloseRemoved
  <2>3. rem'.pc # "wait"
    BY <2>2 DEF IdleRem, CInv, BInv, WInv, WTypeOK
  <2> QED
    BY <2>1, <2>3 DEF RemovedListed
<1>5. CASE ForgetMemory
  BY <1>5 DEF ForgetMemory, IdleRem, RemovedListed
<1>6. CASE /\ rem'.pc = rem.pc /\ rem'.logs = rem.logs /\ (rem'.pc = "wait" => pc' = pc)
           /\ ~ Install /\ ~ Removing /\ ~ ForgetMemory
  <2>1. /\ rem'.pc = "wait" <=> pc' = "removing"
        /\ pc' \in {"removing", "commit"} => pc \in {"removing", "commit"}
    BY <1>1, <1>6 DEF CallMoves, RemovedListed
  <2>2. ASSUME pc' \in {"removing", "commit"} PROVE UNCHANGED diskMeta
    BY <2>2, Changes, ActionPcs DEF DiskChanges
  <2> QED
    BY <1>6, <2>1, <2>2 DEF RemovedListed
<1> QED
  BY <1>1, <1>2, <1>3, <1>4, <1>5, <1>6 DEF CallMoves

\* How a log gets among the swapped ones.
LEMMA SwappedMoves ==
    ASSUME CInv, RemovedListed, [BNext]_vars, cl'.pc = "open", NEW l \in (Pending \cup rem.logs)'
    PROVE  \/ l \in Pending \cup rem.logs
           \/ OpenLoad
           \/ RotateSwap /\ l = activeWriter
<1>1. ~ ForgetMemory \/ (Pending \cup rem.logs)' = {}
  BY DEF ForgetMemory, Pending, IdleRem
<1>2. ~ BCloseStart
  BY DEF BCloseStart, CloseStart
<1>3. ASSUME RotateSwap PROVE l \in Pending \cup {activeWriter} \cup rem.logs
  <2>1. /\ activeWriter \in Logs
        /\ pendingWriters' = Append(pendingWriters, activeWriter) /\ UNCHANGED rem
    BY <1>3 DEF RotateSwap, PushSwap, CInv, BInv, WInv, WTypeOK
  <2>2. Pending' = Pending \cup {activeWriter}
    BY <2>1, PendingAppend DEF CInv, BInv, WInv, WTypeOK
  <2> QED
    BY <2>1, <2>2
<1>4. ASSUME Install PROVE l \in Pending
  <2> DEFINE n == Len(pendingWriters)
  <2>1. /\ rem'.logs = {pendingWriters[i] : i \in 1..n}
        /\ pendingWriters' = SubSeq(pendingWriters, n + 1, n)
        /\ n \in 1..Len(pendingWriters)
    BY <1>4 DEF Install, RemoveStart
  <2>2. pendingWriters \in Seq(Logs) /\ PendingDistinct
    BY DEF CInv, BInv, WInv, WTypeOK, LogsHeld
  <2>3. Pending = Pending' \cup {pendingWriters[i] : i \in 1..n}
    BY <2>1, <2>2, PendingSplit
  <2> QED
    BY <2>1, <2>3
<1>5. rem'.logs \subseteq rem.logs \/ Install \/ ForgetMemory
  <2>1. CASE Removing
    BY <2>1 DEF Removing, RemoveReturn, CInv, BInv, WInv, WTypeOK
  <2>2. CASE ADeleteLog
    <3>1. \E x : rem' = IF rem.logs = {x} THEN IdleRem ELSE [rem EXCEPT !.logs = @ \ {x}]
      BY <2>2 DEF ADeleteLog, DeleteLog, CloseRemoved
    <3> QED
      BY <3>1 DEF IdleRem, CInv, BInv, WInv, WTypeOK
  <2> QED
    BY <2>1, <2>2, CallFrame DEF CallMoves, RemovedListed, CInv, BInv, WInv
<1>6. UNCHANGED pendingWriters => Pending' = Pending
  BY DEF Pending
<1> QED
  BY <1>1, <1>2, <1>3, <1>4, <1>5, <1>6, TrackerFrame DEF TrackerMoves, CInv, BInv, WInv

\* A log whose closer has gone is written by nobody.
LEMMA SwappedStill ==
    ASSUME CInv, [BNext]_vars, ~PowerLoss, NEW l \in Pending \cup rem.logs, closer[l] = "none",
           cl.pc = "open"
    PROVE  /\ l \in Logs
           /\ wstate[l] \in {"open", "frozen", "reader"}
           /\ ADeleteLog \/ (/\ entries'[l] = entries[l]
                             /\ synced'[l] \in {synced[l], Len(entries[l])})
           /\ ADeleteLog \/ OpenLoad \/ ForgetMemory \/ BCloseReturn \/ wstate'[l] = wstate[l]
<1>1. l \in Logs /\ wstate[l] \in {"open", "frozen", "reader"} /\ l # activeWriter
  BY NoLogAssumption DEF CInv, BInv, WInv, WTypeOK, LogsHeld, Pending
<1>2. entries \in [Logs -> Seq(Blocks \X Nat)] /\ synced \in [Logs -> Nat]
  BY DEF CInv, BInv, WInv, WTypeOK
<1>3. ASSUME AWrite PROVE entries'[l] = entries[l]
  <2>1. PICK b \in Blocks, k \in Logs : WriteOf(b, k)
    BY <1>3, Written
  <2>2. k = activeWriter \/ (pc = "rotateWait" /\ k = job.log)
    BY <2>1, WriteFacts
  <2>3. k # l
    BY <1>1, <2>2 DEF CInv, Calls, BInv, WInv, ClosersHeld
  <2> QED
    BY <1>2, <2>1, <2>3 DEF WriteOf
<1>4. ASSUME AMakeLog PROVE entries'[l] = entries[l] /\ synced'[l] = synced[l]
  <2>1. /\ wstate[NewName] \in {"none", "closed"}
        /\ entries' = [entries EXCEPT ![NewName] = <<>>]
        /\ synced' = [synced EXCEPT ![NewName] = 0]
    BY <1>4 DEF AMakeLog, OpenMakeLog, RotateMakeLog, MakeLogWriter
  <2>2. NewName # l
    BY <1>1, <2>1
  <2> QED
    BY <1>1, <1>2, <2>1, <2>2
<1>5. ADeleteLog \/ entries'[l] = entries[l]
  BY <1>3, <1>4, Changes DEF DiskChanges
<1>6. ADeleteLog \/ synced'[l] \in {synced[l], Len(entries[l])}
  BY <1>1, <1>4, SyncFrame DEF SyncMoves, CInv, BInv, WInv
<1>7. ADeleteLog \/ OpenLoad \/ ForgetMemory \/ BCloseReturn \/ wstate'[l] = wstate[l]
  BY <1>1, SyncFrame DEF SyncMoves, CInv, BInv, WInv
<1> QED
  BY <1>1, <1>5, <1>6, <1>7

LEMMA ClosedSyncedStep ==
    ASSUME CInv, RemovedListed, ClosedSynced, [BNext]_vars
    PROVE  ClosedSynced'
<1> SUFFICES ASSUME cl'.pc = "open", NEW l \in (Pending \cup rem.logs)', closer'[l] = "none",
                    wstate'[l] \in {"open", "frozen"}
             PROVE  synced'[l] = Len(entries'[l])
  BY DEF ClosedSynced, Synced
<1>1. ~ ForgetMemory /\ ~ PowerLoss
  <2>1. ASSUME ForgetMemory PROVE (Pending \cup rem.logs)' = {}
    BY <2>1 DEF ForgetMemory, Pending, IdleRem
  <2> QED
    BY <2>1 DEF PowerLoss
<1>2. ~ BCloseReturn
  BY DEF BCloseReturn, CloseReturn, CInv, BInv, WInv, WTypeOK
<1>3. SyncMoves /\ cl.pc = "open"
  BY <1>1, SyncFrame DEF SyncMoves, CInv, BInv, WInv
<1>4. ASSUME OpenLoad PROVE FALSE
  <2>1. wstate' = [k \in Logs |-> IF k \in LogsOf(diskMeta) THEN "reader" ELSE "none"]
    BY <1>4 DEF OpenLoad
  <2>2. l \in Logs
    <3>1. (WTypeOK)'
      BY BStepInv DEF CInv, BInv, WInv
    <3> QED
      BY <3>1 DEF WTypeOK, Pending
  <2> QED
    BY <2>1, <2>2
<1>5. ASSUME RotateSwap, l = activeWriter PROVE FALSE
  BY <1>5 DEF RotateSwap, PushSwap, CInv, BInv, WInv, WTypeOK
<1>6. l \in Pending \cup rem.logs
  BY <1>4, <1>5, SwappedMoves
<1>7. l \in Logs
  BY <1>6 DEF CInv, BInv, WInv, WTypeOK, Pending
<1>9. CASE closer[l] = "none"
  <2>1. ~ ADeleteLog \/ (/\ wstate'[l] = wstate[l] /\ entries'[l] = entries[l]
                         /\ synced'[l] = synced[l])
    <3> SUFFICES ASSUME ADeleteLog
                 PROVE  /\ wstate'[l] = wstate[l] /\ entries'[l] = entries[l]
                        /\ synced'[l] = synced[l]
      OBVIOUS
    <3>1. PICK x \in job.unused :
             /\ wstate' = [wstate EXCEPT ![x.name] = "closed"]
             /\ entries' = [entries EXCEPT ![x.name] = <<>>]
             /\ synced' = [synced EXCEPT ![x.name] = 0]
      BY DEF ADeleteLog, DeleteLog, CloseRemoved
    <3>2. x.name # l
      BY <1>7, <3>1 DEF CInv, BInv, WInv, WTypeOK
    <3> QED
      BY <1>7, <3>1, <3>2 DEF CInv, BInv, WInv, WTypeOK
  <2>2. wstate'[l] = wstate[l]
    BY <1>1, <1>2, <1>3, <1>4, <1>6, <1>9, <2>1, SwappedStill
  <2>3. synced[l] = Len(entries[l])
    BY <1>3, <1>6, <1>9, <2>2 DEF ClosedSynced, Synced
  <2> QED
    BY <1>1, <1>3, <1>6, <1>9, <2>1, <2>3, SwappedStill
<1>10. CASE closer[l] # "none"
  <2>1. /\ wstate[l] \in {"open", "frozen"} => synced'[l] = Len(entries[l])
        /\ UNCHANGED <<entries, wstate>>
    BY <1>1, <1>3, <1>7, <1>10 DEF SyncMoves
  <2> QED
    BY <2>1
<1> QED
  BY <1>9, <1>10

\* What is safe stays so while the device is open, although the table is not
\* yet in the metadata when the logs leave the tracker.
LEMMA SafeKept ==
    ASSUME CInv, RemovedListed, ClosedSynced, [BNext]_vars, Serving, Serving',
           NEW b \in Blocks, NEW v \in Versions, Safe(Unreplaced, b, v)
    PROVE  Safe(Unreplaced, b, v)'
<1>1. CASE Durable(b, v)
  BY <1>1, DurableKept DEF Safe
<1>2. CASE Dirty(Unreplaced, b, v)
  <2>1. PICK l \in Logs, w \in Versions :
           /\ l \in Unreplaced /\ wstate[l] \in {"open", "frozen"}
           /\ v <= w /\ Has(LogFile(l), b, w)
    BY <1>2 DEF Dirty
  <2>2. /\ wstate'[l] \in {"open", "frozen"}
        /\ Has(LogFile(l), b, w)'
        /\ pc # "removing" \/ l \in Pending \cup {activeWriter} => l \in Unreplaced'
    BY <2>1, DirtyLog
  <2>3. CASE l \in Unreplaced'
    BY <2>1, <2>2, <2>3 DEF Safe, Dirty
  <2>4. CASE l \notin Unreplaced'
    <3>1. pc = "removing" /\ l \notin Pending \cup {activeWriter} /\ l \in rem.logs
      BY <2>1, <2>2, <2>4 DEF Unreplaced
    <3>2. ~ ForgetMemory
      BY DEF ForgetMemory, Serving
    <3>3. CallMoves
      BY CallFrame DEF RemovedListed, CInv, BInv, WInv
    <3>4. Removing
      <4> SUFFICES ASSUME ~ Removing PROVE FALSE
        OBVIOUS
      <4>1. pc' = "removing"
        BY <3>1, <3>2, <3>3 DEF CallMoves
      <4>2. rem'.logs = rem.logs
        BY <3>1, <3>2, <3>3, ActionPcs DEF CallMoves
      <4> QED
        BY <2>4, <3>1, <4>1, <4>2 DEF Unreplaced
    <3>5. rem.pc = "wait" /\ rem.waitC = {}
      BY <3>4 DEF Removing, RemoveReturn
    <3>6. closer[l] = "none"
      <4>1. push.pc # "wait"
        BY <3>5 DEF CInv, BInv, WInv, Phases
      <4> QED
        BY <3>1, <3>5, <4>1 DEF CInv, BInv, WInv, ClosersHeld, WTypeOK
    <3>7. LogFile(l) \in FileSet(diskMeta) /\ cl.pc = "open"
      BY <2>1, UnreplacedListed
    <3>8. Synced(l)
      BY <2>1, <3>1, <3>6, <3>7 DEF ClosedSynced
    <3>9. Durable(b, v)
      BY <2>1, <3>7, <3>8, SyncedDurable
    <3> QED
      BY <3>9, DurableKept DEF Safe
  <2> QED
    BY <2>3, <2>4
<1> QED
  BY <1>1, <1>2 DEF Safe

LEMMA DurableZero == \A b : Durable(b, 0)
  BY DEF Durable

LEMMA HistoryTypes ==
    ASSUME CInv
    PROVE  /\ \A b \in Blocks : /\ acked[b] \in Versions /\ flushed[b] \in Versions
                                /\ ver[b] \in Versions
           /\ \A f \in Flushers : \A b \in Blocks : need[f][b] \in Versions
           /\ acked \in [Blocks -> Versions] /\ flushed \in [Blocks -> Versions]
           /\ need \in [Flushers -> [Blocks -> Versions]]
  BY DEF CInv, BInv, ContentsType, WInv, WTypeOK, Versions

LEMMA AckedSafeStep ==
    ASSUME CInv, RemovedListed, ClosedSynced, AckedSafe, [BNext]_vars
    PROVE  AckedSafe'
<1>1. ASSUME pc' \in {"down"} \cup Opening PROVE acked' = Hole
  <2>1. CASE ForgetMemory
    BY <2>1 DEF ForgetMemory
  <2>2. CASE ~ ForgetMemory
    <3>1. pc \in {"down"} \cup Opening /\ acked = Hole
      BY <1>1, <2>2, PhaseFrame DEF PhaseMoves, AckedSafe, CInv, BInv
    <3>2. ASSUME NEW b \in Blocks, BWriteReturn(b) PROVE FALSE
      <4>1. wr[b].pc = "check"
        BY <3>2 DEF BWriteReturn, WriteReturn
      <4>2. ~ Serving
        BY <3>1 DEF Serving, Opening
      <4> QED
        BY <4>1, <4>2 DEF CInv, Calls
    <3> QED
      BY <2>2, <3>1, <3>2, Changes DEF HistoryChanges
  <2> QED
    BY <2>1, <2>2
<1>2. ASSUME Serving', NEW b \in Blocks
      PROVE  /\ Safe(Unreplaced, b, acked[b])'
             /\ wr'[b].pc \in {"count", "check"} => Safe(Unreplaced, b, ver[b])'
  <2>1. CASE OpenPush
    <3>1. /\ acked' = acked /\ wr' = wr /\ pc = "openPush"
      BY <2>1 DEF OpenPush, PushFirstLog
    <3>2. acked'[b] = 0 /\ wr'[b].pc = "idle"
      BY <3>1 DEF AckedSafe, Opening, Hole, CInv, Calls, Serving
    <3> QED
      BY <3>2 DEF Safe, Durable
  <2>2. CASE ~ OpenPush
    <3>1. Serving /\ ~ ForgetMemory
      BY <1>2, <2>2, PhaseFrame, ActionPcs DEF PhaseMoves, CInv, BInv, Serving
    <3>2. PICK a, x : a = acked[b] /\ x = ver[b]
      OBVIOUS
    <3>3. /\ Safe(Unreplaced, b, a)
          /\ wr[b].pc \in {"count", "check"} => Safe(Unreplaced, b, x)
      BY <3>1, <3>2 DEF AckedSafe
    <3>4. a \in Versions /\ x \in Versions
      BY <3>2, HistoryTypes
    <3>5. Safe(Unreplaced, b, a)'
      BY <1>2, <3>1, <3>3, <3>4, SafeKept
    <3>6. wr[b].pc \in {"count", "check"} => Safe(Unreplaced, b, x)'
      BY <1>2, <3>1, <3>3, <3>4, SafeKept
    <3>7. Safe(Unreplaced, b, acked[b])'
      <4>1. CASE acked'[b] = a
        BY <3>5, <4>1 DEF Safe, Durable, Dirty
      <4>2. CASE acked'[b] # a
        <5>1. PICK c \in Blocks : BWriteReturn(c)
          BY <3>1, <3>2, <4>2, Changes DEF HistoryChanges
        <5>2. acked' = [acked EXCEPT ![c] = ver[c]] /\ wr[c].pc = "check"
          BY <5>1 DEF BWriteReturn, WriteReturn
        <5>3. c = b
          BY <3>2, <4>2, <5>2, HistoryTypes
        <5>4. acked'[b] = x
          BY <3>2, <5>2, <5>3, HistoryTypes
        <5>5. Safe(Unreplaced, b, x)'
          BY <3>6, <5>2, <5>3
        <5> QED
          BY <5>4, <5>5 DEF Safe, Durable, Dirty
      <4> QED
        BY <4>1, <4>2
    <3>8. ASSUME wr'[b].pc \in {"count", "check"} PROVE Safe(Unreplaced, b, ver[b])'
      <4>1. CASE wr[b].pc \in {"count", "check"} /\ ver'[b] = ver[b]
        BY <3>2, <3>6, <4>1 DEF Safe, Durable, Dirty
      <4>2. CASE BWriteAppend(b)
        <5>1. PICK c \in Blocks, k \in Logs : WriteOf(c, k)
          BY <4>2, Written DEF AWrite
        <5>2. /\ wr[b].pc = "write" /\ wr'[b].pc = "count"
              /\ wstate[wr[b].log] = "open" /\ UNCHANGED wstate
          BY <4>2 DEF BWriteAppend, WriteAppend, CInv, BInv, WInv, WTypeOK
        <5>3. c = b
          BY <5>1, <5>2 DEF WriteOf, CInv, BInv, WInv, WTypeOK
        <5>4. k = wr[b].log /\ UNCHANGED <<activeWriter, pendingWriters>>
          BY <5>1, <5>3 DEF WriteOf
        <5>5. PICK n : n = ver[b] + 1
          OBVIOUS
        <5>6. n \in Versions /\ ver'[b] = n /\ Has(LogFile(k), b, n)'
          BY <5>1, <5>3, <5>5, WriteFacts, WriteHas, LogFields
        <5>7. k \in Pending \cup {activeWriter}
          BY <5>1, WriteFacts DEF CInv, Calls, BInv, WInv, Phases
        <5>8. k \in Unreplaced' /\ wstate'[k] = "open"
          BY <5>2, <5>4, <5>7 DEF Unreplaced, Pending
        <5>9. n <= n
          BY <5>6 DEF Versions
        <5> QED
          BY <5>6, <5>8, <5>9 DEF Safe, Dirty
      <4> QED
        BY <3>8, <4>1, <4>2, CallFrame DEF CallMoves, RemovedListed, CInv, BInv, WInv
    <3> QED
      BY <3>7, <3>8
  <2> QED
    BY <2>1, <2>2
<1> QED
  BY <1>1, <1>2 DEF AckedSafe

\* A flush that has synced a log needs it no longer.
LEMMA NeedSafeStep ==
    ASSUME ~ CountWindowFlushes, CInv, RemovedListed, AckedSafe, NeedSafe, [BNext]_vars
    PROVE  NeedSafe'
<1> SUFFICES ASSUME NEW f \in Flushers, fl'[f].pc = "flush"
             PROVE  /\ Serving'
                    /\ \A b \in Blocks : Safe(fl[f].todo, b, need[f][b])'
  BY DEF NeedSafe
<1>1. /\ fl \in [Flushers -> [pc : {"idle", "flush"}, active : BOOLEAN, todo : SUBSET Logs]]
      /\ need \in [Flushers -> [Blocks -> Versions]]
  BY HistoryTypes DEF CInv, BInv, WInv, WTypeOK
<1>2. CallMoves
  BY CallFrame DEF RemovedListed, CInv, BInv, WInv
<1>3. CASE BFlushStart(f)
  <2>1. /\ Serving /\ UNCHANGED <<pc, pendingWriters, activeWriter, wstate, entries, synced>>
        /\ UNCHANGED <<tables, diskMeta, acked>>
        /\ fl'[f].todo = Pending \cup ({activeWriter} \ {NoLog})
        /\ need'[f] = IF InWindow THEN Hole ELSE acked
    BY <1>1, <1>3 DEF BFlushStart, FlushStart, Admitted
  <2>2. Serving'
    BY <2>1 DEF Serving
  <2>3. ASSUME NEW b \in Blocks PROVE Safe(fl[f].todo, b, need[f][b])'
    <3>1. CASE InWindow
      <4>1. need'[f][b] = 0
        BY <2>1, <3>1 DEF Hole
      <4> QED
        BY <4>1 DEF Safe, Durable
    <3>2. CASE ~ InWindow
      <4>1. PICK a : a = acked[b]
        OBVIOUS
      <4>2. need'[f][b] = a /\ a \in Versions
        BY <2>1, <3>2, <4>1, HistoryTypes
      <4>3. Safe(Unreplaced, b, a)
        BY <2>1, <4>1 DEF AckedSafe
      <4>4. ASSUME Durable(b, a) PROVE Durable(b, a)'
        BY <4>2, <4>4, DurableKept
      <4>5. ASSUME Dirty(Unreplaced, b, a) PROVE Dirty(fl[f].todo, b, a)'
        <5>1. PICK l \in Logs, w \in Versions :
                 /\ l \in Unreplaced /\ wstate[l] \in {"open", "frozen"}
                 /\ a <= w /\ Has(LogFile(l), b, w)
          BY <4>5 DEF Dirty
        <5>2. l \in fl'[f].todo
          BY <2>1, <3>2, <5>1, NoLogAssumption DEF Unreplaced, InWindow
        <5>3. Has(LogFile(l), b, w)' /\ wstate'[l] \in {"open", "frozen"}
          BY <2>1, <5>1 DEF Has
        <5> QED
          BY <5>1, <5>2, <5>3 DEF Dirty
      <4> QED
        BY <4>2, <4>3, <4>4, <4>5 DEF Safe, Durable, Dirty
    <3> QED
      BY <3>1, <3>2
  <2> QED
    BY <2>2, <2>3
<1>4. CASE ~ BFlushStart(f)
  <2>1. /\ fl[f].pc = "flush" /\ need'[f] = need[f]
        /\ fl'[f] = fl[f] \/ \E l \in Logs : BFlushLog(f, l) /\ fl'[f].todo = fl[f].todo \ {l}
    <3>1. ASSUME NEW l \in Logs, BFlushLog(f, l)
          PROVE  fl[f].pc = "flush" /\ need' = need /\ fl'[f].todo = fl[f].todo \ {l}
      BY <1>1, <3>1 DEF BFlushLog, FlushLog, bfvars
    <3> QED
      BY <1>2, <1>4, <3>1 DEF CallMoves
  <2>2. Serving
    BY <2>1 DEF NeedSafe
  <2>3. Serving'
    <3>1. ~ BCloseStart
      BY <2>1 DEF BCloseStart
    <3>2. ~ ForgetMemory
      BY DEF ForgetMemory, IdleFlush
    <3> QED
      BY <2>2, <3>1, <3>2, PhaseFrame DEF PhaseMoves, CInv, BInv
  <2>4. ASSUME NEW b \in Blocks PROVE Safe(fl[f].todo, b, need[f][b])'
    <3>1. PICK v : v = need[f][b]
      OBVIOUS
    <3>2. v \in Versions /\ need'[f][b] = v
      BY <2>1, <3>1, HistoryTypes
    <3>3. Safe(fl[f].todo, b, v)
      BY <2>1, <3>1 DEF NeedSafe
    <3>4. CASE Durable(b, v)
      <4>1. Durable(b, v)'
        BY <3>2, <3>4, DurableKept
      <4> QED
        BY <3>2, <4>1 DEF Safe, Durable
    <3>5. CASE Dirty(fl[f].todo, b, v)
      <4>1. PICK l \in Logs, w \in Versions :
               /\ l \in fl[f].todo /\ wstate[l] \in {"open", "frozen"}
               /\ v <= w /\ Has(LogFile(l), b, w)
        BY <3>5 DEF Dirty
      <4>2. l \in Unreplaced
        BY <4>1, TodoUnreplaced
      <4>3. wstate'[l] \in {"open", "frozen"} /\ Has(LogFile(l), b, w)'
        BY <2>2, <2>3, <4>1, <4>2, DirtyLog
      <4>4. CASE l \in fl'[f].todo
        BY <3>2, <4>1, <4>3, <4>4 DEF Safe, Dirty
      <4>5. CASE l \notin fl'[f].todo
        <5>1. BFlushLog(f, l)
          BY <2>1, <4>1, <4>5
        <5>2. UNCHANGED <<entries, diskMeta>> /\ synced'[l] = Len(entries[l])
          BY <4>1, <5>1 DEF BFlushLog, FlushLog, Fsync, bfvars, CInv, BInv, WInv, WTypeOK
        <5>3. entries[l] \in Seq(Blocks \X Nat) /\ DOMAIN entries[l] = 1..Len(entries[l])
          BY DEF CInv, BInv, WInv, WTypeOK
        <5>4. PICK i \in DOMAIN entries[l] : entries[l][i] = <<b, w>>
          BY <4>1, LogFields DEF Has
        <5>5. \E j \in 1..synced'[l] : entries'[l][j] = <<b, w>>
          BY <5>2, <5>3, <5>4
        <5>6. Left(synced, LogFile(l), b, w)'
          BY <5>5, LogFields DEF Left
        <5>7. LogFile(l) \in FileSet(diskMeta')
          BY <2>2, <4>2, <5>2, UnreplacedListed
        <5>8. Durable(b, v)'
          BY <4>1, <5>6, <5>7 DEF Durable
        <5> QED
          BY <3>2, <5>8 DEF Safe, Durable
      <4> QED
        BY <4>4, <4>5
    <3> QED
      BY <3>3, <3>4, <3>5 DEF Safe
  <2> QED
    BY <2>3, <2>4
<1> QED
  BY <1>3, <1>4

\* A flush returns when all it needs is durable.
LEMMA FlushedSafeStep ==
    ASSUME CInv, NeedSafe, FlushedSafe, [BNext]_vars
    PROVE  FlushedSafe'
<1> SUFFICES ASSUME NEW b \in Blocks PROVE Durable(b, flushed[b])'
  BY DEF FlushedSafe
<1>1. PICK v : v = flushed[b]
  OBVIOUS
<1>2. v \in Versions /\ Durable(b, v)
  BY <1>1, HistoryTypes DEF FlushedSafe
<1>3. Durable(b, v)'
  BY <1>2, DurableKept
<1>4. CASE UNCHANGED flushed
  BY <1>1, <1>3, <1>4 DEF Durable
<1>5. CASE \E f \in Flushers : BFlushReturn(f)
  <2>1. PICK f \in Flushers : BFlushReturn(f)
    BY <1>5
  <2>2. PICK w : w = need[f][b]
    OBVIOUS
  <2>3. fl[f].pc = "flush" /\ fl[f].todo = {} /\ flushed'[b] = Max({v, w})
    BY <1>1, <2>1, <2>2 DEF BFlushReturn, FlushReturn
  <2>4. w \in Versions /\ Safe({}, b, w)
    BY <2>2, <2>3, HistoryTypes DEF NeedSafe
  <2>5. Durable(b, w)
    BY <2>4 DEF Safe, Dirty
  <2>6. Durable(b, w)'
    BY <2>4, <2>5, DurableKept
  <2>7. flushed'[b] \in {v, w}
    <3>1. v \in Nat /\ w \in Nat
      BY <1>2, <2>4 DEF Versions
    <3> QED
      BY <2>3, <3>1, MaxOfBounded DEF Max
  <2> QED
    BY <1>3, <2>6, <2>7 DEF Durable
<1> QED
  BY <1>4, <1>5, Changes DEF HistoryChanges

LEMMA FaultsStep ==
    ASSUME FaultsType, [BNext]_vars
    PROVE  /\ FaultsType'
           /\ faults'.power = faults.power \/ (PowerLoss /\ faults'.power = faults.power + 1)
           /\ faults'.kill >= faults.kill /\ faults'.power >= faults.power
<1>1. CASE BCloseStart
  BY <1>1 DEF BCloseStart, FaultsType
<1>2. CASE Kill
  BY <1>2 DEF Kill, FaultsType
<1>3. CASE PowerLoss
  <2>1. faults' = [faults EXCEPT !.power = @ + 1]
    BY <1>3 DEF PowerLoss
  <2> QED
    BY <1>3, <2>1 DEF FaultsType
<1> QED
  BY <1>1, <1>2, <1>3, FaultFrame DEF FaultMoves, FaultsType

LEMMA DInitInv == BInit => DInv
<1> SUFFICES ASSUME BInit PROVE DInv
  OBVIOUS
<1>1. /\ pc = "down" /\ rem = IdleRem /\ pendingWriters = <<>>
      /\ fl = [f \in Flushers |-> IdleFlush]
      /\ acked = Hole /\ flushed = Hole
      /\ faults = [kill |-> 0, power |-> 0, close |-> 0]
  BY DEF BInit, WInit
<1>2. RemovedListed
  BY <1>1 DEF RemovedListed, IdleRem
<1>3. ClosedSynced
  BY <1>1 DEF ClosedSynced, Pending, IdleRem
<1>4. AckedSafe
  BY <1>1 DEF AckedSafe, Serving
<1>5. NeedSafe
  BY <1>1 DEF NeedSafe, IdleFlush
<1>6. FlushedSafe
  BY <1>1 DEF FlushedSafe, Durable, Hole
<1>7. FaultsType
  BY <1>1 DEF FaultsType
<1> QED
  BY <1>2, <1>3, <1>4, <1>5, <1>6, <1>7, CInitInv DEF DInv

LEMMA DStepInv == ~ CountWindowFlushes /\ DInv /\ [BNext]_vars => DInv'
  BY CStepInv, RemovedListedStep, ClosedSyncedStep, AckedSafeStep, NeedSafeStep, FlushedSafeStep,
     FaultsStep
  DEF DInv

LEMMA DInvariant == ~ CountWindowFlushes => (BSafeSpec => []DInv)
<1> SUFFICES ASSUME ~ CountWindowFlushes PROVE BSafeSpec => []DInv
  OBVIOUS
<1>1. DInv /\ [BNext]_vars => DInv'
  BY DStepInv
<1> QED
  BY <1>1, DInitInv, PTL DEF BSafeSpec

\* Whatever is rotated, compacted or deleted while it runs, a Flush that returns
\* has made durable every write acknowledged before it began: a power failure at
\* any later point, in this session or another, leaves that version of each
\* block or a newer one.  A Flush that begins between RemovePending and the save
\* of the metadata that names the table is not held to this: it finds neither
\* the logs nor the table, and the run block_file_window shows what it may miss.
THEOREM FlushesKept == ~ CountWindowFlushes => (BSafeSpec => []FlushDurable)
<1> SUFFICES ASSUME ~ CountWindowFlushes PROVE BSafeSpec => []FlushDurable
  OBVIOUS
<1>1. DInv => FlushDurable
  <2> SUFFICES ASSUME DInv, NEW b \in Blocks PROVE DurableView(b) >= flushed[b]
    BY DEF FlushDurable
  <2>1. CInv /\ FlushedSafe
    BY DEF DInv
  <2>2. PICK r, len, v : /\ len = synced /\ r = Recovered(diskMeta, entries, len, b)
                         /\ v = flushed[b]
    OBVIOUS
  <2>3. \A l \in Logs : len[l] \in 0..Len(entries[l])
    BY <2>1, <2>2, SyncedCut
  <2>4. /\ r \in Versions
        /\ \A e \in FileSet(diskMeta) : \A w \in Versions : Left(len, e, b, w) => w <= r
    BY <2>1, <2>2, <2>3, RecoveredIs DEF CInv, ListOrder
  <2>5. v \in Versions
    BY <2>1, <2>2, HistoryTypes
  <2>6. v # 0 => \E w \in Versions : v <= w /\ w <= r
    BY <2>1, <2>2, <2>4 DEF FlushedSafe, Durable
  <2>7. v <= r
    BY <2>4, <2>5, <2>6 DEF Versions
  <2> QED
    BY <2>2, <2>4, <2>5, <2>7 DEF DurableView, Versions
<1> QED
  BY <1>1, DInvariant, PTL

-----------------------------------------------------------------------------
(* The device implements what a block device promises *)

LEMMA ViewIsCur == CInv => DeviceView = cur
<1> SUFFICES ASSUME CInv PROVE DeviceView = cur
  OBVIOUS
<1>1. MetaFilesExist
  BY DEF CInv, BInv, FilesExist, Listed, Exists, MetaFilesExist, LogsOf, TablesOf
<1>2. cur \in [Blocks -> Versions]
  BY DEF CInv, BInv, ContentsType
<1>3. \A b \in Blocks : (IF Serving THEN MemView(b) ELSE DiskView(b)) = cur[b]
  BY <1>1, DiskHolds, StackHolds DEF NothingLost, ReadsLatest
<1> QED
  BY <1>2, <1>3 DEF DeviceView

LEMMA FlushedWritten == DInv => \A b \in Blocks : flushed[b] <= cur[b]
<1> SUFFICES ASSUME DInv, NEW b \in Blocks PROVE flushed[b] <= cur[b]
  OBVIOUS
<1>1. CInv /\ FlushedSafe
  BY DEF DInv
<1>2. PICK v, c : v = flushed[b] /\ c = cur[b]
  OBVIOUS
<1>3. v \in Versions /\ c \in Versions
  BY <1>1, <1>2, HistoryTypes DEF CInv, BInv, ContentsType
<1>4. v # 0 => \E w \in Versions : v <= w /\ w <= c
  <2> SUFFICES ASSUME v # 0 PROVE \E w \in Versions : v <= w /\ w <= c
    OBVIOUS
  <2>1. PICK e \in FileSet(diskMeta), w \in Versions : v <= w /\ Left(synced, e, b, w)
    BY <1>1, <1>2 DEF FlushedSafe, Durable
  <2>2. Has(e, b, w)
    BY <1>1, <2>1, SyncedCut
  <2> QED
    BY <1>1, <1>2, <2>1, <2>2 DEF CInv, ListHolds, Holds, InUse
<1> QED
  BY <1>2, <1>3, <1>4 DEF Versions

\* A power failure takes a block back, never forward.
LEMMA CutBack ==
    ASSUME CInv, CInv', PowerLoss, NEW b \in Blocks
    PROVE  cur'[b] <= cur[b]
<1>1. PICK c, d : c = cur'[b] /\ d = cur[b]
  OBVIOUS
<1>2. c \in Versions /\ d \in Versions
  BY <1>1 DEF CInv, BInv, ContentsType
<1>3. c # 0 => c <= d
  <2> SUFFICES ASSUME c # 0 PROVE c <= d
    OBVIOUS
  <2>1. UNCHANGED diskMeta
    BY Cut
  <2>2. PICK e \in FileSet(diskMeta) : Has(e, b, c)'
    <3>1. \E e \in FileSet(diskMeta') : Has(e, b, cur[b])'
      BY <1>1 DEF CInv, ListHolds, Holds
    <3> QED
      BY <1>1, <2>1, <3>1 DEF Has
  <2>3. e \in DataFiles
    BY ListFacts
  <2>4. Has(e, b, c)
    BY <2>2, <2>3, Cut, LeftHas
  <2> QED
    BY <1>1, <1>2, <2>4 DEF CInv, ListHolds, Holds, InUse
<1> QED
  BY <1>1, <1>2, <1>3 DEF Versions

LEMMA DeviceStep ==
    ASSUME DInv, DInv', [BNext]_vars, DeviceView = cur, DeviceView' = cur',
           \A b \in Blocks : flushed'[b] <= cur'[b]
    PROVE  [Device!Next]_(Device!vars)
<1>1. CInv /\ CInv' /\ FaultsType
  BY DEF DInv
<1>2. /\ faults'.power = faults.power \/ (PowerLoss /\ faults'.power = faults.power + 1)
  BY <1>1, FaultsStep
<1>3. /\ cur \in [Blocks -> Versions] /\ cur' \in [Blocks -> Versions]
      /\ flushed \in [Blocks -> Versions] /\ flushed' \in [Blocks -> Versions]
  BY <1>1 DEF CInv, BInv, ContentsType
<1>4. HistoryChanges
  BY Changes
<1>5. CASE AWrite
  <2>1. UNCHANGED flushed /\ UNCHANGED faults
    BY <1>5 DEF AWrite, BWriteAppend
  <2>2. ASSUME NEW c \in Blocks PROVE cur'[c] >= cur[c]
    <3>1. PICK b \in Blocks, k \in Logs : WriteOf(b, k)
      BY <1>1, <1>5, Written
    <3>2. /\ ver[b] \in Nat /\ cur[b] \in Nat /\ cur[b] <= ver[b] /\ cur'[b] = ver[b] + 1
          /\ c # b => cur'[c] = cur[c]
      BY <1>1, <3>1, WriteFacts
    <3>3. cur[c] \in Nat
      BY <1>3 DEF Versions
    <3> QED
      BY <3>2, <3>3
  <2>3. Device!Write
    BY <2>1, <2>2 DEF Device!Write
  <2> QED
    BY <2>3 DEF Device!Next
<1>6. CASE PowerLoss
  <2>1. UNCHANGED flushed /\ faults'.power = faults.power + 1
    BY <1>1, <1>6 DEF PowerLoss, FaultsType
  <2>2. \A b \in Blocks : flushed[b] <= cur'[b] /\ cur'[b] <= cur[b]
    BY <1>1, <1>6, <2>1, CutBack
  <2>3. Device!PowerFailure
    BY <2>1, <2>2 DEF Device!PowerFailure
  <2> QED
    BY <2>3 DEF Device!Next
<1>7. CASE ~ AWrite /\ ~ PowerLoss
  <2>1. UNCHANGED cur /\ faults'.power = faults.power
    BY <1>2, <1>4, <1>7 DEF HistoryChanges
  <2>2. CASE UNCHANGED flushed
    BY <2>1, <2>2 DEF Device!vars
  <2>3. CASE flushed' # flushed
    <3>1. PICK f \in Flushers : BFlushReturn(f)
      BY <1>4, <2>3 DEF HistoryChanges
    <3>2. ASSUME NEW b \in Blocks PROVE flushed[b] <= flushed'[b]
      <4>1. PICK v, w : v = flushed[b] /\ w = need[f][b]
        OBVIOUS
      <4>2. v \in Nat /\ w \in Nat
        BY <1>1, <4>1, HistoryTypes DEF Versions
      <4>3. flushed'[b] = Max({v, w})
        BY <3>1, <4>1 DEF BFlushReturn
      <4> QED
        BY <4>1, <4>2, <4>3 DEF Max
    <3>3. Device!Flush
      BY <2>1, <2>3, <3>2 DEF Device!Flush
    <3> QED
      BY <3>3 DEF Device!Next
  <2> QED
    BY <2>2, <2>3
<1> QED
  BY <1>5, <1>6, <1>7

\* The file implements a block device: nothing but a write changes what is read,
\* and after a power failure every block has a version between the one the last
\* Flush vouched for and the last one written (the window of FlushesKept apart).
THEOREM DeviceImplemented == ~ CountWindowFlushes => (BSafeSpec => ImplementsDevice)
<1> SUFFICES ASSUME ~ CountWindowFlushes PROVE BSafeSpec => ImplementsDevice
  OBVIOUS
<1>1. BInit => Device!Init
  <2> SUFFICES ASSUME BInit PROVE Device!Init
    OBVIOUS
  <2>1. DeviceView = Hole /\ flushed = Hole /\ faults.power = 0
    BY CInitInv, ViewIsCur DEF BInit
  <2> QED
    BY <2>1 DEF Device!Init, Hole
<1>2. BSafeSpec => []DInv
  BY DInvariant
<1>3. DInv => CInv
  BY DEF DInv
<1>4. DInv' => (DeviceView = cur)'
  BY <1>3, ViewIsCur, PTL
<1>5. DInv' => (\A b \in Blocks : flushed[b] <= cur[b])'
  BY FlushedWritten, PTL
<1>6. DInv /\ DInv' /\ [BNext]_vars => [Device!Next]_(Device!vars)
  BY <1>3, <1>4, <1>5, ViewIsCur, DeviceStep
<1> QED
  BY <1>1, <1>2, <1>6, PTL DEF BSafeSpec, ImplementsDevice, Device!Spec

-----------------------------------------------------------------------------
(* What is left on disk *)

\* Until the first crash every file is listed, is new, or is about to be
\* deleted.
Accounted ==
    Crashes = 0 =>
        /\ \A l \in logFiles :
              \/ LogFile(l) \in FileSet(diskMeta)
              \/ pc \in {"openSave", "rotateSave"} /\ l = job.log
              \/ pc \in {"delete", "closeDelete"} /\ LogFile(l) \in job.unused
        /\ \A s \in DOMAIN tables :
              \/ TableFile(s) \in FileSet(diskMeta)
              \/ pc \in {"install", "removing", "commit"} /\ s = job.table
              \/ pc = "delete" /\ TableFile(s) \in job.unused

GInv == CInv /\ FaultsType /\ Accounted

\* How a step is done with a new or an unused file.
GarbageMoves ==
    /\ pc \in {"openSave", "rotateSave"} =>
          (pc' = pc /\ UNCHANGED job) \/ ASave \/ Kill \/ PowerLoss
    /\ pc \in {"install", "removing", "commit"} =>
          \/ pc' \in {"install", "removing", "commit"} /\ job'.table = job.table
          \/ Commit \/ Kill \/ PowerLoss
    /\ pc \in {"delete", "closeDelete"} =>
          \/ pc' = pc /\ UNCHANGED job
          \/ ADeleteLog \/ ADeleteTable \/ ACloseDelete \/ job.unused = {} \/ Kill \/ PowerLoss

LEMMA GarbageFrame ==
    ASSUME JobType, [BNext]_vars
    PROVE  GarbageMoves
<1> USE DEF JobType, GarbageMoves, ASave, ADeleteLog, ADeleteTable, ACloseDelete
<1>1. ASSUME OpenLoad PROVE GarbageMoves
  BY <1>1 DEF OpenLoad
<1>2. ASSUME OpenMakeLog PROVE GarbageMoves
  BY <1>2 DEF OpenMakeLog, MakeLogWriter, RunnerIdle
<1>3. ASSUME OpenSave PROVE GarbageMoves
  BY <1>3 DEF OpenSave
<1>4. ASSUME OpenPush PROVE GarbageMoves
  BY <1>4 DEF OpenPush, PushFirstLog, NewWriter
<1>5. ASSUME NEW b \in Blocks, BWriteStart(b) PROVE GarbageMoves
  BY <1>5 DEF BWriteStart, WriteStart, Admitted, bfvars
<1>6. ASSUME NEW f \in Flushers, BFlushStart(f) PROVE GarbageMoves
  BY <1>6 DEF BFlushStart, FlushStart
<1>7. ASSUME NEW b \in Blocks, BWriteAppend(b) PROVE GarbageMoves
  BY <1>7 DEF BWriteAppend, WriteAppend
<1>8. ASSUME NEW b \in Blocks, BWriteCount(b) PROVE GarbageMoves
  BY <1>8 DEF BWriteCount, WriteCount, WriteLeaves, bfvars
<1>9. ASSUME NEW b \in Blocks, BWriteReturn(b) PROVE GarbageMoves
  BY <1>9 DEF BWriteReturn, WriteReturn
<1>10. ASSUME NEW f \in Flushers, BFlushReturn(f) PROVE GarbageMoves
  BY <1>10 DEF BFlushReturn, FlushReturn, FlushLeaves
<1>11. ASSUME NEW f \in Flushers, NEW l \in Logs, BFlushLog(f, l) PROVE GarbageMoves
  BY <1>11 DEF BFlushLog, FlushLog, bfvars
<1>12. ASSUME NEW l \in Logs, BCloser(l) PROVE GarbageMoves
  BY <1>12 DEF BCloser, CloserStep, CloserFreeze, CloserSync, CloserLeaves, bfvars
<1>13. ASSUME Merge PROVE GarbageMoves
  BY <1>13 DEF Merge
<1>14. ASSUME RunnerLoop PROVE GarbageMoves
  BY <1>14 DEF RunnerLoop
<1>15. ASSUME CompactWriterCheck PROVE GarbageMoves
  BY <1>15 DEF CompactWriterCheck
<1>16. ASSUME RotateMakeLog PROVE GarbageMoves
  BY <1>16 DEF RotateMakeLog, Goto, MakeLogWriter
<1>17. ASSUME RotateSave PROVE GarbageMoves
  BY <1>17 DEF RotateSave, Goto
<1>18. ASSUME RotateSwap PROVE GarbageMoves
  BY <1>18 DEF RotateSwap, Goto, PushSwap, NewWriter
<1>19. ASSUME RotateWait PROVE GarbageMoves
  BY <1>19 DEF RotateWait, Goto, PushReturn
<1>20. ASSUME RotatePush PROVE GarbageMoves
  BY <1>20 DEF RotatePush, Goto
<1>21. ASSUME StartCompaction PROVE GarbageMoves
  BY <1>21 DEF StartCompaction, Goto
<1>22. ASSUME BuildTable PROVE GarbageMoves
  BY <1>22 DEF BuildTable, Goto
<1>23. ASSUME Install PROVE GarbageMoves
  BY <1>23 DEF Install, Goto, RemoveStart
<1>24. ASSUME Removing PROVE GarbageMoves
  BY <1>24 DEF Removing, Goto, RemoveReturn
<1>25. ASSUME Commit PROVE GarbageMoves
  BY <1>25 DEF Commit, Goto
<1>26. ASSUME NEW e \in job.unused, DeleteLog(e) PROVE GarbageMoves
  BY <1>26 DEF DeleteLog, CloseRemoved
<1>27. ASSUME NEW e \in job.unused, DeleteTable(e) PROVE GarbageMoves
  BY <1>27 DEF DeleteTable
<1>28. ASSUME CompactionDone PROVE GarbageMoves
  BY <1>28 DEF CompactionDone, Goto
<1>29. ASSUME BCloseStart PROVE GarbageMoves
  BY <1>29 DEF BCloseStart, Goto, CloseStart
<1>30. ASSUME BCloseBarrier PROVE GarbageMoves
  BY <1>30 DEF BCloseBarrier, CloseBarrier, bfvars
<1>31. ASSUME BCloseReturn PROVE GarbageMoves
  BY <1>31 DEF BCloseReturn, Goto, CloseReturn
<1>32. ASSUME CloseSave PROVE GarbageMoves
  BY <1>32 DEF CloseSave, Goto
<1>33. ASSUME NEW e \in job.unused, CloseDelete(e) PROVE GarbageMoves
  BY <1>33 DEF CloseDelete
<1>34. ASSUME Exit PROVE GarbageMoves
  BY <1>34 DEF Exit, ForgetMemory
<1>35. ASSUME Kill PROVE GarbageMoves
  BY <1>35 DEF Kill, ForgetMemory
<1>36. ASSUME PowerLoss PROVE GarbageMoves
  BY <1>36 DEF PowerLoss, ForgetMemory
<1>37. ASSUME UNCHANGED vars PROVE GarbageMoves
  BY <1>37 DEF vars, bfvars
<1> HIDE DEF JobType, GarbageMoves, ASave, ADeleteLog, ADeleteTable, ACloseDelete
<1> QED
  BY <1>1, <1>2, <1>3, <1>4, <1>5, <1>6, <1>7, <1>8, <1>9, <1>10, <1>11, <1>12, <1>13, <1>14,
     <1>15, <1>16, <1>17, <1>18, <1>19, <1>20, <1>21, <1>22, <1>23, <1>24, <1>25, <1>26, <1>27,
     <1>28, <1>29, <1>30, <1>31, <1>32, <1>33, <1>34, <1>35, <1>36, <1>37
  DEF BNext, OpenStep, ClientStep, CompactStep, ShutdownStep, Quiescent

\* Nothing leaves the list but what is then deleted.
LEMMA DroppedUnused ==
    ASSUME CInv, [BNext]_vars, NEW e \in FileSet(diskMeta), e \notin FileSet(diskMeta')
    PROVE  /\ Commit \/ CloseSave
           /\ e \in job'.unused
           /\ Commit => pc' = "delete"
           /\ CloseSave => pc' = "closeDelete"
<1>1. ASSUME ASave PROVE FALSE
  <2>1. meta = diskMeta
    BY <1>1, SavedMeta, ActionPcs
  <2> QED
    BY <1>1, <2>1, SavedLists DEF CInv
<1>2. ASSUME Commit PROVE e \in job'.unused
  <2>1. job'.unused = Unused
    BY <1>2 DEF Commit, CInv, BInv, JobType
  <2> QED
    BY <1>2, <2>1, Committed, LogsUnused
<1>3. ASSUME CloseSave PROVE e \in job'.unused
  <2>1. meta = diskMeta /\ meta' = diskMeta'
    BY <1>3, SavedMeta, ActionPcs, Shut
  <2>2. FileSet(meta') = FileSet(meta) \ job'.unused
    BY <1>3, ClosedLists DEF CInv
  <2> QED
    BY <2>1, <2>2
<1> QED
  BY <1>1, <1>2, <1>3, Changes, ActionPcs DEF DiskChanges

LEMMA CrashCounts ==
    ASSUME FaultsType, [BNext]_vars, Crashes' = 0
    PROVE  Crashes = 0 /\ ~ Kill /\ ~ PowerLoss
<1>1. FaultsType' /\ faults'.kill >= faults.kill /\ faults'.power >= faults.power
  BY FaultsStep
<1>2. /\ faults.kill \in Nat /\ faults.power \in Nat
      /\ faults'.kill \in Nat /\ faults'.power \in Nat
      /\ faults'.kill + faults'.power = 0
  BY <1>1 DEF FaultsType, Crashes
<1>3. faults'.kill = 0 /\ faults'.power = 0 /\ faults.kill = 0 /\ faults.power = 0
  BY <1>1, <1>2
<1>4. Kill => faults'.kill = faults.kill + 1
  BY DEF Kill, FaultsType
<1>5. PowerLoss => faults'.power = faults.power + 1
  <2>1. PowerLoss => faults' = [faults EXCEPT !.power = @ + 1]
    BY DEF PowerLoss
  <2> QED
    BY <2>1 DEF FaultsType
<1> QED
  BY <1>2, <1>3, <1>4, <1>5 DEF Crashes

LEMMA AccountedStep ==
    ASSUME CInv, FaultsType, Accounted, [BNext]_vars
    PROVE  Accounted'
<1> SUFFICES ASSUME Crashes' = 0
             PROVE  /\ \A l \in logFiles' :
                          \/ LogFile(l) \in FileSet(diskMeta')
                          \/ pc' \in {"openSave", "rotateSave"} /\ l = job'.log
                          \/ pc' \in {"delete", "closeDelete"} /\ LogFile(l) \in job'.unused
                    /\ \A s \in DOMAIN tables' :
                          \/ TableFile(s) \in FileSet(diskMeta')
                          \/ pc' \in {"install", "removing", "commit"} /\ s = job'.table
                          \/ pc' = "delete" /\ TableFile(s) \in job'.unused
  BY DEF Accounted
<1>1. Crashes = 0 /\ ~ Kill /\ ~ PowerLoss
  BY CrashCounts
<1>2. GarbageMoves /\ DiskChanges /\ JobType
  BY GarbageFrame, Changes DEF CInv, BInv
<1>3. ASSUME ASave PROVE JobLog \in FileSet(diskMeta')
  <2>1. meta = diskMeta
    BY <1>3, SavedMeta, ActionPcs
  <2> QED
    BY <1>3, <2>1, SavedLists DEF CInv, JobLog
<1>4. ASSUME Commit
      PROVE  pc' = "delete" /\ (\/ TableFile(job.table) \in FileSet(diskMeta')
                                \/ TableFile(job.table) \in job'.unused)
  <2>1. job'.unused = Unused
    BY <1>4 DEF Commit, CInv, BInv, JobType
  <2> QED
    BY <1>4, <2>1, Committed
<1>5. ASSUME NEW e \in job.unused, pc \in {"delete", "closeDelete"},
             \/ LogFile(e.name) = e /\ e.name \in logFiles'
             \/ TableFile(e.name) = e /\ e.name \in DOMAIN tables'
      PROVE  e \in job'.unused /\ pc' = pc
  <2>1. CASE ADeleteLog
    <3>1. PICK x \in job.unused : DeleteLog(x)
      BY <2>1 DEF ADeleteLog
    <3>2. /\ x.type = "log" /\ logFiles' = logFiles \ {x.name} /\ UNCHANGED <<pc, tables>>
          /\ job'.unused = job.unused \ {x}
      BY <1>2, <3>1 DEF DeleteLog, JobType
    <3>3. x = LogFile(x.name)
      BY <1>2, <3>2, FileKinds DEF JobType
    <3> QED
      BY <1>5, <3>2, <3>3, LogFields
  <2>2. CASE ADeleteTable
    <3>1. PICK x \in job.unused : DeleteTable(x)
      BY <2>2 DEF ADeleteTable
    <3>2. /\ x.type = "table" /\ DOMAIN tables' = DOMAIN tables \ {x.name} /\ UNCHANGED pc
          /\ job'.unused = job.unused \ {x}
      BY <1>2, <3>1 DEF DeleteTable, JobType
    <3>3. x = TableFile(x.name)
      BY <1>2, <3>2, FileKinds DEF JobType
    <3> QED
      BY <1>5, <3>2, <3>3, LogFields
  <2>3. CASE ACloseDelete
    <3>1. PICK x \in job.unused : CloseDelete(x)
      BY <2>3 DEF ACloseDelete
    <3>2. /\ pc = "closeDelete" /\ logFiles' = logFiles \ {x.name} /\ UNCHANGED <<pc, tables>>
          /\ job'.unused = job.unused \ {x}
      BY <1>2, <3>1 DEF CloseDelete, JobType
    <3>3. job.unused \subseteq AllLogs
      BY <3>2 DEF CInv, BInv, JobHeld
    <3>4. e = LogFile(e.name) /\ x = LogFile(x.name)
      BY <3>3, LogFields DEF AllLogs
    <3> QED
      BY <1>5, <3>2, <3>4, LogFields
  <2> QED
    BY <1>1, <1>2, <1>5, <2>1, <2>2, <2>3 DEF GarbageMoves
<1>6. ASSUME NEW l \in logFiles'
      PROVE  \/ LogFile(l) \in FileSet(diskMeta')
             \/ pc' \in {"openSave", "rotateSave"} /\ l = job'.log
             \/ pc' \in {"delete", "closeDelete"} /\ LogFile(l) \in job'.unused
  <2>1. CASE l \notin logFiles
    <3>1. AMakeLog
      BY <1>2, <1>6, <2>1 DEF DiskChanges, ADeleteLog, DeleteLog, ACloseDelete, CloseDelete
    <3>2. pc' \in {"openSave", "rotateSave"}
      BY <3>1, ActionPcs
    <3>3. logFiles' = logFiles \cup {NewName} /\ job' = [job EXCEPT !.log = NewName]
      BY <3>1 DEF AMakeLog, OpenMakeLog, RotateMakeLog
    <3>4. l = NewName /\ job'.log = NewName
      BY <1>2, <1>6, <2>1, <3>3 DEF JobType
    <3> QED
      BY <3>2, <3>4
  <2>2. CASE l \in logFiles /\ LogFile(l) \in FileSet(diskMeta)
    BY <2>2, DroppedUnused
  <2>3. CASE pc \in {"openSave", "rotateSave"} /\ l = job.log
    BY <1>1, <1>2, <1>3, <2>3 DEF GarbageMoves, JobLog
  <2>4. CASE pc \in {"delete", "closeDelete"} /\ LogFile(l) \in job.unused
    <3>1. PICK e : e = LogFile(l)
      OBVIOUS
    <3>2. e.name = l
      BY <3>1, LogFields
    <3> QED
      BY <1>5, <1>6, <2>4, <3>1, <3>2
  <2> QED
    BY <1>1, <2>1, <2>2, <2>3, <2>4 DEF Accounted
<1>7. ASSUME NEW s \in DOMAIN tables'
      PROVE  \/ TableFile(s) \in FileSet(diskMeta')
             \/ pc' \in {"install", "removing", "commit"} /\ s = job'.table
             \/ pc' = "delete" /\ TableFile(s) \in job'.unused
  <2>1. CASE s \notin DOMAIN tables
    <3>1. BuildTable
      BY <1>2, <1>7, <2>1 DEF DiskChanges, ADeleteTable, DeleteTable
    <3>2. pc' = "install"
      BY <3>1, ActionPcs
    <3>3. DOMAIN tables' = DOMAIN tables \cup {nextSeq} /\ job' = [job EXCEPT !.table = nextSeq]
      BY <3>1 DEF BuildTable
    <3>4. s = nextSeq /\ job'.table = nextSeq
      BY <1>2, <1>7, <2>1, <3>3 DEF JobType
    <3> QED
      BY <3>2, <3>4
  <2>2. CASE TableFile(s) \in FileSet(diskMeta)
    <3> SUFFICES ASSUME TableFile(s) \notin FileSet(diskMeta')
                 PROVE  pc' = "delete" /\ TableFile(s) \in job'.unused
      OBVIOUS
    <3>1. ~ CloseSave
      <4> SUFFICES ASSUME CloseSave PROVE FALSE
        OBVIOUS
      <4>1. TableFile(s) \in job'.unused /\ job'.unused \subseteq AllLogs
        BY <2>2, DroppedUnused, ClosedLists DEF CInv
      <4> QED
        BY <4>1, LogFields DEF AllLogs
    <3> QED
      BY <2>2, <3>1, DroppedUnused
  <2>3. CASE pc \in {"install", "removing", "commit"} /\ s = job.table
    BY <1>1, <1>2, <1>4, <2>3 DEF GarbageMoves
  <2>4. CASE pc = "delete" /\ TableFile(s) \in job.unused
    BY <1>5, <1>7, <2>4, LogFields
  <2> QED
    BY <1>1, <2>1, <2>2, <2>3, <2>4 DEF Accounted
<1> QED
  BY <1>6, <1>7

\* Compaction and Close delete every file that they make unused, and lose track
\* of none: while no process has crashed, a device at rest has the files of its
\* metadata and no other.
THEOREM NothingLeft == BSafeSpec => []NoGarbage
<1>1. BInit => GInv
  <2> SUFFICES ASSUME BInit PROVE FaultsType /\ Accounted
    BY CInitInv DEF GInv
  <2>1. faults = [kill |-> 0, power |-> 0, close |-> 0] /\ logFiles = {} /\ DOMAIN tables = {}
    BY DEF BInit
  <2> QED
    BY <2>1 DEF FaultsType, Accounted
<1>2. GInv /\ [BNext]_vars => GInv'
  BY CStepInv, FaultsStep, AccountedStep DEF GInv
<1>3. GInv => NoGarbage
  <2> SUFFICES ASSUME GInv, pc = "idle", Crashes = 0
               PROVE  /\ meta = diskMeta
                      /\ logFiles = LogsOf(meta)
                      /\ DOMAIN tables = TablesOf(meta)
                      /\ LogsOf(meta) = Pending \cup {activeWriter}
    BY DEF NoGarbage
  <2>1. CInv /\ Up /\ Serving /\ meta = diskMeta
    BY SavedMeta DEF GInv, Up, Closing, Serving
  <2>2. /\ \A l \in logFiles : LogFile(l) \in FileSet(diskMeta)
        /\ \A s \in DOMAIN tables : TableFile(s) \in FileSet(diskMeta)
    BY DEF GInv, Accounted
  <2>3. /\ \A l \in LogsOf(diskMeta) : l \in Logs /\ LogFile(l) \in FileSet(diskMeta)
        /\ \A s \in TablesOf(diskMeta) : TableFile(s) \in FileSet(diskMeta)
        /\ \A l : LogFile(l) \in FileSet(diskMeta) => l \in LogsOf(diskMeta)
        /\ \A s : TableFile(s) \in FileSet(diskMeta) => s \in TablesOf(diskMeta)
    <3>1. FileSet(diskMeta) \subseteq DataFiles
      BY <2>1, ListFacts
    <3> QED
      BY <3>1, FileKinds, LogFields DEF LogsOf, TablesOf
  <2>4. LogsOf(diskMeta) \subseteq logFiles /\ TablesOf(diskMeta) \subseteq DOMAIN tables
    BY <2>1 DEF CInv, BInv, FilesExist, Listed, Exists, LogsOf, TablesOf
  <2>5. LogsOf(diskMeta) = Pending \cup {activeWriter}
    <3>1. \A l \in Pending \cup {activeWriter} : LogFile(l) \in FileSet(diskMeta)
      BY <2>1 DEF CInv, LogMembers, ListEnd, Newest, Active
    <3>2. \A l \in Logs : LogFile(l) \in FileSet(diskMeta) => l \in Pending \cup {activeWriter}
      BY <2>1 DEF CInv, LogMembers
    <3> QED
      BY <2>3, <3>1, <3>2
  <2>6. logFiles = LogsOf(diskMeta) /\ DOMAIN tables = TablesOf(diskMeta)
    BY <2>2, <2>3, <2>4
  <2> QED
    BY <2>1, <2>5, <2>6
<1> QED
  BY <1>1, <1>2, <1>3, PTL DEF BSafeSpec
=============================================================================
