------------------------- MODULE ReadsFresh_proofs -------------------------
(***************************************************************************)
(* A read of the block file returns a version at least as new as the last  *)
(* one written before it began: for any number of files, blocks, clients   *)
(* and versions, while logs are rotated, merged and compacted under it.    *)
(***************************************************************************)
EXTENDS ReaderTracker_proofs

\* The version of a block that the index leads to.
Version(b) == IF rangeMap[b] = 0 THEN 0 ELSE content[valueMap[rangeMap[b]]][b]

\* The logs in m.writers and, with the pending readers, what is above the index.
WritingLogs ==
    {f \in Logs : f = active \/ (run.pc \in {"swap"} \cup InRotation /\ f = run.file)}
Layers == WritingLogs \cup PendingFiles

\* The readers that the merge loop has copied, and those it is done with.
MergeFiles == {mg.files[i] : i \in DOMAIN mg.files}
Taken == rs \cup MergeFiles

\* Where both files have a block, g has the newer version.
Newer(g, f) ==
    \A b \in Blocks : content[g][b] # 0 /\ content[f][b] # 0 => content[g][b] > content[f][b]

-----------------------------------------------------------------------------
(* The inductive invariant *)

\* No file holds a version that has not been written.
Bounded == \A f \in Files, b \in Blocks : content[f][b] <= cur[b]

\* The stack is ordered by age: the pending readers ...
PendingOrder ==
    \A i, j \in DOMAIN pendingReaders : i < j => Newer(pendingReaders[i], pendingReaders[j])

\* ... below the logs being written, whose newer one has no block that a write
\* to the older one is still about to overwrite.
WritersOrder ==
    /\ \A w \in WritingLogs, p \in PendingFiles : p # w => Newer(w, p)
    /\ run.pc \in InRotation => Newer(active, run.file)
    /\ run.pc = "swap" => \A b \in Blocks : content[run.file][b] = 0
    /\ run.pc = "await" => \A b \in Blocks : wr[b] = run.file => content[active][b] = 0

\* The merge loop goes from the oldest reader to the newest, and those pushed
\* since it copied the list are newer than all it has left.
MergeOrder ==
    /\ mg.pc \in {"check", "wait"} => mg.files = <<>>
    /\ \A i, j \in DOMAIN mg.files : i < j => Newer(mg.files[j], mg.files[i])
    /\ \A g \in PendingFiles \ Taken, h \in MergeFiles : Newer(g, h)

\* A log that leaves m.writers is pending, or was the last one to be merged.
RotationHeld ==
    run.pc = "removeWriter" =>
        /\ run.file \in rs \cup PendingFiles
        /\ run.file \in Taken => PendingFiles \subseteq Taken
        /\ run.file \notin PendingFiles => PendingFiles = {}

\* The index is older than what has not been merged ...
IndexBelow ==
    /\ \A f \in Layers \ rs, b \in Blocks : content[f][b] # 0 => content[f][b] > Version(b)
    /\ mg.pc = "add" => \A b \in mg.todo : content[Head(mg.files)][b] > Version(b)

\* ... and not older than what has.
IndexAbove ==
    \A f \in rs, b \in Blocks :
        \/ content[f][b] <= Version(b)
        \/ mg.pc = "add" /\ f = Head(mg.files) /\ b \in mg.todo

\* The new table of a compaction holds what the index has.
TableSame ==
    run.pc \in {"alloc", "add"} =>
        /\ \A b \in Blocks : content[run.file][b] \in {0, Version(b)}
        /\ run.pc = "add" => \A b \in run.todo : content[run.file][b] # 0

\* The last version written is in a layer; or no layer has the block, and it is
\* in the index.
LastHeld ==
    \A b \in Blocks :
        \/ \E f \in Layers : content[f][b] = cur[b]
        \/ (\A f \in Layers : content[f][b] = 0) /\ Version(b) = cur[b]

\* The first layer that has the block of a read, from where the read is, has it
\* as new as the read needs it; and so has the index if none has it.
FirstFresh(r) ==
    /\ \A i \in r.pos..Len(r.stack) :
          (\A j \in r.pos..(i - 1) : content[r.stack[j]][r.b] = 0) =>
              content[r.stack[i]][r.b] = 0 \/ content[r.stack[i]][r.b] >= r.lo
    /\ (\A j \in r.pos..Len(r.stack) : content[r.stack[j]][r.b] = 0) => Version(r.b) >= r.lo

ReadOK(r) ==
    /\ r.lo <= cur[r.b]
    /\ r.pc # "done" => r.val = 0
    /\ r.pc \in {"hole", "data"} => FirstFresh(r)
    /\ r.pc = "read" => content[r.stack[r.pos]][r.b] >= r.lo
    /\ r.pc = "find" => Version(r.b) >= r.lo
    /\ r.pc = "fetch" => content[r.br][r.b] >= r.lo
    /\ r.pc = "done" => r.val >= r.lo /\ r.val <= cur[r.b]
ReadsOK == \A c \in ActiveReads : ReadOK(rd[c])

FInv ==
    /\ RInv
    /\ Bounded
    /\ PendingOrder
    /\ WritersOrder
    /\ MergeOrder
    /\ RotationHeld
    /\ IndexBelow
    /\ IndexAbove
    /\ TableSame
    /\ LastHeld
    /\ ReadsOK

\* The abbreviations of the frame conditions.
USE DEF filevars, indexvars, listvars, syncvars

-----------------------------------------------------------------------------
(* What a step leaves alone, and which steps do not *)

SameFiles == \A f \in opened : content'[f] = content[f]
MergeSame == mg'.pc = mg.pc /\ mg'.files = mg.files /\ mg'.todo = mg.todo
RunSame == run'.pc = run.pc /\ run'.file = run.file /\ run'.todo = run.todo
Rotating == {"swap"} \cup InRotation

AWrite == \E b \in Blocks : WriteDo(b)
AnOpen == \E f \in Files, bs \in SUBSET Blocks : OpenPushReader(f, bs)
ABuild == \E t \in Tables, es \in SUBSET Tables : BuildTable(t, es)
ANewLog == \E l \in Logs : PushWriter(l)
AMergeAdd == \E b \in Blocks : MergeAdd(b)
ACompactAdd == \E b \in Blocks : CompactAdd(b)

\* The steps that change each of the variables that freshness depends on.
LEMMA Changes ==
    ASSUME RInv, [RNext]_rvars
    PROVE  /\ SameFiles \/ AWrite
           /\ UNCHANGED content \/ AWrite \/ AnOpen \/ ANewLog \/ ABuild
           /\ UNCHANGED cur \/ AWrite \/ AnOpen
           /\ UNCHANGED pendingReaders \/ MergeDrop \/ AnOpen \/ PushReader
           /\ UNCHANGED <<rs, valueMap>> \/ MergeAlloc \/ CompactAlloc \/ RemoveTable
           /\ UNCHANGED rangeMap \/ AMergeAdd \/ ACompactAdd
           /\ UNCHANGED wr \/ (\E b \in Blocks : WriteStart(b)) \/ AWrite
           /\ UNCHANGED active \/ PushNewLog
           /\ \/ MergeSame \/ MergeCheck \/ MergeAlloc \/ AMergeAdd \/ MergeNext
              \/ MergeDrop \/ MergeWaited
           /\ \/ RunSame \/ ANewLog \/ PushNewLog \/ WritesDone \/ PushReader \/ RemoveWriter
              \/ (run.pc \notin Rotating /\ run'.pc \notin Rotating)
           /\ \/ RunSame \/ ABuild \/ CompactAlloc \/ ACompactAdd
              \/ run'.pc \notin {"alloc", "add"}
<1> USE FilesAssumption
<1>1. MergeType /\ RunType /\ FilesOK
  BY DEF RInv, RTypes, RTypeOK
<1>2. UNCHANGED content => SameFiles
  BY DEF SameFiles
<1>3. UNCHANGED mg => MergeSame
  BY DEF MergeSame
<1>4. UNCHANGED run => RunSame
  BY DEF RunSame
<1>5. ASSUME NEW b \in Blocks, WriteStart(b)
      PROVE  /\ UNCHANGED <<content, cur, pendingReaders, rs, valueMap, rangeMap,
                              active>>
             /\ SameFiles
             /\ MergeSame
             /\ RunSame
  BY <1>2, <1>3, <1>4, <1>5 DEF WriteStart
<1>6. ASSUME NEW b \in Blocks, WriteDo(b)
      PROVE  /\ UNCHANGED <<pendingReaders, rs, valueMap, rangeMap, active>>
             /\ MergeSame
             /\ RunSame
  BY <1>2, <1>3, <1>4, <1>6 DEF WriteDo
<1>7. ASSUME NEW c \in Clients, NEW b \in Blocks, ReadStart(c, b)
      PROVE  /\ UNCHANGED <<content, cur, pendingReaders, rs, valueMap, rangeMap,
                              wr, active>>
             /\ SameFiles
             /\ MergeSame
             /\ RunSame
  BY <1>2, <1>3, <1>4, <1>7 DEF ReadStart
<1>8. ASSUME NEW c \in Clients, ReadHole(c) \/ ReadData(c) \/ ReadLayer(c) \/
             ReadFind(c) \/ ReadFetch(c)
      PROVE  /\ UNCHANGED <<content, cur, pendingReaders, rs, valueMap, rangeMap,
                              wr, active>>
             /\ SameFiles
             /\ MergeSame
             /\ RunSame
  BY <1>2, <1>3, <1>4, <1>8 DEF ReadHole, ReadData, ReadLayer, ReadFind, ReadFetch
<1>9. ASSUME NEW c \in Clients, ReadReturn(c)
      PROVE  /\ UNCHANGED <<content, cur, pendingReaders, rs, valueMap, rangeMap,
                              wr, active>>
             /\ SameFiles
             /\ MergeSame
             /\ RunSame
  BY <1>1, <1>2, <1>3, <1>4, <1>9 DEF ReadReturn, MergeSame, MergeType, RunSame,
       RunType, Rotating, InRotation
<1>10. ASSUME MergeCheck
       PROVE  /\ UNCHANGED <<content, cur, pendingReaders, rs, valueMap, rangeMap,
                               wr, active>>
              /\ SameFiles
              /\ RunSame
  BY <1>1, <1>2, <1>3, <1>4, <1>10 DEF MergeCheck
<1>11. ASSUME MergeAlloc
       PROVE  /\ UNCHANGED <<content, cur, pendingReaders, rangeMap, wr, active>>
              /\ SameFiles
              /\ RunSame
  BY <1>1, <1>2, <1>3, <1>4, <1>11 DEF MergeAlloc, FetchOrAddValueIndex
<1>12. ASSUME NEW b \in Blocks, MergeAdd(b)
       PROVE  /\ UNCHANGED <<content, cur, pendingReaders, rs, valueMap, wr,
                               active>>
              /\ SameFiles
              /\ RunSame
  BY <1>1, <1>2, <1>3, <1>4, <1>12 DEF MergeAdd, AddBlock
<1>13. ASSUME MergeNext
       PROVE  /\ UNCHANGED <<content, cur, pendingReaders, rs, valueMap, rangeMap,
                               wr, active>>
              /\ SameFiles
              /\ RunSame
  BY <1>1, <1>2, <1>3, <1>4, <1>13 DEF MergeNext
<1>14. ASSUME MergeDrop
       PROVE  /\ UNCHANGED <<content, cur, rs, valueMap, rangeMap, wr,
                               active>>
              /\ SameFiles
              /\ RunSame
  BY <1>1, <1>2, <1>3, <1>4, <1>14 DEF MergeDrop
<1>15. ASSUME MergeWaited
       PROVE  /\ UNCHANGED <<content, cur, pendingReaders, rs, valueMap, rangeMap,
                               wr, active>>
              /\ SameFiles
              /\ RunSame
  BY <1>1, <1>2, <1>3, <1>4, <1>15 DEF MergeWaited, IdleMerge
<1>16. ASSUME NEW f \in Files, NEW bs \in SUBSET Blocks, OpenPushReader(f, bs)
       PROVE  /\ UNCHANGED <<rs, valueMap, rangeMap, wr, active>>
              /\ SameFiles
              /\ MergeSame
              /\ RunSame
  BY <1>1, <1>2, <1>3, <1>4, <1>16 DEF OpenPushReader, PushReaderList, SameFiles,
       FilesOK
<1>17. ASSUME NEW l \in Logs, PushWriter(l)
       PROVE  /\ UNCHANGED <<cur, pendingReaders, rs, valueMap, rangeMap, wr,
                               active>>
              /\ SameFiles
              /\ MergeSame
              /\ run'.pc \notin {"alloc", "add"}
  BY <1>1, <1>2, <1>3, <1>4, <1>17 DEF PushWriter, RunSame, RunType, Rotating,
       InRotation, SameFiles, FilesOK
<1>18. ASSUME PushNewLog
       PROVE  /\ UNCHANGED <<content, cur, pendingReaders, rs, valueMap, rangeMap,
                               wr>>
              /\ SameFiles
              /\ MergeSame
              /\ run'.pc \notin {"alloc", "add"}
  BY <1>1, <1>2, <1>3, <1>4, <1>18 DEF PushNewLog, RunSame, RunType, Rotating,
       InRotation
<1>19. ASSUME WritesDone
       PROVE  /\ UNCHANGED <<content, cur, pendingReaders, rs, valueMap, rangeMap,
                               wr, active>>
              /\ SameFiles
              /\ MergeSame
              /\ run'.pc \notin {"alloc", "add"}
  BY <1>1, <1>2, <1>3, <1>4, <1>19 DEF WritesDone, RunSame, RunType, Rotating,
       InRotation
<1>20. ASSUME PushReader
       PROVE  /\ UNCHANGED <<content, cur, rs, valueMap, rangeMap, wr,
                               active>>
              /\ SameFiles
              /\ MergeSame
              /\ run'.pc \notin {"alloc", "add"}
  BY <1>1, <1>2, <1>3, <1>4, <1>20 DEF PushReader, PushReaderList, RunSame, RunType,
       Rotating, InRotation
<1>21. ASSUME RemoveWriter
       PROVE  /\ UNCHANGED <<content, cur, pendingReaders, rs, valueMap, rangeMap,
                               wr, active>>
              /\ SameFiles
              /\ MergeSame
              /\ run'.pc \notin {"alloc", "add"}
  BY <1>1, <1>2, <1>3, <1>4, <1>21 DEF RemoveWriter, RunSame, RunType, Rotating,
       InRotation
<1>22. ASSUME RemoveWriterReturn
       PROVE  /\ UNCHANGED <<content, cur, pendingReaders, rs, valueMap, rangeMap,
                               wr, active>>
              /\ SameFiles
              /\ MergeSame
              /\ run.pc \notin Rotating /\ run'.pc \notin Rotating \cup {"alloc", "add"}
  BY <1>1, <1>2, <1>3, <1>4, <1>22 DEF RemoveWriterReturn, RunSame, RunType, Rotating,
       InRotation
<1>23. ASSUME StartCompaction
       PROVE  /\ UNCHANGED <<content, cur, pendingReaders, rs, valueMap, rangeMap,
                               wr, active>>
              /\ SameFiles
              /\ MergeSame
              /\ RunSame \/ (run.pc \notin Rotating /\ run'.pc \notin Rotating \cup {"alloc", "add"})
  BY <1>1, <1>2, <1>3, <1>4, <1>23 DEF StartCompaction, RunSame, RunType, Rotating,
       InRotation
<1>24. ASSUME NEW t \in Tables, NEW es \in SUBSET Tables, BuildTable(t, es)
       PROVE  /\ UNCHANGED <<cur, pendingReaders, rs, valueMap, rangeMap, wr,
                               active>>
              /\ SameFiles
              /\ MergeSame
              /\ run.pc \notin Rotating /\ run'.pc \notin Rotating
  BY <1>1, <1>2, <1>3, <1>4, <1>24 DEF BuildTable, RunSame, RunType, Rotating,
       InRotation, SameFiles, FilesOK
<1>25. ASSUME CompactAlloc
       PROVE  /\ UNCHANGED <<content, cur, pendingReaders, rangeMap, wr, active>>
              /\ SameFiles
              /\ MergeSame
              /\ run.pc \notin Rotating /\ run'.pc \notin Rotating
  BY <1>1, <1>2, <1>3, <1>4, <1>25 DEF CompactAlloc, FetchOrAddValueIndex, RunSame,
       RunType, Rotating, InRotation
<1>26. ASSUME NEW b \in Blocks, CompactAdd(b)
       PROVE  /\ UNCHANGED <<content, cur, pendingReaders, rs, valueMap, wr,
                               active>>
              /\ SameFiles
              /\ MergeSame
              /\ run.pc \notin Rotating /\ run'.pc \notin Rotating
  BY <1>1, <1>2, <1>3, <1>4, <1>26 DEF CompactAdd, AddBlock, RunSame, RunType,
       Rotating, InRotation
<1>27. ASSUME FindUnused
       PROVE  /\ UNCHANGED <<content, cur, pendingReaders, rs, valueMap, rangeMap,
                               wr, active>>
              /\ SameFiles
              /\ MergeSame
              /\ run.pc \notin Rotating /\ run'.pc \notin Rotating \cup {"alloc", "add"}
  BY <1>1, <1>2, <1>3, <1>4, <1>27 DEF FindUnused, RunSame, RunType, Rotating,
       InRotation
<1>28. ASSUME NEW f \in Files, RemoveUnusedBarrier(f)
       PROVE  /\ UNCHANGED <<content, cur, pendingReaders, rs, valueMap, rangeMap,
                               wr, active>>
              /\ SameFiles
              /\ MergeSame
              /\ run.pc \notin Rotating /\ run'.pc \notin Rotating \cup {"alloc", "add"}
  BY <1>1, <1>2, <1>3, <1>4, <1>28 DEF RemoveUnusedBarrier, RunSame, RunType,
       Rotating, InRotation
<1>29. ASSUME RemoveTable
       PROVE  /\ UNCHANGED <<content, cur, pendingReaders, rangeMap, wr, active>>
              /\ SameFiles
              /\ MergeSame
              /\ run.pc \notin Rotating /\ run'.pc \notin Rotating \cup {"alloc", "add"}
  BY <1>1, <1>2, <1>3, <1>4, <1>29 DEF RemoveTable, RunSame, RunType, Rotating,
       InRotation
<1>30. ASSUME NEW f \in Files, CloseFile(f)
       PROVE  /\ UNCHANGED <<content, cur, pendingReaders, rs, valueMap, rangeMap,
                               wr, active>>
              /\ SameFiles
              /\ MergeSame
              /\ RunSame
  BY <1>1, <1>2, <1>3, <1>4, <1>30 DEF CloseFile, RunSame, RunType, Rotating,
       InRotation
<1>31. ASSUME CompactionDone
       PROVE  /\ UNCHANGED <<content, cur, pendingReaders, rs, valueMap, rangeMap,
                               wr, active>>
              /\ SameFiles
              /\ MergeSame
              /\ run.pc \notin Rotating /\ run'.pc \notin Rotating \cup {"alloc", "add"}
  BY <1>1, <1>2, <1>3, <1>4, <1>31 DEF CompactionDone, IdleRun, RunSame, RunType,
       Rotating, InRotation
<1>32. ASSUME UNCHANGED rvars
       PROVE  /\ UNCHANGED <<content, cur, pendingReaders, rs, valueMap, rangeMap,
                               wr, active>>
              /\ SameFiles
              /\ MergeSame
              /\ RunSame
  BY <1>2, <1>3, <1>4, <1>32 DEF rvars
<1> QED
  BY <1>5, <1>6, <1>7, <1>8, <1>9, <1>10, <1>11, <1>12, <1>13, <1>14, <1>15, <1>16,
     <1>17, <1>18, <1>19, <1>20, <1>21, <1>22, <1>23, <1>24, <1>25, <1>26, <1>27,
     <1>28, <1>29, <1>30, <1>31, <1>32
  DEF RNext, ReadStep, MergeStep, RunStep, AWrite, AnOpen, ABuild, ANewLog, AMergeAdd,
      ACompactAdd

-----------------------------------------------------------------------------
(* What the invariant of ReaderTracker_proofs gives here *)

Apart ==
    /\ \A f \in Files, b \in Blocks : content[f][b] \in Nat
    /\ \A b \in Blocks : cur[b] \in Nat
    /\ \A b \in Blocks : Version(b) \in Nat
    /\ \A b \in Blocks : rangeMap[b] # 0 => rangeMap[b] \in 1..MaxIv /\ valueMap[rangeMap[b]] \in rs
    /\ opened \subseteq Files /\ rs \subseteq opened
    /\ PendingFiles \subseteq opened /\ WritingLogs \subseteq opened
    /\ run.pc # "removeWriter" => WritingLogs \cap (rs \cup PendingFiles) = {}
    /\ active \notin rs \cup PendingFiles
    /\ \A b \in Blocks : wr[b] # NoFile => /\ wr[b] \in WritingLogs
                                           /\ wr[b] \notin rs \cup PendingFiles

\* Everything that can be read is open, and the log being written is not indexed.
LEMMA HeldApart == RInv => Apart
<1> USE FilesAssumption, BoundsAssumption
<1> SUFFICES ASSUME RInv PROVE Apart
  OBVIOUS
<1>1. FilesOK /\ IndexOK /\ RunType /\ WritersShape /\ WritesHeld /\ FilesApart /\ IndexSound
  BY DEF RInv, RTypeOK, RTypes
<1>2. /\ \A f \in Files, b \in Blocks : content[f][b] \in Nat
      /\ \A b \in Blocks : cur[b] \in Nat
      /\ opened \subseteq Files
  BY <1>1 DEF FilesOK
<1>3. rs \subseteq opened /\ PendingFiles \subseteq opened
  BY <1>1 DEF FilesApart
<1>4. \A b \in Blocks : rangeMap[b] # 0 => rangeMap[b] \in 1..MaxIv /\ valueMap[rangeMap[b]] \in rs
  BY <1>1 DEF IndexOK, IndexSound
<1>5. \A b \in Blocks : Version(b) \in Nat
  BY <1>2, <1>3, <1>4 DEF Version
<1>6. /\ WritingLogs \subseteq opened
      /\ run.pc # "removeWriter" => WritingLogs \cap (rs \cup PendingFiles) = {}
      /\ active \notin rs \cup PendingFiles
  <2>1. active \notin rs \cup PendingFiles
    BY <1>1, <1>2, <1>3 DEF FilesApart, FilesOK
  <2>2. ASSUME NEW w \in WritingLogs
        PROVE  w \in opened /\ (run.pc # "removeWriter" => w \notin rs \cup PendingFiles)
    <3>1. CASE w = active
      BY <1>1, <2>1, <3>1 DEF FilesApart, WritingLogs, Files
    <3>2. CASE run.pc \in {"swap"} \cup InRotation /\ w = run.file
      BY <1>1, <3>2 DEF FilesApart, InRotation
    <3> QED
      BY <3>1, <3>2 DEF WritingLogs
  <2> QED
    BY <2>1, <2>2
<1>7. ASSUME NEW b \in Blocks, wr[b] # NoFile
      PROVE  wr[b] \in WritingLogs /\ wr[b] \notin rs \cup PendingFiles
  <2>1. CASE wr[b] = active
    BY <1>1, <1>6, <1>7, <2>1 DEF WritingLogs, FilesOK
  <2>2. CASE run.pc = "await" /\ wr[b] = run.file
    BY <1>1, <1>6, <1>7, <2>2 DEF WritingLogs, FilesOK, InRotation
  <2> QED
    BY <1>1, <1>7, <2>1, <2>2 DEF WritesHeld
<1> QED
  BY <1>2, <1>3, <1>4, <1>5, <1>6, <1>7 DEF Apart

\* The same before and after a step.
LEMMA HeldApartNext == RInv /\ [RNext]_rvars => Apart /\ Apart'
  BY HeldApart, RStepInv, PTL

\* The index leads to newer and newer versions: only the merge loop changes them.
LEMMA VersionStep ==
    ASSUME FInv, [RNext]_rvars, NEW b \in Blocks
    PROVE  \/ Version(b)' = Version(b)
           \/ /\ MergeAdd(b)
              /\ Version(b)' = content[Head(mg.files)][b]
              /\ Version(b)' > Version(b)
<1> USE FilesAssumption, BoundsAssumption
<1> DEFINE iv == rangeMap[b]
           f == valueMap[iv]
<1>1. RInv /\ IndexBelow /\ TableSame
  BY DEF FInv
<1>2. Apart
  BY <1>1, HeldApart
<1>3. /\ FilesOK /\ rangeMap \in [Blocks -> 0..MaxIv]
      /\ valueMap \in [1..MaxIv -> Files \cup {NoFile}]
      /\ IndexSound /\ CompactionShape /\ MergeShape /\ MergeType
  BY <1>1 DEF RInv, RTypeOK, RTypes, IndexOK
<1>4. iv # 0 => iv \in 1..MaxIv /\ f \in rs /\ f \in opened /\ f \in Files
  BY <1>2 DEF Apart
<1>5. ASSUME NEW a \in Blocks, NEW g \in rs, content' = content, AddBlock(g, a)
      PROVE  /\ a # b => Version(b)' = Version(b)
             /\ a = b => Version(b)' = content[g][b]
  <2>1. IvOf(g) \in 1..MaxIv /\ valueMap[IvOf(g)] = g
    BY <1>3, IvOfOnly
  <2>2. rangeMap' = [rangeMap EXCEPT ![a] = IvOf(g)] /\ valueMap' = valueMap
    BY <1>5 DEF AddBlock
  <2> QED
    BY <1>3, <1>5, <2>1, <2>2 DEF Version
<1>6. ASSUME NEW a \in Blocks, CompactAdd(a) PROVE Version(b)' = Version(b)
  <2>1. AddBlock(run.file, a) /\ content' = content /\ run.pc = "add" /\ a \in run.todo
    BY <1>6 DEF CompactAdd
  <2>2. run.file \in rs
    BY <1>3, <2>1 DEF CompactionShape
  <2>3. a = b => content[run.file][b] = Version(b)
    BY <1>1, <2>1 DEF TableSame
  <2> QED
    BY <1>5, <2>1, <2>2, <2>3
<1>7. ASSUME NEW a \in Blocks, MergeAdd(a)
      PROVE  \/ Version(b)' = Version(b)
             \/ /\ a = b
                /\ Version(b)' = content[Head(mg.files)][b]
                /\ Version(b)' > Version(b)
  <2>1. /\ AddBlock(Head(mg.files), a) /\ content' = content /\ mg.pc = "add" /\ a \in mg.todo
    BY <1>7 DEF MergeAdd
  <2>2. Head(mg.files) \in rs
    BY <1>3, <2>1 DEF MergeShape, MergeType
  <2>3. a = b => content[Head(mg.files)][b] > Version(b)
    BY <1>1, <2>1 DEF IndexBelow
  <2> QED
    BY <1>5, <2>1, <2>2, <2>3
<1>8. ASSUME MergeAlloc \/ CompactAlloc PROVE Version(b)' = Version(b)
  <2>1. content' = content /\ \E g : FetchOrAddValueIndex(g)
    BY <1>8 DEF MergeAlloc, CompactAlloc
  <2>2. PICK g : FetchOrAddValueIndex(g)
    BY <2>1
  <2>3. PICK k \in 1..MaxIv : /\ valueMap[k] = NoFile
                              /\ valueMap' = [valueMap EXCEPT ![k] = g]
                              /\ rangeMap' = rangeMap
    BY <2>2, Allocated
  <2>4. iv # 0 => valueMap'[iv] = valueMap[iv]
    BY <1>3, <1>4, <2>3
  <2> QED
    BY <2>1, <2>3, <2>4 DEF Version
<1>9. ASSUME RemoveTable PROVE Version(b)' = Version(b)
  <2>1. /\ run.pc = "barrier" /\ content' = content /\ rangeMap' = rangeMap
        /\ valueMap' = [valueMap EXCEPT ![IvOf(run.file)] = NoFile]
    BY <1>9 DEF RemoveTable
  <2>2. run.file \in rs /\ Live(run.file) = {}
    BY <1>3, <2>1 DEF CompactionShape
  <2>3. IvOf(run.file) \in 1..MaxIv /\ valueMap[IvOf(run.file)] = run.file
    BY <1>3, <2>2, IvOfOnly
  <2>4. iv # 0 => valueMap'[iv] = valueMap[iv]
    BY <1>3, <1>4, <2>1, <2>2, <2>3 DEF Live
  <2> QED
    BY <2>1, <2>4 DEF Version
<1>10. ASSUME NEW a \in Blocks, WriteDo(a) PROVE Version(b)' = Version(b)
  <2>1. /\ wr[a] # NoFile /\ rangeMap' = rangeMap /\ valueMap' = valueMap
        /\ content' = [content EXCEPT ![wr[a]][a] = cur[a] + 1]
    BY <1>10 DEF WriteDo
  <2>2. wr[a] \notin rs
    BY <1>2, <2>1 DEF Apart
  <2>3. iv # 0 => content'[f] = content[f]
    BY <1>3, <1>4, <2>1, <2>2 DEF FilesOK
  <2> QED
    BY <2>1, <2>3 DEF Version
<1>11. ASSUME UNCHANGED <<rangeMap, valueMap>>, SameFiles PROVE Version(b)' = Version(b)
  <2>1. iv # 0 => content'[f] = content[f]
    BY <1>4, <1>11 DEF SameFiles
  <2> QED
    BY <1>11, <2>1 DEF Version
<1> QED
  BY <1>1, <1>6, <1>7, <1>8, <1>9, <1>10, <1>11, Changes DEF AWrite, AMergeAdd, ACompactAdd

-----------------------------------------------------------------------------
(* How the layers move *)

\* m.writers as a set: PushWriter adds a log, RemoveWriter takes the old one out.
LEMMA WritingMoves ==
    ASSUME RInv, [RNext]_rvars
    PROVE  \/ WritingLogs' = WritingLogs
           \/ \E l \in Logs : PushWriter(l) /\ WritingLogs' = WritingLogs \cup {l}
           \/ RemoveWriter /\ WritingLogs = {active, run.file} /\ WritingLogs' = {active}
<1> USE FilesAssumption
<1>1. RunType /\ WritersShape /\ FilesOK
  BY DEF RInv, RTypes, RTypeOK
<1>2. ASSUME NEW l \in Logs, PushWriter(l) PROVE WritingLogs' = WritingLogs \cup {l}
  <2>1. /\ run.pc \in {"open", "idle"} /\ active' = active
        /\ run' = [run EXCEPT !.pc = "swap", !.file = l]
    BY <1>2 DEF PushWriter
  <2>2. run'.pc = "swap" /\ run'.file = l
    BY <1>1, <2>1 DEF RunType
  <2> QED
    BY <2>1, <2>2 DEF WritingLogs, InRotation
<1>3. ASSUME PushNewLog PROVE WritingLogs' = WritingLogs
  <2>1. /\ run.pc = "swap" /\ active' = run.file
        /\ run' = [run EXCEPT !.pc = IF active = NoFile THEN "idle" ELSE "await", !.file = active]
    BY <1>3 DEF PushNewLog
  <2>2. run'.pc = (IF active = NoFile THEN "idle" ELSE "await") /\ run'.file = active
    BY <1>1, <2>1 DEF RunType
  <2>3. active = NoFile => active \notin Logs
    BY DEF Files
  <2> QED
    BY <2>1, <2>2, <2>3 DEF WritingLogs, InRotation
<1>4. ASSUME WritesDone \/ PushReader PROVE WritingLogs' = WritingLogs
  <2>1. /\ run.pc \in {"await", "pushReader"} /\ active' = active
        /\ run'.pc \in {"pushReader", "removeWriter"} /\ run'.file = run.file
    BY <1>1, <1>4 DEF WritesDone, PushReader, RunType
  <2> QED
    BY <2>1 DEF WritingLogs, InRotation
<1>5. ASSUME RemoveWriter PROVE WritingLogs = {active, run.file} /\ WritingLogs' = {active}
  <2>1. run.pc = "removeWriter" /\ active' = active /\ run'.pc = "removeWait"
    BY <1>1, <1>5 DEF RemoveWriter, RunType
  <2>2. active \in Logs /\ run.file \in Logs
    BY <1>1, <2>1 DEF WritersShape, FilesOK, InRotation
  <2> QED
    BY <2>1, <2>2 DEF WritingLogs, InRotation
<1>6. ASSUME UNCHANGED active, RunSame \/ (run.pc \notin Rotating /\ run'.pc \notin Rotating)
      PROVE  WritingLogs' = WritingLogs
  BY <1>6 DEF WritingLogs, RunSame, Rotating
<1> QED
  BY <1>2, <1>3, <1>4, <1>5, <1>6, Changes DEF ANewLog

\* m.pendingReaders as a set.
LEMMA PendingMoves ==
    ASSUME RInv, [RNext]_rvars
    PROVE  \/ PendingFiles' = PendingFiles
           \/ MergeDrop /\ PendingFiles' = PendingFiles \ rs
           \/ \E f \in Files, bs \in SUBSET Blocks :
                  OpenPushReader(f, bs) /\ PendingFiles' = PendingFiles \cup {f}
           \/ PushReader /\ PendingFiles' = PendingFiles \cup {run.file}
<1>1. /\ pendingReaders \in Seq(Files) /\ PendingDistinct
      /\ run.pc = "pushReader" => run.file \in Files
  BY DEF RInv, RTypeOK, ListsOK, FilesApart, WritersShape, InRotation, Files
<1>2. MergeDrop => PendingFiles' = PendingFiles \ rs
  BY <1>1, Dropped
<1>3. ASSUME NEW f \in Files, NEW bs \in SUBSET Blocks, OpenPushReader(f, bs)
      PROVE  PendingFiles' = PendingFiles \cup {f}
  <2>1. PushReaderList(f)
    BY <1>3 DEF OpenPushReader
  <2> QED
    BY <1>1, <2>1, Pushed
<1>4. ASSUME PushReader PROVE PendingFiles' = PendingFiles \cup {run.file}
  <2>1. PushReaderList(run.file) /\ run.file \in Files
    BY <1>1, <1>4 DEF PushReader
  <2> QED
    BY <1>1, <2>1, Pushed
<1> QED
  BY <1>2, <1>3, <1>4, Changes, PendingSame DEF AnOpen

\* The versions of a block only grow.
LEMMA CurGrows ==
    ASSUME RInv, [RNext]_rvars, NEW b \in Blocks
    PROVE  cur'[b] >= cur[b]
<1>1. Apart /\ Apart' /\ FilesOK
  BY HeldApartNext DEF RInv, RTypeOK
<1>2. cur[b] \in Nat
  BY <1>1 DEF Apart
<1>3. ASSUME NEW a \in Blocks, WriteDo(a) PROVE cur'[b] >= cur[b]
  BY <1>1, <1>2, <1>3 DEF WriteDo, FilesOK
<1>4. ASSUME NEW f \in Files, NEW bs \in SUBSET Blocks, OpenPushReader(f, bs)
      PROVE  cur'[b] >= cur[b]
  <2>1. cur'[b] = content'[f][b] + IF b \in bs THEN 0 ELSE cur[b]
    BY <1>4 DEF OpenPushReader
  <2>2. content'[f][b] = IF b \in bs THEN cur[b] + 1 ELSE 0
    BY <1>1, <1>4 DEF OpenPushReader, FilesOK
  <2> QED
    BY <1>2, <2>1, <2>2
<1> QED
  BY <1>2, <1>3, <1>4, Changes DEF AWrite, AnOpen

\* A file stays newer than another unless a write is about to put a block of it
\* into the other.
LEMMA NewerKept ==
    ASSUME RInv, Bounded, [RNext]_rvars, NEW f \in opened, NEW g \in opened, f # g, Newer(g, f),
           \A a \in Blocks : wr[a] = f => content[g][a] = 0
    PROVE  Newer(g, f)'
<1>1. Apart /\ FilesOK
  BY HeldApart DEF RInv, RTypeOK
<1>2. ASSUME NEW a \in Blocks, WriteDo(a) PROVE Newer(g, f)'
  <2>1. wr[a] # NoFile /\ content' = [content EXCEPT ![wr[a]][a] = cur[a] + 1]
    BY <1>2 DEF WriteDo
  <2>2. f \in Files /\ g \in Files /\ wr[a] \in Files
    BY <1>1, <2>1 DEF Apart
  <2>3. SUFFICES ASSUME NEW b \in Blocks, content'[g][b] # 0, content'[f][b] # 0
                 PROVE  content'[g][b] > content'[f][b]
    BY DEF Newer
  <2>4. content[f][b] \in Nat /\ content[g][b] \in Nat /\ cur[b] \in Nat
    BY <1>1, <2>2 DEF Apart
  <2>5. CASE wr[a] = g /\ b = a
    BY <1>1, <2>1, <2>2, <2>4, <2>5 DEF Bounded, FilesOK
  <2>6. CASE wr[a] = f /\ b = a
    <3>1. content'[g][b] = content[g][b]
      BY <1>1, <2>1, <2>2, <2>6 DEF FilesOK
    <3> QED
      BY <2>3, <2>6, <3>1
  <2>7. CASE wr[a] \notin {f, g} \/ b # a
    <3>1. content'[g][b] = content[g][b] /\ content'[f][b] = content[f][b]
      BY <1>1, <2>1, <2>2, <2>7 DEF FilesOK
    <3> QED
      BY <2>3, <3>1 DEF Newer
  <2> QED
    BY <2>5, <2>6, <2>7
<1>3. SameFiles => Newer(g, f)'
  BY DEF SameFiles, Newer
<1> QED
  BY <1>2, <1>3, Changes DEF AWrite

-----------------------------------------------------------------------------
(* Every step preserves each part of the invariant *)

\* A write stores the next version, and a table copies versions.
LEMMA BoundedStep ==
    ASSUME FInv, [RNext]_rvars
    PROVE  Bounded'
<1>1. RInv /\ Bounded /\ Apart /\ FilesOK
  BY HeldApart DEF FInv, RInv, RTypeOK
<1> SUFFICES ASSUME NEW g \in Files, NEW b \in Blocks PROVE content'[g][b] <= cur'[b]
  BY DEF Bounded
<1>2. /\ content[g][b] \in Nat /\ cur[b] \in Nat /\ cur'[b] \in Nat
      /\ content[g][b] <= cur[b] /\ cur[b] <= cur'[b]
  BY <1>1, CurGrows, HeldApartNext DEF Apart, Bounded
<1>3. ASSUME NEW a \in Blocks, WriteDo(a) PROVE content'[g][b] <= cur'[b]
  <2>1. /\ wr[a] # NoFile /\ content' = [content EXCEPT ![wr[a]][a] = cur[a] + 1]
        /\ cur' = [cur EXCEPT ![a] = @ + 1]
    BY <1>3 DEF WriteDo
  <2>2. CASE wr[a] = g /\ b = a
    BY <1>1, <1>2, <2>1, <2>2 DEF FilesOK
  <2>3. CASE wr[a] # g \/ b # a
    BY <1>1, <1>2, <2>1, <2>3 DEF FilesOK
  <2> QED
    BY <2>2, <2>3
<1>4. ASSUME NEW f \in Files, NEW bs \in SUBSET Blocks, OpenPushReader(f, bs)
      PROVE  content'[g][b] <= cur'[b]
  <2>1. cur'[b] = content'[f][b] + IF b \in bs THEN 0 ELSE cur[b]
    BY <1>4 DEF OpenPushReader
  <2>2. /\ content'[f][b] = IF b \in bs THEN cur[b] + 1 ELSE 0
        /\ g # f => content'[g][b] = content[g][b]
    BY <1>1, <1>4 DEF OpenPushReader, FilesOK
  <2> QED
    BY <1>2, <2>1, <2>2
<1>5. ASSUME NEW l \in Logs, PushWriter(l) PROVE content'[g][b] <= cur'[b]
  <2>1. content' = [content EXCEPT ![l] = Hole]
    BY <1>5 DEF PushWriter
  <2> QED
    BY <1>1, <1>2, <2>1 DEF FilesOK, Hole
<1>6. ASSUME NEW t \in Tables, NEW es \in SUBSET Tables, BuildTable(t, es)
      PROVE  content'[g][b] <= cur'[b]
  <2>1. \/ content'[g][b] = content[g][b]
        \/ content'[g][b] = 0
        \/ rangeMap[b] # 0 /\ content'[g][b] = content[valueMap[rangeMap[b]]][b]
    BY <1>1, <1>6 DEF BuildTable, FilesOK, Live
  <2>2. rangeMap[b] # 0 => valueMap[rangeMap[b]] \in Files
    BY <1>1 DEF Apart
  <2>3. rangeMap[b] # 0 => /\ content[valueMap[rangeMap[b]]][b] <= cur[b]
                           /\ content[valueMap[rangeMap[b]]][b] \in Nat
    BY <1>1, <2>2 DEF Bounded, Apart
  <2> QED
    BY <1>2, <2>1, <2>3
<1> QED
  BY <1>1, <1>2, <1>3, <1>4, <1>5, <1>6, Changes DEF AWrite, AnOpen, ANewLog, ABuild

\* The order of the list: PushReader puts the newest file first, and the merge
\* loop drops files without moving the others.
LEMMA PendingOrderStep ==
    ASSUME FInv, [RNext]_rvars
    PROVE  PendingOrder'
<1> DEFINE Later(g, f) == \A b \in Blocks : content'[g][b] # 0 /\ content'[f][b] # 0
                                                => content'[g][b] > content'[f][b]
<1>1. /\ RInv /\ Bounded /\ PendingOrder /\ WritersOrder /\ Apart
      /\ FilesOK /\ pendingReaders \in Seq(Files) /\ PendingDistinct
  BY HeldApart DEF FInv, RInv, RTypeOK, ListsOK, FilesApart
<1>2. ASSUME NEW i \in DOMAIN pendingReaders, NEW j \in DOMAIN pendingReaders, i < j
      PROVE  Later(pendingReaders[i], pendingReaders[j])
  <2>1. PICK g, f : g = pendingReaders[i] /\ f = pendingReaders[j]
    OBVIOUS
  <2>2. /\ f \in PendingFiles /\ g \in PendingFiles /\ Newer(g, f)
    BY <1>1, <1>2, <2>1 DEF PendingOrder, PendingFiles
  <2>3. f # g
    BY <1>1, <1>2, <2>1 DEF PendingDistinct
  <2>4. f \in opened /\ g \in opened /\ \A a \in Blocks : wr[a] # f
    <3>1. f # NoFile
      BY <1>1, <2>2, FilesAssumption DEF Apart
    <3> QED
      BY <1>1, <2>2, <3>1 DEF Apart
  <2>5. Newer(g, f)'
    BY <1>1, <2>2, <2>3, <2>4, NewerKept
  <2> QED
    BY <2>1, <2>5 DEF Newer
<1>3. ASSUME UNCHANGED pendingReaders PROVE PendingOrder'
  BY <1>2, <1>3 DEF PendingOrder, Newer
<1>4. ASSUME MergeDrop PROVE PendingOrder'
  <2> DEFINE d == pendingReaders'
             n == Len(pendingReaders)
  <2>1. d = DeleteFunc(pendingReaders, rs)
    BY <1>4 DEF MergeDrop
  <2> HIDE DEF d
  <2>2. d \in Seq(Files) /\ Filtered(pendingReaders, n, rs, d)
    BY <1>1, <2>1, DeleteFuncFilters
  <2>3. DOMAIN pendingReaders = 1..n /\ DOMAIN d = 1..Len(d)
    BY <1>1, <2>2
  <2> HIDE DEF n
  <2>4. \A x, y \in DOMAIN d : x < y =>
            \E j, k \in 1..n : j < k /\ pendingReaders[j] = d[x] /\ pendingReaders[k] = d[y]
    BY <2>2, <2>3 DEF Filtered
  <2>5. ASSUME NEW a \in DOMAIN d, NEW b \in DOMAIN d, a < b PROVE Later(d[a], d[b])
    <3>1. PICK j \in 1..n, k \in 1..n :
              j < k /\ pendingReaders[j] = d[a] /\ pendingReaders[k] = d[b]
      BY <2>4, <2>5
    <3>2. Later(pendingReaders[j], pendingReaders[k])
      BY <1>2, <2>3, <3>1
    <3> QED
      BY <3>1, <3>2
  <2> QED
    BY <2>5 DEF PendingOrder, Newer, d
<1>5. ASSUME NEW f \in Files, PushReaderList(f), \A p \in PendingFiles : Later(f, p)
      PROVE  PendingOrder'
  <2> DEFINE n == Len(pendingReaders)
  <2>1. n \in Nat /\ DOMAIN pendingReaders = 1..n
    BY <1>1
  <2>2. pendingReaders' = <<f>> \o pendingReaders
    BY <1>5 DEF PushReaderList
  <2>3. /\ DOMAIN pendingReaders' = 1..(n + 1)
        /\ pendingReaders'[1] = f
        /\ \A i \in 2..(n + 1) : pendingReaders'[i] = pendingReaders[i - 1]
    BY <1>1, <2>2
  <2> HIDE DEF n, Later
  <2>4. ASSUME NEW i \in 1..(n + 1), NEW j \in 1..(n + 1), i < j
        PROVE  Later(pendingReaders'[i], pendingReaders'[j])
    <3>1. /\ j \in 2..(n + 1) /\ j - 1 \in 1..n
          /\ i = 1 \/ (i \in 2..(n + 1) /\ i - 1 \in 1..n /\ i - 1 < j - 1)
      BY <2>1, <2>4
    <3>2. pendingReaders'[j] = pendingReaders[j - 1] /\ pendingReaders[j - 1] \in PendingFiles
      BY <2>1, <2>3, <3>1 DEF PendingFiles
    <3>3. CASE i = 1
      BY <1>5, <2>3, <3>2, <3>3
    <3>4. CASE i # 1
      <4>1. Later(pendingReaders[i - 1], pendingReaders[j - 1])
        BY <1>2, <2>1, <3>1, <3>4
      <4> QED
        BY <2>3, <3>1, <3>2, <3>4, <4>1
    <3> QED
      BY <3>3, <3>4
  <2> QED
    BY <2>3, <2>4 DEF PendingOrder, Newer, Later
<1>6. ASSUME NEW f \in Files, NEW bs \in SUBSET Blocks, OpenPushReader(f, bs)
      PROVE  PendingOrder'
  <2>1. PushReaderList(f) /\ f \notin opened
    BY <1>6 DEF OpenPushReader
  <2>2. ASSUME NEW p \in PendingFiles PROVE Later(f, p)
    <3>1. p # f /\ p \in Files
      BY <1>1, <2>1 DEF Apart
    <3>2. /\ content'[p] = content[p]
          /\ \A b \in Blocks : content'[f][b] = IF b \in bs THEN cur[b] + 1 ELSE 0
      BY <1>1, <1>6, <3>1 DEF OpenPushReader, FilesOK
    <3>3. \A b \in Blocks : /\ content[p][b] <= cur[b]
                            /\ cur[b] \in Nat /\ content[p][b] \in Nat
      BY <1>1, <3>1 DEF Bounded, Apart
    <3> QED
      BY <3>2, <3>3
  <2> QED
    BY <1>5, <2>1, <2>2
<1>7. ASSUME PushReader PROVE PendingOrder'
  <2>1. PushReaderList(run.file) /\ run.pc = "pushReader" /\ content' = content
    BY <1>7 DEF PushReader
  <2>2. run.file \in WritingLogs /\ run.file \in Files
    BY <1>1, <2>1 DEF RInv, WritersShape, WritingLogs, InRotation, Files
  <2>3. \A p \in PendingFiles : p # run.file
    BY <1>1, <2>1, <2>2 DEF Apart
  <2>4. \A p \in PendingFiles : Later(run.file, p)
    BY <1>1, <2>1, <2>2, <2>3 DEF WritersOrder, Newer
  <2> QED
    BY <1>5, <2>1, <2>2, <2>4
<1> QED
  BY <1>1, <1>3, <1>4, <1>6, <1>7, Changes DEF AnOpen

\* The logs being written above the pending readers.
LEMMA WritersOrderStep ==
    ASSUME FInv, [RNext]_rvars
    PROVE  WritersOrder'
<1> USE FilesAssumption
<1>1. /\ RInv /\ Bounded /\ WritersOrder /\ Apart
      /\ FilesOK /\ WritersShape /\ WritesHeld /\ RunType /\ FilesApart
  BY HeldApart DEF FInv, RInv, RTypeOK, RTypes
<1>2. \A w \in WritingLogs', p \in PendingFiles' : p # w => Newer(w, p)'
  <2> SUFFICES ASSUME NEW w \in WritingLogs', NEW p \in PendingFiles', p # w
               PROVE  Newer(w, p)'
    OBVIOUS
  <2>1. ASSUME w \in WritingLogs, p \in PendingFiles PROVE Newer(w, p)'
    <3>1. p \in opened /\ w \in opened /\ \A a \in Blocks : wr[a] # p
      BY <1>1, <2>1 DEF Apart
    <3>2. Newer(w, p)
      BY <1>1, <2>1 DEF WritersOrder
    <3> QED
      BY <1>1, <3>1, <3>2, NewerKept
  <2>2. ASSUME NEW l \in Logs, PushWriter(l), w = l PROVE Newer(w, p)'
    <3>1. \A b \in Blocks : content'[l][b] = 0
      BY <1>1, <2>2 DEF PushWriter, FilesOK, Hole, Files
    <3> QED
      BY <2>2, <3>1 DEF Newer
  <2>3. ASSUME NEW f \in Files, NEW bs \in SUBSET Blocks, OpenPushReader(f, bs) PROVE FALSE
    <3>1. run.pc = "open" /\ active' = active /\ run' = run
      BY <2>3 DEF OpenPushReader
    <3> QED
      BY <1>1, <3>1 DEF WritersShape, WritingLogs, InRotation, Files
  <2>4. ASSUME PushReader, p = run.file PROVE Newer(w, p)'
    <3>1. /\ run.pc = "pushReader" /\ content' = content /\ active' = active
          /\ run'.file = run.file
      BY <1>1, <2>4 DEF PushReader, RunType
    <3>2. w = active
      BY <2>4, <3>1 DEF WritingLogs
    <3>3. Newer(w, p)
      BY <1>1, <2>4, <3>1, <3>2 DEF WritersOrder, InRotation
    <3> QED
      BY <3>1, <3>3 DEF Newer
  <2>5. p \in PendingFiles \/ (PushReader /\ p = run.file)
    BY <1>1, <2>3, PendingMoves
  <2>6. \/ w \in WritingLogs
        \/ \E l \in Logs : PushWriter(l) /\ w = l
    BY <1>1, WritingMoves
  <2> QED
    BY <2>1, <2>2, <2>4, <2>5, <2>6
<1>3. ASSUME run'.pc \in InRotation PROVE Newer(active, run.file)'
  <2>1. CASE PushNewLog
    <3>1. run.pc = "swap" /\ active' = run.file /\ content' = content
      BY <2>1 DEF PushNewLog
    <3> QED
      BY <1>1, <3>1 DEF Newer, WritersOrder
  <2>2. ASSUME run.pc \in InRotation, active' = active, run'.file = run.file
        PROVE  Newer(active, run.file)'
    <3>1. PICK g, f : g = active /\ f = run.file
      OBVIOUS
    <3>2. g \in opened /\ f \in opened /\ f # g /\ Newer(g, f) /\ f # NoFile
      BY <1>1, <2>2, <3>1 DEF WritersShape, FilesApart, WritersOrder, InRotation, Files
    <3>3. \A a \in Blocks : wr[a] = f => content[g][a] = 0
      BY <1>1, <3>1, <3>2 DEF WritesHeld, WritersOrder
    <3>4. Newer(g, f)'
      BY <1>1, <3>2, <3>3, NewerKept
    <3> QED
      BY <2>2, <3>1, <3>4 DEF Newer
  <2>3. CASE WritesDone \/ PushReader
    <3>1. run.pc \in InRotation /\ active' = active /\ run'.file = run.file
      BY <1>1, <2>3 DEF WritesDone, PushReader, RunType, InRotation
    <3> QED
      BY <2>2, <3>1
  <2>4. ASSUME NEW l \in Logs, PushWriter(l) PROVE FALSE
    BY <1>1, <1>3, <2>4 DEF PushWriter, RunType, InRotation
  <2>5. CASE RemoveWriter
    BY <1>1, <1>3, <2>5 DEF RemoveWriter, RunType, InRotation
  <2>6. CASE RunSame /\ UNCHANGED active
    BY <1>3, <2>2, <2>6 DEF RunSame
  <2>7. CASE run'.pc \notin Rotating
    BY <1>3, <2>7 DEF Rotating
  <2> QED
    BY <1>1, <2>1, <2>3, <2>4, <2>5, <2>6, <2>7, Changes DEF ANewLog
<1>4. ASSUME run'.pc = "swap" PROVE \A b \in Blocks : content'[run'.file][b] = 0
  <2>1. ASSUME NEW l \in Logs, PushWriter(l)
        PROVE  \A b \in Blocks : content'[run'.file][b] = 0
    BY <1>1, <2>1 DEF PushWriter, RunType, FilesOK, Hole, Files
  <2>2. CASE RunSame
    <3>1. run.pc = "swap" /\ run'.file = run.file
      BY <1>4, <2>2 DEF RunSame
    <3>2. run.file \in Logs \ {active} /\ run.file \in opened /\ run.file \in Files
      BY <1>1, <3>1 DEF WritersShape, FilesApart, Files
    <3>3. \A b \in Blocks : wr[b] # run.file
      BY <1>1, <3>1, <3>2 DEF WritesHeld, Files
    <3>4. content'[run.file] = content[run.file]
      <4>1. ASSUME NEW a \in Blocks, WriteDo(a) PROVE content'[run.file] = content[run.file]
        BY <1>1, <3>2, <3>3, <4>1 DEF WriteDo, FilesOK
      <4> QED
        BY <1>1, <3>2, <4>1, Changes DEF AWrite, SameFiles
    <3> QED
      BY <1>1, <3>1, <3>4 DEF WritersOrder
  <2>3. CASE PushNewLog \/ WritesDone \/ PushReader \/ RemoveWriter
    BY <1>1, <1>4, <2>3 DEF PushNewLog, WritesDone, PushReader, RemoveWriter, RunType
  <2>4. CASE run'.pc \notin Rotating
    BY <1>4, <2>4 DEF Rotating
  <2> QED
    BY <1>1, <2>1, <2>2, <2>3, <2>4, Changes DEF ANewLog
<1>5. ASSUME run'.pc = "await", NEW b \in Blocks, wr'[b] = run'.file
      PROVE  content'[active'][b] = 0
  <2>1. CASE PushNewLog
    <3>1. run.pc = "swap" /\ active' = run.file /\ content' = content
      BY <2>1 DEF PushNewLog
    <3> QED
      BY <1>1, <3>1 DEF WritersOrder
  <2>2. CASE RunSame /\ UNCHANGED active
    <3>1. run.pc = "await" /\ run'.file = run.file /\ active' = active
      BY <1>5, <2>2 DEF RunSame
    <3>2. run.file \in Logs \ {active} /\ active \in opened /\ active \in Files
      BY <1>1, <3>1 DEF WritersShape, FilesApart, InRotation, FilesOK, Files
    <3>3. \/ wr'[b] = wr[b] /\ content'[active][b] = content[active][b]
          \/ wr'[b] \in {active, NoFile}
      <4>1. ASSUME NEW a \in Blocks, WriteDo(a)
            PROVE  \/ wr'[b] = wr[b] /\ content'[active][b] = content[active][b]
                   \/ wr'[b] = NoFile
        BY <1>1, <3>2, <4>1 DEF WriteDo, FilesOK
      <4>2. ASSUME NEW a \in Blocks, WriteStart(a)
            PROVE  \/ wr'[b] = wr[b] /\ content'[active][b] = content[active][b]
                   \/ wr'[b] = active
        BY <1>1, <3>2, <4>2 DEF WriteStart, FilesOK
      <4>3. SameFiles => content'[active][b] = content[active][b]
        BY <3>2 DEF SameFiles
      <4> QED
        BY <1>1, <4>1, <4>2, <4>3, Changes DEF AWrite
    <3> QED
      BY <1>1, <1>5, <3>1, <3>2, <3>3 DEF WritersOrder, Files
  <2>3. ASSUME NEW l \in Logs, PushWriter(l) PROVE FALSE
    BY <1>1, <1>5, <2>3 DEF PushWriter, RunType
  <2>4. CASE WritesDone \/ PushReader \/ RemoveWriter
    BY <1>1, <1>5, <2>4 DEF WritesDone, PushReader, RemoveWriter, RunType
  <2>5. CASE run'.pc \notin Rotating
    BY <1>5, <2>5 DEF Rotating, InRotation
  <2> QED
    BY <1>1, <2>1, <2>2, <2>3, <2>4, <2>5, Changes DEF ANewLog
<1> QED
  BY <1>2, <1>3, <1>4, <1>5 DEF WritersOrder

\* The readers that the merge loop has copied leave that list for the index.
LEMMA TakenMoves ==
    ASSUME RInv, mg.pc \in {"check", "wait"} => mg.files = <<>>, [RNext]_rvars
    PROVE  /\ MergeFiles \subseteq PendingFiles
           /\ \/ Taken' = Taken /\ MergeFiles' \subseteq MergeFiles
              \/ /\ MergeCheck /\ MergeFiles' = PendingFiles
                 /\ UNCHANGED <<pendingReaders, rs>>
              \/ /\ PendingFiles = {} /\ PendingFiles' = {} /\ MergeFiles' = {}
                 /\ run.pc \in InCompaction
<1>1. /\ MergeType /\ MergeShape /\ IndexFrozen /\ CompactionShape /\ PendingDistinct
      /\ pendingReaders \in Seq(Files)
  BY DEF RInv, RTypes, RTypeOK, ListsOK, FilesApart
<1>2. mg.files \in Seq(Files)
  BY <1>1 DEF MergeType
<1>3. MergeFiles \subseteq PendingFiles
  BY <1>1, <1>2 DEF MergeType, MergeShape, MergeFiles
<1>4. ASSUME MergeCheck
      PROVE  \/ Taken' = Taken /\ MergeFiles' \subseteq MergeFiles
             \/ MergeFiles' = PendingFiles /\ UNCHANGED <<pendingReaders, rs>>
  <2>1. UNCHANGED <<pendingReaders, rs>>
    BY <1>4 DEF MergeCheck
  <2>2. CASE mg' = mg
    BY <2>1, <2>2 DEF Taken, MergeFiles
  <2>3. CASE mg' # mg
    <3> DEFINE n == Len(pendingReaders)
               s == mg'.files
    <3>1. n \in Nat /\ DOMAIN pendingReaders = 1..n
      BY <1>1
    <3>2. s = Reverse(pendingReaders)
      BY <1>1, <1>4, <2>3 DEF MergeCheck, MergeType
    <3>3. s = [i \in 1..n |-> pendingReaders[(n - i) + 1]]
      BY <3>2 DEF Reverse
    <3> HIDE DEF n, s
    <3>4. \A i \in 1..n : (n - i) + 1 \in 1..n /\ (n - ((n - i) + 1)) + 1 = i
      BY <3>1
    <3>5. {s[i] : i \in DOMAIN s} = {pendingReaders[i] : i \in DOMAIN pendingReaders}
      <4>1. DOMAIN s = 1..n /\ \A i \in 1..n : s[i] = pendingReaders[(n - i) + 1]
        BY <3>3
      <4>2. ASSUME NEW i \in 1..n PROVE \E k \in 1..n : pendingReaders[k] = s[i]
        BY <3>4, <4>1
      <4>3. ASSUME NEW i \in 1..n PROVE \E k \in 1..n : s[k] = pendingReaders[i]
        <5>1. s[(n - i) + 1] = pendingReaders[i] /\ (n - i) + 1 \in 1..n
          BY <3>4, <4>1
        <5> QED
          BY <5>1
      <4>4. {s[i] : i \in 1..n} \subseteq {pendingReaders[i] : i \in 1..n}
        BY <4>2
      <4>5. {pendingReaders[i] : i \in 1..n} \subseteq {s[i] : i \in 1..n}
        BY <4>3
      <4> QED
        BY <3>1, <4>1, <4>4, <4>5
    <3> QED
      BY <2>1, <3>5 DEF MergeFiles, PendingFiles, s
  <2> QED
    BY <2>1, <2>2, <2>3
<1>5. ASSUME MergeAlloc PROVE Taken' = Taken /\ MergeFiles' \subseteq MergeFiles
  <2>1. /\ mg.files # <<>> /\ rs' = rs \cup {Head(mg.files)} /\ mg'.files = mg.files
    BY <1>1, <1>5 DEF MergeAlloc, FetchOrAddValueIndex, MergeType
  <2>2. Head(mg.files) \in MergeFiles
    BY <1>2, <2>1 DEF MergeFiles
  <2> QED
    BY <2>1, <2>2 DEF Taken, MergeFiles
<1>6. ASSUME NEW a \in Blocks, MergeAdd(a) PROVE Taken' = Taken /\ MergeFiles' \subseteq MergeFiles
  <2>1. rs' = rs /\ mg'.files = mg.files
    BY <1>1, <1>6 DEF MergeAdd, AddBlock, MergeType
  <2> QED
    BY <2>1 DEF Taken, MergeFiles
<1>7. ASSUME MergeNext PROVE Taken' = Taken /\ MergeFiles' \subseteq MergeFiles
  <2> DEFINE s == mg.files
             t == mg'.files
             n == Len(mg.files)
  <2>1. mg.pc = "add" /\ rs' = rs /\ t = Tail(s) /\ s # <<>>
    BY <1>1, <1>7 DEF MergeNext, MergeType, MergeShape
  <2>2. /\ n \in Nat /\ DOMAIN s = 1..n /\ 1 \in 1..n
        /\ DOMAIN t = 1..(n - 1)
        /\ \A i \in 1..(n - 1) : t[i] = s[i + 1]
    BY <1>2, <2>1
  <2>3. s[1] \in rs
    BY <1>1, <2>1, <2>2 DEF MergeShape
  <2> HIDE DEF s, t, n
  <2>4. ASSUME NEW i \in 1..n PROVE s[i] \in rs \/ \E k \in 1..(n - 1) : t[k] = s[i]
    <3>1. CASE i = 1
      BY <2>3, <3>1
    <3>2. CASE i # 1
      <4>1. i - 1 \in 1..(n - 1) /\ (i - 1) + 1 = i
        BY <2>2, <3>2
      <4> QED
        BY <2>2, <4>1
    <3> QED
      BY <3>1, <3>2
  <2>5. ASSUME NEW i \in 1..(n - 1) PROVE \E k \in 1..n : s[k] = t[i]
    <3>1. i + 1 \in 1..n
      BY <2>2
    <3> QED
      BY <2>2, <3>1
  <2>6. {t[i] : i \in DOMAIN t} \subseteq {s[i] : i \in DOMAIN s}
    BY <2>2, <2>5
  <2>7. {s[i] : i \in DOMAIN s} \subseteq rs \cup {t[i] : i \in DOMAIN t}
    BY <2>2, <2>4
  <2>8. rs \cup {s[i] : i \in DOMAIN s} = rs \cup {t[i] : i \in DOMAIN t}
    BY <2>6, <2>7
  <2> QED
    BY <2>1, <2>6, <2>8 DEF Taken, MergeFiles, s, t
<1>8. ASSUME MergeDrop \/ MergeWaited PROVE Taken' = Taken /\ MergeFiles' \subseteq MergeFiles
  <2>1. rs' = rs /\ mg'.files = mg.files
    <3>1. MergeDrop => rs' = rs /\ mg'.files = mg.files
      BY <1>1 DEF MergeDrop, MergeType
    <3>2. MergeWaited => rs' = rs /\ mg.files = <<>> /\ mg'.files = <<>>
      BY DEF MergeWaited, IdleMerge
    <3> QED
      BY <1>8, <3>1, <3>2
  <2> QED
    BY <2>1 DEF Taken, MergeFiles
<1>9. ASSUME CompactAlloc \/ RemoveTable
      PROVE  /\ PendingFiles = {} /\ PendingFiles' = {} /\ MergeFiles' = {}
             /\ run.pc \in InCompaction
  <2>1. run.pc \in {"alloc", "barrier"} /\ UNCHANGED <<pendingReaders, mg>>
    BY <1>9 DEF CompactAlloc, RemoveTable
  <2>2. run.pc \in InCompaction
    BY <2>1 DEF InCompaction
  <2>3. pendingReaders = <<>>
    BY <1>1, <2>2 DEF CompactionShape, IndexFrozen
  <2>4. PendingFiles = {}
    BY <2>3 DEF PendingFiles
  <2> QED
    BY <1>3, <2>1, <2>2, <2>4 DEF PendingFiles, MergeFiles
<1>10. ASSUME MergeSame, UNCHANGED rs PROVE Taken' = Taken /\ MergeFiles' \subseteq MergeFiles
  BY <1>10 DEF MergeSame, Taken, MergeFiles
<1> QED
  BY <1>3, <1>4, <1>5, <1>6, <1>7, <1>8, <1>9, <1>10, Changes DEF AMergeAdd

\* The merge loop goes from old to new, also past readers pushed meanwhile.
LEMMA MergeOrderStep ==
    ASSUME FInv, [RNext]_rvars
    PROVE  MergeOrder'
<1> USE FilesAssumption
<1> DEFINE Later(g, f) == \A b \in Blocks : content'[g][b] # 0 /\ content'[f][b] # 0
                                                => content'[g][b] > content'[f][b]
<1>1. /\ RInv /\ Bounded /\ PendingOrder /\ WritersOrder /\ MergeOrder /\ Apart
      /\ FilesOK /\ MergeType /\ MergeShape /\ FilesApart /\ PendingDistinct
      /\ pendingReaders \in Seq(Files)
  BY HeldApart DEF FInv, RInv, RTypeOK, RTypes, ListsOK, FilesApart
<1>2. /\ mg.files \in Seq(Files)
      /\ mg.pc \in {"check", "wait"} => mg.files = <<>>
  BY <1>1 DEF MergeType, MergeOrder
<1>3. /\ MergeFiles \subseteq PendingFiles
      /\ \/ Taken' = Taken /\ MergeFiles' \subseteq MergeFiles
         \/ MergeFiles' = PendingFiles /\ UNCHANGED <<pendingReaders, rs>>
         \/ PendingFiles' = {}
  BY <1>1, <1>2, TakenMoves
<1>4. ASSUME mg'.pc \in {"check", "wait"} PROVE mg'.files = <<>>
  <2>1. CASE MergeSame
    BY <1>2, <1>4, <2>1 DEF MergeSame
  <2>2. CASE MergeCheck
    BY <1>1, <1>2, <1>4, <2>2 DEF MergeCheck, MergeType
  <2>3. CASE MergeAlloc \/ MergeNext
    BY <1>1, <1>4, <2>3 DEF MergeAlloc, MergeNext, MergeType
  <2>4. ASSUME NEW a \in Blocks, MergeAdd(a) PROVE FALSE
    BY <1>1, <1>4, <2>4 DEF MergeAdd, MergeType
  <2>5. CASE MergeDrop \/ MergeWaited
    <3>1. MergeDrop => mg'.files = <<>>
      BY <1>1 DEF MergeDrop, MergeType
    <3>2. MergeWaited => mg'.files = <<>>
      BY DEF MergeWaited, IdleMerge
    <3> QED
      BY <2>5, <3>1, <3>2
  <2> QED
    BY <1>1, <2>1, <2>2, <2>3, <2>4, <2>5, Changes DEF AMergeAdd
<1>5. ASSUME NEW i \in DOMAIN mg.files, NEW j \in DOMAIN mg.files, i < j
      PROVE  Later(mg.files[j], mg.files[i])
  <2>1. PICK g, f : g = mg.files[j] /\ f = mg.files[i]
    OBVIOUS
  <2>2. Newer(g, f)
    BY <1>1, <1>5, <2>1 DEF MergeOrder
  <2>3. mg.files # <<>> /\ i # j
    BY <1>2, <1>5
  <2>4. f # g /\ f \in PendingFiles /\ g \in PendingFiles
    BY <1>1, <1>2, <1>5, <2>1, <2>3 DEF MergeShape, MergeType
  <2>5. f \in opened /\ g \in opened /\ \A a \in Blocks : wr[a] # f
    BY <1>1, <2>4 DEF Apart
  <2>6. Newer(g, f)'
    BY <1>1, <2>2, <2>4, <2>5, NewerKept
  <2> QED
    BY <2>1, <2>6 DEF Newer
<1>6. ASSUME NEW i \in DOMAIN mg'.files, NEW j \in DOMAIN mg'.files, i < j
      PROVE  Later(mg'.files[j], mg'.files[i])
  <2> HIDE DEF Later
  <2>1. CASE mg'.files = mg.files
    BY <1>5, <1>6, <2>1
  <2>2. CASE mg'.files = Reverse(pendingReaders) /\ content' = content
    <3> DEFINE n == Len(pendingReaders)
    <3>1. n \in Nat /\ DOMAIN pendingReaders = 1..n
      BY <1>1
    <3>2. mg'.files = [k \in 1..n |-> pendingReaders[(n - k) + 1]]
      BY <2>2 DEF Reverse
    <3> HIDE DEF n
    <3>3. i \in 1..n /\ j \in 1..n
      BY <1>6, <3>2
    <3>4. (n - j) + 1 \in 1..n /\ (n - i) + 1 \in 1..n /\ (n - j) + 1 < (n - i) + 1
      BY <1>6, <3>1, <3>3
    <3>5. Newer(pendingReaders[(n - j) + 1], pendingReaders[(n - i) + 1])
      BY <1>1, <3>1, <3>4 DEF PendingOrder
    <3> QED
      BY <2>2, <3>2, <3>3, <3>5 DEF Newer, Later
  <2>3. CASE MergeNext
    <3> DEFINE n == Len(mg.files)
    <3>1. mg'.files = Tail(mg.files) /\ mg.files # <<>>
      BY <1>1, <2>3 DEF MergeNext, MergeType, MergeShape
    <3>2. /\ n \in Nat /\ DOMAIN mg.files = 1..n /\ DOMAIN mg'.files = 1..(n - 1)
          /\ \A k \in 1..(n - 1) : mg'.files[k] = mg.files[k + 1]
      BY <1>2, <3>1
    <3> HIDE DEF n
    <3>3. i \in 1..(n - 1) /\ j \in 1..(n - 1)
      BY <1>6, <3>2
    <3>4. i + 1 \in 1..n /\ j + 1 \in 1..n /\ i + 1 < j + 1
      BY <1>6, <3>2, <3>3
    <3>5. Later(mg.files[j + 1], mg.files[i + 1])
      BY <1>5, <3>2, <3>4
    <3> QED
      BY <3>2, <3>3, <3>5
  <2>4. CASE MergeCheck
    BY <1>1, <2>1, <2>2, <2>4 DEF MergeCheck, MergeType
  <2>5. CASE MergeAlloc
    BY <1>1, <2>1, <2>5 DEF MergeAlloc, MergeType
  <2>6. ASSUME NEW a \in Blocks, MergeAdd(a) PROVE mg'.files = mg.files
    BY <1>1, <2>6 DEF MergeAdd, MergeType
  <2>7. CASE MergeDrop \/ MergeWaited
    <3>1. MergeDrop => mg'.files = mg.files
      BY <1>1 DEF MergeDrop, MergeType
    <3>2. MergeWaited => mg.files = <<>> /\ mg'.files = <<>>
      BY <1>2 DEF MergeWaited, IdleMerge
    <3> QED
      BY <2>1, <2>7, <3>1, <3>2
  <2>8. CASE MergeSame
    BY <2>1, <2>8 DEF MergeSame
  <2> QED
    BY <1>1, <2>1, <2>3, <2>4, <2>5, <2>6, <2>7, <2>8, Changes DEF AMergeAdd
<1>7. \A g \in PendingFiles' \ Taken', h \in MergeFiles' : Newer(g, h)'
  <2> SUFFICES ASSUME NEW g \in PendingFiles' \ Taken', NEW h \in MergeFiles'
               PROVE  Newer(g, h)'
    OBVIOUS
  <2>1. CASE MergeFiles' = PendingFiles /\ UNCHANGED <<pendingReaders, rs>>
    <3>1. PendingFiles' = PendingFiles /\ MergeFiles' \subseteq Taken'
      BY <2>1 DEF PendingFiles, Taken
    <3> QED
      BY <2>1, <3>1
  <2>2. CASE Taken' = Taken /\ MergeFiles' \subseteq MergeFiles
    <3>1. h \in MergeFiles /\ h \in PendingFiles /\ g \notin Taken /\ h \in Taken /\ g # h
      BY <1>3, <2>2 DEF Taken
    <3>2. h \in opened /\ h \in Files /\ \A a \in Blocks : wr[a] # h
      BY <1>1, <3>1 DEF Apart
    <3>3. CASE g \in PendingFiles
      <4>1. Newer(g, h) /\ g \in opened
        BY <1>1, <3>1, <3>3 DEF MergeOrder, Apart
      <4> QED
        BY <1>1, <3>1, <3>2, <4>1, NewerKept
    <3>4. ASSUME NEW f \in Files, NEW bs \in SUBSET Blocks, OpenPushReader(f, bs), g = f
          PROVE  Newer(g, h)'
      <4>1. /\ content'[h] = content[h]
            /\ \A b \in Blocks : content'[f][b] = IF b \in bs THEN cur[b] + 1 ELSE 0
        BY <1>1, <3>1, <3>2, <3>4 DEF OpenPushReader, FilesOK
      <4>2. \A b \in Blocks : /\ content[h][b] <= cur[b]
                              /\ cur[b] \in Nat /\ content[h][b] \in Nat
        BY <1>1, <3>2 DEF Bounded, Apart
      <4> QED
        BY <3>4, <4>1, <4>2 DEF Newer
    <3>5. ASSUME PushReader, g = run.file PROVE Newer(g, h)'
      <4>1. run.pc = "pushReader" /\ content' = content
        BY <3>5 DEF PushReader
      <4>2. run.file \in WritingLogs
        BY <1>1, <4>1 DEF RInv, WritersShape, WritingLogs, InRotation
      <4>3. Newer(g, h)
        BY <1>1, <3>1, <3>5, <4>2 DEF WritersOrder
      <4> QED
        BY <4>1, <4>3 DEF Newer
    <3> QED
      BY <1>1, <3>3, <3>4, <3>5, PendingMoves
  <2>3. CASE PendingFiles' = {}
    BY <2>3
  <2> QED
    BY <1>3, <2>1, <2>2, <2>3
<1> QED
  BY <1>4, <1>6, <1>7 DEF MergeOrder, Newer

\* The log that RemoveWriter takes out is still reachable.
LEMMA RotationHeldStep ==
    ASSUME FInv, [RNext]_rvars
    PROVE  RotationHeld'
<1>1. /\ RInv /\ MergeOrder /\ RotationHeld /\ Apart
      /\ MergeType /\ FilesApart /\ RunType
  BY HeldApart DEF FInv, RInv, RTypes
<1>2. mg.pc \in {"check", "wait"} => mg.files = <<>>
  BY <1>1 DEF MergeOrder
<1> SUFFICES ASSUME run'.pc = "removeWriter" PROVE RotationHeld'
  BY DEF RotationHeld
<1>3. /\ MergeFiles \subseteq PendingFiles
      /\ \/ Taken' = Taken
         \/ MergeFiles' = PendingFiles /\ UNCHANGED <<pendingReaders, rs>>
         \/ run.pc \in InCompaction
  BY <1>1, <1>2, TakenMoves
<1>4. CASE PushReader
  <2>1. run.pc = "pushReader" /\ run'.file = run.file /\ UNCHANGED <<rs, mg>>
    BY <1>1, <1>4 DEF PushReader, RunType
  <2>2. run.file \notin rs \cup PendingFiles /\ PendingFiles' = PendingFiles \cup {run.file}
    <3>1. /\ run.file \notin rs \cup PendingFiles /\ run.file \in Files
          /\ pendingReaders \in Seq(Files) /\ PushReaderList(run.file)
      BY <1>1, <1>4, <2>1 DEF FilesApart, PushReader, RInv, RTypeOK, ListsOK, FilesOK
    <3> QED
      BY <3>1, Pushed
  <2>3. run.file \notin Taken'
    BY <1>3, <2>1, <2>2 DEF Taken, MergeFiles
  <2> QED
    BY <2>1, <2>2, <2>3 DEF RotationHeld
<1>5. CASE RunSame
  <2>1. run.pc = "removeWriter" /\ run'.file = run.file
    BY <1>5 DEF RunSame
  <2>2. ASSUME MergeDrop, PendingFiles' = PendingFiles \ rs PROVE RotationHeld'
    <3>1. mg.files = <<>> /\ mg'.files = mg.files /\ rs' = rs
      BY <1>1, <2>2 DEF MergeDrop, MergeType
    <3>2. Taken = rs /\ Taken' = rs
      BY <3>1 DEF Taken, MergeFiles
    <3> QED
      BY <1>1, <2>1, <2>2, <3>1, <3>2 DEF RotationHeld
  <2>3. ASSUME PendingFiles' = PendingFiles PROVE RotationHeld'
    <3>1. rs \subseteq rs'
      <4>1. MergeAlloc \/ CompactAlloc => rs \subseteq rs'
        BY DEF MergeAlloc, CompactAlloc, FetchOrAddValueIndex
      <4>2. ~RemoveTable
        BY <2>1 DEF RemoveTable
      <4> QED
        BY <1>1, <4>1, <4>2, Changes
    <3>2. CASE Taken' = Taken
      BY <1>1, <2>1, <2>3, <3>1, <3>2 DEF RotationHeld
    <3>3. CASE MergeFiles' = PendingFiles /\ UNCHANGED <<pendingReaders, rs>>
      <4>1. PendingFiles' \subseteq Taken'
        BY <2>3, <3>3 DEF Taken
      <4> QED
        BY <1>1, <2>1, <2>3, <3>1, <4>1 DEF RotationHeld
    <3>4. run.pc \notin InCompaction
      BY <2>1 DEF InCompaction
    <3> QED
      BY <1>3, <3>2, <3>3, <3>4
  <2>4. ASSUME NEW f \in Files, NEW bs \in SUBSET Blocks, OpenPushReader(f, bs) PROVE FALSE
    BY <2>1, <2>4 DEF OpenPushReader
  <2>5. ~PushReader
    BY <2>1 DEF PushReader
  <2> QED
    BY <1>1, <2>2, <2>3, <2>4, <2>5, PendingMoves
<1>6. ASSUME NEW l \in Logs, PushWriter(l) PROVE FALSE
  BY <1>1, <1>6 DEF PushWriter, RunType
<1>7. ~PushNewLog /\ ~WritesDone /\ ~RemoveWriter
  BY <1>1 DEF PushNewLog, WritesDone, RemoveWriter, RunType
<1>8. run'.pc \in Rotating
  BY DEF Rotating, InRotation
<1> QED
  BY <1>1, <1>4, <1>5, <1>6, <1>7, <1>8, Changes DEF ANewLog

-----------------------------------------------------------------------------
(* The index against the layers above it *)

\* A file without writes in flight keeps what it holds.
LEMMA FileKept ==
    ASSUME RInv, [RNext]_rvars, NEW f \in opened, \A a \in Blocks : wr[a] # f
    PROVE  content'[f] = content[f]
<1>1. FilesOK /\ Apart
  BY HeldApart DEF RInv, RTypeOK
<1>2. ASSUME NEW a \in Blocks, WriteDo(a) PROVE content'[f] = content[f]
  BY <1>1, <1>2 DEF WriteDo, FilesOK, Apart
<1> QED
  BY <1>2, Changes DEF AWrite, SameFiles

\* The index has no version that has not been written.
LEMMA VersionBounded ==
    ASSUME RInv, Bounded, NEW b \in Blocks
    PROVE  Version(b) <= cur[b]
<1>1. Apart
  BY HeldApart
<1>2. cur[b] \in Nat /\ (rangeMap[b] # 0 => valueMap[rangeMap[b]] \in Files)
  BY <1>1 DEF Apart
<1> QED
  BY <1>2 DEF Version, Bounded

\* The version of a block in the index never goes back.
LEMMA VersionGrows ==
    ASSUME FInv, [RNext]_rvars, NEW b \in Blocks
    PROVE  Version(b)' >= Version(b)
<1>1. Apart /\ Apart'
  BY HeldApartNext DEF FInv
<1>2. Version(b) \in Nat /\ Version(b)' \in Nat
  BY <1>1 DEF Apart
<1> QED
  BY <1>2, VersionStep

\* The file that the merge loop is adding.
LEMMA HeadAdded ==
    ASSUME RInv, mg.pc = "add"
    PROVE  /\ mg.files # <<>> /\ 1 \in DOMAIN mg.files /\ Head(mg.files) = mg.files[1]
           /\ Head(mg.files) \in MergeFiles /\ Head(mg.files) \in rs
           /\ Head(mg.files) \in PendingFiles
<1>1. MergeType /\ MergeShape
  BY DEF RInv, RTypes
<1>2. mg.files \in Seq(Files) /\ mg.files # <<>>
  BY <1>1 DEF MergeType, MergeShape
<1>3. 1 \in DOMAIN mg.files /\ Head(mg.files) = mg.files[1]
  BY <1>2
<1> QED
  BY <1>1, <1>2, <1>3 DEF MergeShape, MergeFiles

\* What is not in the index yet was above it before the step, or is new.
LEMMA UnmergedBefore ==
    ASSUME RInv, [RNext]_rvars, NEW f \in Layers', f \notin rs'
    PROVE  \/ f \in Layers /\ f \notin rs
           \/ \E l \in Logs : PushWriter(l) /\ f = l
           \/ \E g \in Files, bs \in SUBSET Blocks : OpenPushReader(g, bs) /\ f = g
<1>1. /\ Apart /\ CompactionShape /\ IndexFrozen /\ WritersShape
  BY HeldApart DEF RInv
<1>2. \/ f \in Layers
      \/ \E l \in Logs : PushWriter(l) /\ f = l
      \/ \E g \in Files, bs \in SUBSET Blocks : OpenPushReader(g, bs) /\ f = g
  <2>1. PushReader => run.file \in WritingLogs
    BY <1>1 DEF PushReader, WritersShape, WritingLogs, InRotation
  <2>2. CASE f \in WritingLogs'
    BY <2>2, WritingMoves DEF Layers
  <2>3. CASE f \in PendingFiles'
    BY <2>1, <2>3, PendingMoves DEF Layers
  <2> QED
    BY <2>2, <2>3 DEF Layers
<1>3. ASSUME f \in Layers, f \in rs PROVE FALSE
  <2>1. CASE RemoveTable
    <3>1. run.pc = "barrier" /\ f = run.file
      BY <1>3, <2>1 DEF RemoveTable
    <3>2. pendingReaders = <<>>
      BY <1>1, <3>1 DEF CompactionShape, InCompaction, IndexFrozen
    <3>3. f \in WritingLogs
      BY <1>3, <3>2 DEF Layers, PendingFiles
    <3> QED
      BY <1>1, <1>3, <3>1, <3>3 DEF Apart
  <2>2. CASE MergeAlloc \/ CompactAlloc
    BY <1>3, <2>2 DEF MergeAlloc, CompactAlloc, FetchOrAddValueIndex
  <2> QED
    BY <1>3, <2>1, <2>2, Changes
<1> QED
  BY <1>2, <1>3

\* Merging the oldest reader first leaves the index older than the other layers.
LEMMA IndexBelowStep ==
    ASSUME FInv, [RNext]_rvars
    PROVE  IndexBelow'
<1>1. /\ RInv /\ Bounded /\ WritersOrder /\ MergeOrder /\ IndexBelow /\ Apart /\ Apart'
      /\ FilesOK /\ MergeType /\ MergeShape
  BY HeldApartNext DEF FInv, RInv, RTypeOK, RTypes
<1>2. \A b \in Blocks : Version(b) \in Nat /\ cur[b] \in Nat /\ Version(b) <= cur[b]
  BY <1>1, VersionBounded DEF Apart
<1>3. ASSUME NEW f \in Layers', f \notin rs', NEW b \in Blocks, content'[f][b] # 0
      PROVE  content'[f][b] > Version(b)'
  <2>1. ASSUME NEW l \in Logs, PushWriter(l), f = l PROVE FALSE
    BY <1>1, <1>3, <2>1 DEF PushWriter, FilesOK, Hole, Files
  <2>2. ASSUME NEW g \in Files, NEW bs \in SUBSET Blocks, OpenPushReader(g, bs), f = g
        PROVE  content'[f][b] > Version(b)'
    <3>1. content'[f][b] = cur[b] + 1
      BY <1>1, <1>3, <2>2 DEF OpenPushReader, FilesOK
    <3>2. ~MergeAdd(b)
      <4>1. rangeMap' = rangeMap /\ mg' = mg
        BY <2>2 DEF OpenPushReader
      <4> QED
        BY <1>1, <4>1 DEF MergeAdd, MergeType
    <3>3. Version(b)' = Version(b)
      BY <3>2, VersionStep
    <3> QED
      BY <1>2, <3>1, <3>3
  <2>3. ASSUME f \in Layers, f \notin rs PROVE content'[f][b] > Version(b)'
    <3>1. f \in opened /\ f \in Files /\ content[f][b] \in Nat
      BY <1>1, <2>3 DEF Apart, Layers
    <3>2. ASSUME NEW a \in Blocks, WriteDo(a) PROVE content'[f][b] > Version(b)'
      <4>1. ~MergeAdd(b)
        <5>1. mg' = mg
          BY <3>2 DEF WriteDo
        <5> QED
          BY <1>1, <5>1 DEF MergeAdd, MergeType
      <4>2. Version(b)' = Version(b)
        BY <4>1, VersionStep
      <4>3. content'[f][b] = content[f][b] \/ content'[f][b] = cur[b] + 1
        BY <1>1, <3>1, <3>2 DEF WriteDo, FilesOK
      <4>4. content[f][b] # 0 => content[f][b] > Version(b)
        BY <1>1, <2>3 DEF IndexBelow
      <4> QED
        BY <1>2, <1>3, <4>2, <4>3, <4>4
    <3>3. ASSUME content'[f] = content[f] PROVE content'[f][b] > Version(b)'
      <4>1. CASE Version(b)' = Version(b)
        BY <1>1, <1>3, <2>3, <3>3, <4>1 DEF IndexBelow
      <4>2. CASE MergeAdd(b) /\ Version(b)' = content[Head(mg.files)][b]
        <5> DEFINE h == Head(mg.files)
        <5>1. mg.pc = "add" /\ b \in mg.todo
          BY <4>2 DEF MergeAdd
        <5>2. h \in MergeFiles /\ h \in rs /\ h \in PendingFiles /\ h = mg.files[1]
          BY <1>1, <5>1, HeadAdded
        <5>3. h # f
          BY <2>3, <5>2
        <5>4. content[h][b] # 0
          BY <1>1, <1>2, <5>1 DEF IndexBelow
        <5>5. Newer(f, h)
          <6>1. CASE f \in WritingLogs
            BY <1>1, <5>2, <5>3, <6>1 DEF WritersOrder
          <6>2. CASE f \in PendingFiles /\ f \notin MergeFiles
            BY <1>1, <2>3, <5>2, <6>2 DEF MergeOrder, Taken
          <6>3. CASE f \in MergeFiles
            <7>1. PICK i \in DOMAIN mg.files : f = mg.files[i]
              BY <6>3 DEF MergeFiles
            <7>2. 1 \in DOMAIN mg.files /\ 1 < i
              <8>1. mg.files \in Seq(Files) /\ i # 1
                BY <1>1, <5>2, <5>3, <7>1 DEF MergeType
              <8> QED
                BY <8>1
            <7> QED
              BY <1>1, <5>2, <7>1, <7>2 DEF MergeOrder
          <6> QED
            BY <2>3, <6>1, <6>2, <6>3 DEF Layers
        <5> QED
          BY <1>3, <3>3, <4>2, <5>4, <5>5 DEF Newer
      <4> QED
        BY <4>1, <4>2, VersionStep
    <3> QED
      BY <1>1, <3>1, <3>2, <3>3, Changes DEF AWrite, SameFiles
  <2> QED
    BY <1>1, <1>3, <2>1, <2>2, <2>3, UnmergedBefore
<1>4. ASSUME mg'.pc = "add", NEW b \in Blocks, b \in mg'.todo
      PROVE  content'[Head(mg'.files)][b] > Version(b)'
  <2>1. CASE MergeAlloc
    <3> DEFINE h == Head(mg.files)
    <3>1. /\ mg.pc = "alloc" /\ mg.files # <<>> /\ content' = content
          /\ mg'.files = mg.files /\ mg'.todo = DataOf(h)
      BY <1>1, <2>1 DEF MergeAlloc, MergeType
    <3>2. 1 \in DOMAIN mg.files /\ h = mg.files[1]
      BY <1>1, <3>1 DEF MergeType
    <3>3. h \in PendingFiles /\ h \notin rs
      BY <1>1, <3>1, <3>2 DEF MergeShape
    <3>4. content[h][b] # 0
      BY <1>4, <3>1 DEF DataOf
    <3>5. content[h][b] > Version(b)
      BY <1>1, <3>3, <3>4 DEF IndexBelow, Layers
    <3>6. ~MergeAdd(b)
      BY <3>1 DEF MergeAdd
    <3>7. Version(b)' = Version(b)
      BY <3>6, VersionStep
    <3> QED
      BY <3>1, <3>5, <3>7
  <2>2. ASSUME mg.pc = "add", mg'.files = mg.files, b \in mg.todo
        PROVE  content'[Head(mg'.files)][b] > Version(b)'
    <3> DEFINE h == Head(mg.files)
    <3>1. h \in PendingFiles
      BY <1>1, <2>2, HeadAdded
    <3>2. h \in opened /\ \A a \in Blocks : wr[a] # h
      BY <1>1, <3>1, FilesAssumption DEF Apart
    <3>3. content'[h] = content[h]
      BY <1>1, <3>2, FileKept
    <3>4. ~MergeAdd(b)
      BY <1>1, <1>4 DEF MergeAdd, MergeType
    <3>5. Version(b)' = Version(b)
      BY <3>4, VersionStep
    <3> QED
      BY <1>1, <2>2, <3>3, <3>5 DEF IndexBelow
  <2>3. ASSUME NEW a \in Blocks, MergeAdd(a)
        PROVE  mg.pc = "add" /\ mg'.files = mg.files /\ b \in mg.todo
    BY <1>1, <1>4, <2>3 DEF MergeAdd, MergeType
  <2>4. CASE MergeSame
    BY <1>4, <2>2, <2>4 DEF MergeSame
  <2>5. CASE MergeCheck \/ MergeNext \/ MergeDrop
    BY <1>1, <1>4, <2>5 DEF MergeCheck, MergeNext, MergeDrop, MergeType
  <2>6. ~MergeWaited
    BY <1>4 DEF MergeWaited, IdleMerge
  <2> QED
    BY <1>1, <2>1, <2>2, <2>3, <2>4, <2>5, <2>6, Changes DEF AMergeAdd
<1>5. mg'.todo \subseteq Blocks
  BY <1>1, TypesStep DEF RTypes, MergeType
<1> QED
  BY <1>3, <1>4, <1>5 DEF IndexBelow

\* What has been merged stays superseded by the index.
LEMMA IndexAboveStep ==
    ASSUME FInv, [RNext]_rvars
    PROVE  IndexAbove'
<1>1. /\ RInv /\ IndexAbove /\ TableSame /\ Apart /\ Apart' /\ MergeType /\ RunType
  BY HeldApartNext DEF FInv, RInv, RTypes
<1> SUFFICES ASSUME NEW f \in rs', NEW b \in Blocks
             PROVE  \/ content'[f][b] <= Version(b)'
                    \/ mg'.pc = "add" /\ f = Head(mg'.files) /\ b \in mg'.todo
  BY DEF IndexAbove
<1>2. Version(b) \in Nat /\ Version(b)' \in Nat /\ Version(b)' >= Version(b)
  BY <1>1, VersionGrows DEF Apart
<1>3. CASE f \in rs
  <2>1. f \in opened /\ f \in Files /\ \A a \in Blocks : wr[a] # f
    BY <1>1, <1>3, FilesAssumption DEF Apart
  <2>2. content'[f] = content[f] /\ content[f][b] \in Nat
    BY <1>1, <2>1, FileKept DEF Apart
  <2>3. CASE content[f][b] <= Version(b)
    BY <1>2, <2>2, <2>3
  <2>4. CASE mg.pc = "add" /\ f = Head(mg.files) /\ b \in mg.todo
    <3>1. CASE MergeSame
      BY <2>4, <3>1 DEF MergeSame
    <3>2. ASSUME NEW a \in Blocks, MergeAdd(a)
          PROVE  \/ content'[f][b] <= Version(b)'
                 \/ mg'.pc = "add" /\ f = Head(mg'.files) /\ b \in mg'.todo
      <4>1. CASE a # b
        BY <1>1, <2>4, <3>2, <4>1 DEF MergeAdd, MergeType
      <4>2. CASE a = b
        <5>1. /\ AddBlock(f, b) /\ content' = content
          BY <2>4, <3>2, <4>2 DEF MergeAdd
        <5>2. IvOf(f) \in 1..MaxIv /\ valueMap[IvOf(f)] = f
          BY <1>1, <1>3, IvOfOnly DEF RInv
        <5>3. rangeMap'[b] = IvOf(f) /\ valueMap' = valueMap
          BY <1>1, <5>1 DEF AddBlock, RInv, RTypeOK, IndexOK
        <5>4. Version(b)' = content[f][b]
          BY <5>1, <5>2, <5>3, BoundsAssumption DEF Version
        <5> QED
          BY <2>2, <5>4
      <4> QED
        BY <4>1, <4>2
    <3>3. ~MergeCheck /\ ~MergeAlloc /\ ~MergeNext /\ ~MergeDrop /\ ~MergeWaited
      BY <2>4 DEF MergeCheck, MergeAlloc, MergeNext, MergeDrop, MergeWaited
    <3> QED
      BY <1>1, <3>1, <3>2, <3>3, Changes DEF AMergeAdd
  <2> QED
    BY <1>1, <1>3, <2>3, <2>4 DEF IndexAbove
<1>4. CASE f \notin rs
  <2>1. CASE MergeAlloc
    <3>1. /\ f = Head(mg.files) /\ content' = content
          /\ mg'.pc = "add" /\ mg'.files = mg.files /\ mg'.todo = DataOf(f)
      BY <1>1, <1>4, <2>1 DEF MergeAlloc, FetchOrAddValueIndex, MergeType
    <3> QED
      BY <1>2, <3>1 DEF DataOf
  <2>2. CASE CompactAlloc
    <3>1. run.pc = "alloc" /\ f = run.file /\ content' = content
      BY <1>4, <2>2 DEF CompactAlloc, FetchOrAddValueIndex
    <3>2. content[f][b] \in {0, Version(b)}
      BY <1>1, <3>1 DEF TableSame
    <3> QED
      BY <1>2, <3>1, <3>2
  <2>3. ~RemoveTable
    BY <1>4 DEF RemoveTable
  <2> QED
    BY <1>1, <1>4, <2>1, <2>2, <2>3, Changes
<1> QED
  BY <1>3, <1>4

\* Nothing is merged during a compaction, so its table stays equal to the index.
LEMMA TableSameStep ==
    ASSUME FInv, [RNext]_rvars
    PROVE  TableSame'
<1>1. /\ RInv /\ TableSame /\ Apart /\ FilesOK /\ RunType /\ CompactionShape /\ IndexFrozen
      /\ WritesHeld /\ FilesApart
  BY HeldApart DEF FInv, RInv, RTypes, RTypeOK
<1> SUFFICES ASSUME run'.pc \in {"alloc", "add"}, NEW b \in Blocks
             PROVE  /\ content'[run'.file][b] \in {0, Version(b)'}
                    /\ run'.pc = "add" /\ b \in run'.todo => content'[run'.file][b] # 0
  <2>1. run'.todo \subseteq Blocks
    BY <1>1, TypesStep DEF RTypes, RunType
  <2> QED
    BY <2>1 DEF TableSame
<1>2. ASSUME NEW t \in Tables, NEW es \in SUBSET Tables, BuildTable(t, es)
      PROVE  content'[run'.file][b] \in {0, Version(b)'} /\ run'.pc = "alloc"
  <2>1. run'.pc = "alloc" /\ run'.file = t /\ mg' = mg /\ run.pc = "build"
    BY <1>1, <1>2 DEF BuildTable, RunType
  <2>2. ~MergeAdd(b)
    BY <1>1, <2>1 DEF MergeAdd, CompactionShape, IndexFrozen, InCompaction
  <2>3. Version(b)' = Version(b)
    BY <2>2, VersionStep
  <2>4. \/ content'[t][b] = 0
        \/ rangeMap[b] # 0 /\ content'[t][b] = content[valueMap[rangeMap[b]]][b]
    BY <1>1, <1>2 DEF BuildTable, FilesOK, Live, Files
  <2> QED
    BY <2>1, <2>3, <2>4 DEF Version
<1>3. ASSUME run.pc \in {"alloc", "add"}, run'.file = run.file
      PROVE  /\ content'[run'.file][b] \in {0, Version(b)'}
             /\ content'[run.file] = content[run.file]
  <2>1. run.file \in opened /\ \A a \in Blocks : wr[a] # run.file
    <3>1. CASE run.pc = "alloc"
      BY <1>1, <3>1, FilesAssumption DEF CompactionShape, WritesHeld, Apart
    <3>2. CASE run.pc = "add"
      BY <1>1, <3>2, FilesAssumption DEF CompactionShape, Apart
    <3> QED
      BY <1>3, <3>1, <3>2
  <2>2. content'[run.file] = content[run.file]
    BY <1>1, <2>1, FileKept
  <2>3. ~MergeAdd(b)
    BY <1>1, <1>3 DEF MergeAdd, CompactionShape, IndexFrozen, InCompaction
  <2>4. Version(b)' = Version(b)
    BY <2>3, VersionStep
  <2> QED
    BY <1>1, <1>3, <2>2, <2>4 DEF TableSame
<1>4. CASE CompactAlloc
  <2>1. run.pc = "alloc" /\ run'.file = run.file /\ run'.todo = DataOf(run.file)
    BY <1>1, <1>4 DEF CompactAlloc, RunType
  <2> QED
    BY <1>3, <2>1 DEF DataOf
<1>5. ASSUME NEW a \in Blocks, CompactAdd(a)
      PROVE  /\ content'[run'.file][b] \in {0, Version(b)'}
             /\ run'.pc = "add" /\ b \in run'.todo => content'[run'.file][b] # 0
  <2>1. run.pc = "add" /\ run'.file = run.file /\ run'.todo \subseteq run.todo
    BY <1>1, <1>5 DEF CompactAdd, RunType
  <2> QED
    BY <1>1, <1>3, <2>1 DEF TableSame
<1>6. CASE RunSame
  BY <1>1, <1>3, <1>6 DEF RunSame, TableSame
<1> QED
  BY <1>1, <1>2, <1>4, <1>5, <1>6, Changes DEF ABuild, ACompactAdd

\* No step loses the last version: a log is pending before it leaves m.writers,
\* and in the index before it leaves m.pendingReaders.
LEMMA LastHeldStep ==
    ASSUME FInv, [RNext]_rvars
    PROVE  LastHeld'
<1>1. /\ RInv /\ Bounded /\ WritersOrder /\ RotationHeld /\ IndexBelow /\ IndexAbove /\ LastHeld
      /\ Apart /\ Apart' /\ FilesOK /\ RunType /\ MergeType /\ WritersShape
  BY HeldApartNext DEF FInv, RInv, RTypes, RTypeOK
<1> SUFFICES ASSUME NEW b \in Blocks
             PROVE  \/ \E f \in Layers' : content'[f][b] = cur'[b]
                    \/ (\A f \in Layers' : content'[f][b] = 0) /\ Version(b)' = cur'[b]
  BY DEF LastHeld
<1> DEFINE Goal == \/ \E f \in Layers' : content'[f][b] = cur'[b]
                   \/ (\A f \in Layers' : content'[f][b] = 0) /\ Version(b)' = cur'[b]
<1> HIDE DEF Goal
<1>2. /\ Layers \subseteq opened /\ Layers \subseteq Files
      /\ Version(b) \in Nat /\ cur[b] \in Nat /\ Version(b) <= cur[b]
      /\ \A f \in Layers : content[f][b] \in Nat /\ content[f][b] <= cur[b]
  <2>1. Layers \subseteq opened /\ Layers \subseteq Files
    BY <1>1 DEF Apart, Layers
  <2> QED
    BY <1>1, <2>1, VersionBounded DEF Apart, Bounded
<1>3. \/ \E f \in Layers : content[f][b] = cur[b]
      \/ (\A f \in Layers : content[f][b] = 0) /\ Version(b) = cur[b]
  BY <1>1 DEF LastHeld
\* When a layer that is in the index goes, the rest of the block is there too.
<1>4. ASSUME NEW f \in rs, content[f][b] = cur[b], ~(mg.pc = "add" /\ f = Head(mg.files)),
             NEW g \in Layers, g \notin rs
      PROVE  content[g][b] = 0 /\ Version(b) = cur[b]
  <2>1. content[f][b] <= Version(b)
    BY <1>1, <1>4 DEF IndexAbove
  <2>2. Version(b) = cur[b]
    BY <1>2, <1>4, <2>1
  <2>3. content[g][b] # 0 => content[g][b] > Version(b)
    BY <1>1, <1>4 DEF IndexBelow
  <2> QED
    BY <1>2, <2>2, <2>3
<1>5. ASSUME NEW a \in Blocks, WriteDo(a) PROVE Goal
  <2>1. /\ wr[a] # NoFile /\ UNCHANGED <<pendingReaders, mg, run, active>>
        /\ content' = [content EXCEPT ![wr[a]][a] = cur[a] + 1]
        /\ cur' = [cur EXCEPT ![a] = @ + 1]
    BY <1>5 DEF WriteDo
  <2>2. Layers' = Layers
    BY <2>1 DEF Layers, WritingLogs, PendingFiles
  <2>3. wr[a] \in Layers
    BY <1>1, <2>1 DEF Apart, Layers
  <2>4. CASE a = b
    <3>1. content'[wr[a]][b] = cur'[b]
      BY <1>1, <1>2, <2>1, <2>3, <2>4 DEF FilesOK
    <3> QED
      BY <2>2, <2>3, <3>1 DEF Goal
  <2>5. CASE a # b
    <3>1. cur'[b] = cur[b] /\ \A f \in Layers : content'[f][b] = content[f][b]
      BY <1>1, <1>2, <2>1, <2>3, <2>5 DEF FilesOK
    <3>2. Version(b)' = Version(b)
      <4>1. ~MergeAdd(b)
        BY <1>1, <2>1 DEF MergeAdd, MergeType
      <4> QED
        BY <4>1, VersionStep
    <3> QED
      BY <1>3, <2>2, <3>1, <3>2 DEF Goal
  <2> QED
    BY <2>4, <2>5
<1>6. ASSUME NEW g \in Files, NEW bs \in SUBSET Blocks, OpenPushReader(g, bs) PROVE Goal
  <2>1. g \notin opened /\ PushReaderList(g) /\ UNCHANGED <<mg, run, active>>
    BY <1>6 DEF OpenPushReader
  <2>2. Layers' = Layers \cup {g}
    <3>1. PendingFiles' = PendingFiles \cup {g}
      BY <1>1, <2>1, Pushed DEF RInv, RTypeOK, ListsOK
    <3>2. WritingLogs' = WritingLogs
      BY <2>1 DEF WritingLogs
    <3> QED
      BY <3>1, <3>2 DEF Layers
  <2>3. /\ content'[g][b] = IF b \in bs THEN cur[b] + 1 ELSE 0
        /\ \A f \in Layers : content'[f][b] = content[f][b]
    BY <1>1, <1>2, <1>6, <2>1 DEF OpenPushReader, FilesOK
  <2>4. cur'[b] = content'[g][b] + IF b \in bs THEN 0 ELSE cur[b]
    BY <1>6 DEF OpenPushReader
  <2>5. Version(b)' = Version(b)
    <3>1. ~MergeAdd(b)
      BY <1>1, <2>1 DEF MergeAdd, MergeType
    <3> QED
      BY <3>1, VersionStep
  <2>6. CASE b \in bs
    BY <1>2, <2>2, <2>3, <2>4, <2>6 DEF Goal
  <2>7. CASE b \notin bs
    <3>1. content'[g][b] = 0 /\ cur'[b] = cur[b]
      BY <1>2, <2>3, <2>4, <2>7
    <3> QED
      BY <1>3, <2>2, <2>3, <2>5, <3>1 DEF Goal
  <2> QED
    BY <2>6, <2>7
<1>7. ASSUME NEW l \in Logs, PushWriter(l) PROVE Goal
  <2>1. /\ l \notin opened /\ content' = [content EXCEPT ![l] = Hole]
        /\ UNCHANGED <<pendingReaders, cur, mg>>
    BY <1>7 DEF PushWriter
  <2>2. Layers' = Layers \cup {l}
    <3>1. WritingLogs' = WritingLogs \cup {l}
      <4>1. /\ run.pc \in {"open", "idle"} /\ active' = active
            /\ run'.pc = "swap" /\ run'.file = l
        BY <1>1, <1>7 DEF PushWriter, RunType
      <4> QED
        BY <4>1 DEF WritingLogs, InRotation
    <3> QED
      BY <2>1, <3>1 DEF Layers, PendingFiles
  <2>3. content'[l][b] = 0 /\ \A f \in Layers : content'[f][b] = content[f][b]
    BY <1>1, <1>2, <2>1 DEF FilesOK, Hole, Files
  <2>4. Version(b)' = Version(b)
    <3>1. ~MergeAdd(b)
      BY <1>1, <2>1 DEF MergeAdd, MergeType
    <3> QED
      BY <3>1, VersionStep
  <2> QED
    BY <1>3, <2>1, <2>2, <2>3, <2>4 DEF Goal
<1>8. ASSUME RemoveWriter PROVE Goal
  <2>1. /\ run.pc = "removeWriter" /\ UNCHANGED <<pendingReaders, content, cur, rangeMap, valueMap>>
    BY <1>8 DEF RemoveWriter
  <2>2. WritingLogs = {active, run.file} /\ WritingLogs' = {active} /\ active \in Logs
    <3>1. active \in Logs /\ run.file \in Logs /\ active' = active /\ run'.pc = "removeWait"
      BY <1>1, <1>8, <2>1 DEF RemoveWriter, RunType, WritersShape, FilesOK, InRotation
    <3> QED
      BY <2>1, <3>1 DEF WritingLogs, InRotation
  <2>3. PendingFiles' = PendingFiles /\ Version(b)' = Version(b)
    BY <2>1 DEF PendingFiles, Version
  <2>4. CASE run.file \in PendingFiles
    <3>1. Layers' = Layers
      BY <2>2, <2>3, <2>4 DEF Layers
    <3> QED
      BY <1>3, <2>1, <2>3, <3>1 DEF Goal
  <2>5. CASE run.file \notin PendingFiles
    <3>1. PendingFiles = {} /\ run.file \in rs
      BY <1>1, <2>1, <2>5 DEF RotationHeld
    <3>2. Layers = {active, run.file} /\ Layers' = {active}
      BY <2>2, <2>3, <3>1 DEF Layers
    <3>3. active \notin rs
      BY <1>1 DEF Apart
    <3>4. mg.pc # "add"
      BY <1>1, <3>1, HeadAdded
    <3>5. content[run.file][b] = cur[b] => content[active][b] = 0 /\ Version(b) = cur[b]
      BY <1>4, <3>1, <3>2, <3>3, <3>4
    <3> QED
      BY <1>3, <2>1, <2>3, <3>2, <3>5 DEF Goal
  <2> QED
    BY <2>4, <2>5
<1>9. ASSUME MergeDrop PROVE Goal
  <2>1. mg.pc = "alloc" /\ UNCHANGED <<content, cur, rangeMap, valueMap, run, active>>
    BY <1>9 DEF MergeDrop
  <2>2. WritingLogs' = WritingLogs /\ Version(b)' = Version(b)
    BY <2>1 DEF WritingLogs, Version
  <2>3. PendingFiles' = PendingFiles \ rs
    BY <1>1, <1>9, Dropped DEF RInv, RTypeOK, ListsOK, FilesApart
  <2>4. Layers' \subseteq Layers
    BY <2>2, <2>3 DEF Layers
  <2>5. CASE \E f \in Layers' : content[f][b] = cur[b]
    BY <2>1, <2>5 DEF Goal
  <2>6. ASSUME NEW f \in Layers, f \notin Layers', content[f][b] = cur[b] PROVE Goal
    <3>1. f \in PendingFiles /\ f \in rs /\ f \notin WritingLogs
      BY <2>2, <2>3, <2>6 DEF Layers
    <3>2. ASSUME NEW g \in Layers' PROVE content[g][b] = 0 \/ content[g][b] = cur[b]
      <4>1. CASE g \notin rs
        BY <1>4, <2>1, <2>4, <2>6, <3>1, <4>1
      <4>2. CASE g \in rs
        <5>1. g \in WritingLogs /\ g # f
          BY <2>2, <2>3, <2>6, <4>2 DEF Layers
        <5>2. Newer(g, f)
          BY <1>1, <3>1, <5>1 DEF WritersOrder
        <5>3. content[g][b] <= cur[b] /\ content[g][b] \in Nat
          BY <1>2, <2>4
        <5> QED
          BY <1>2, <2>6, <5>2, <5>3 DEF Newer
      <4> QED
        BY <4>1, <4>2
    <3>3. Version(b) = cur[b]
      <4>1. content[f][b] <= Version(b)
        BY <1>1, <2>1, <3>1 DEF IndexAbove
      <4> QED
        BY <1>2, <2>6, <4>1
    <3> QED
      BY <2>1, <2>2, <3>2, <3>3 DEF Goal
  <2>7. CASE (\A f \in Layers : content[f][b] = 0) /\ Version(b) = cur[b]
    BY <2>1, <2>2, <2>4, <2>7 DEF Goal
  <2> QED
    BY <1>3, <2>5, <2>6, <2>7
<1>10. ASSUME UNCHANGED cur, SameFiles, Layers' = Layers PROVE Goal
  <2>1. \A f \in Layers : content'[f][b] = content[f][b]
    BY <1>2, <1>10 DEF SameFiles
  <2>2. CASE Version(b)' = Version(b)
    BY <1>3, <1>10, <2>1, <2>2 DEF Goal
  <2>3. CASE MergeAdd(b)
    <3>1. mg.pc = "add" /\ b \in mg.todo
      BY <2>3 DEF MergeAdd
    <3>2. Head(mg.files) \in Layers
      BY <1>1, <3>1, HeadAdded DEF Layers
    <3>3. content[Head(mg.files)][b] # 0
      BY <1>1, <1>2, <3>1 DEF IndexBelow
    <3>4. \E f \in Layers : content[f][b] = cur[b]
      BY <1>3, <3>2, <3>3
    <3> QED
      BY <1>10, <2>1, <3>4 DEF Goal
  <2> QED
    BY <2>2, <2>3, VersionStep
<1>11. ASSUME PushReader PROVE Goal
  <2>1. /\ run.pc = "pushReader" /\ UNCHANGED <<content, cur>> /\ PushReaderList(run.file)
        /\ active' = active /\ run'.pc = "removeWriter" /\ run'.file = run.file
    BY <1>1, <1>11 DEF PushReader, RunType
  <2>2. run.file \in Logs /\ run.file \in Files /\ WritingLogs' = WritingLogs /\ run.file \in WritingLogs
    BY <1>1, <2>1 DEF WritersShape, WritingLogs, InRotation, Files
  <2>3. PendingFiles' = PendingFiles \cup {run.file}
    BY <1>1, <2>1, <2>2, Pushed DEF RInv, RTypeOK, ListsOK
  <2>4. Layers' = Layers /\ SameFiles
    BY <2>1, <2>2, <2>3 DEF Layers, SameFiles
  <2> QED
    BY <1>10, <2>1, <2>4
<1>12. Goal
  <2>1. CASE AWrite
    BY <1>5, <2>1 DEF AWrite
  <2>2. CASE AnOpen
    BY <1>6, <2>2 DEF AnOpen
  <2>3. CASE ANewLog
    BY <1>7, <2>3 DEF ANewLog
  <2>4. CASE ~AWrite /\ ~AnOpen /\ ~ANewLog /\ ~RemoveWriter /\ ~MergeDrop /\ ~PushReader
    <3>1. UNCHANGED cur /\ SameFiles
      BY <1>1, <2>4, Changes
    <3>2. WritingLogs' = WritingLogs
      BY <1>1, <2>4, WritingMoves DEF ANewLog
    <3>3. PendingFiles' = PendingFiles
      BY <1>1, <2>4, PendingMoves DEF AnOpen
    <3> QED
      BY <1>10, <3>1, <3>2, <3>3 DEF Layers
  <2> QED
    BY <1>8, <1>9, <1>11, <2>1, <2>2, <2>3, <2>4
<1> QED
  BY <1>12 DEF Goal

-----------------------------------------------------------------------------
(* Reads *)

\* m.readerStack holds every layer, newest first.
LEMMA StackOrdered ==
    ASSUME RInv, PendingOrder, WritersOrder
    PROVE  /\ readerStack \in Seq(Files)
           /\ \A f \in Layers : \E i \in 1..Len(readerStack) : readerStack[i] = f
           /\ \A i, k \in 1..Len(readerStack) :
                  i < k => readerStack[i] = readerStack[k] \/ Newer(readerStack[i], readerStack[k])
<1> USE FilesAssumption
<1>1. /\ writers \in Seq(Files) /\ pendingReaders \in Seq(Files)
      /\ readerStack = writers \o pendingReaders /\ WritersShape /\ FilesOK /\ RunType
  BY DEF RInv, RTypeOK, RTypes, ListsOK, Files
<1> DEFINE m == Len(writers)
           n == Len(pendingReaders)
<1>2. /\ m \in Nat /\ n \in Nat /\ DOMAIN pendingReaders = 1..n /\ DOMAIN writers = 1..m
      /\ readerStack \in Seq(Files) /\ Len(readerStack) = m + n
      /\ \A i \in 1..(m + n) : readerStack[i] = IF i <= m THEN writers[i] ELSE pendingReaders[i - m]
  BY <1>1, ConcatProperties
<1>3. /\ WritingLogs = {writers[i] : i \in 1..m}
      /\ \A i, k \in 1..m : i < k => Newer(writers[i], writers[k])
  <2>1. CASE run.pc = "open"
    BY <1>1, <2>1 DEF WritersShape, WritingLogs, InRotation, Files
  <2>2. CASE run.pc = "swap" /\ active = NoFile
    <3>1. writers = <<run.file>> /\ run.file \in Logs
      BY <1>1, <2>2 DEF WritersShape
    <3>2. WritingLogs = {run.file}
      BY <2>2, <3>1 DEF WritingLogs, Files
    <3>3. m = 1 /\ writers[1] = run.file /\ 1..m = {1}
      BY <3>1
    <3> HIDE DEF m
    <3> QED
      BY <3>2, <3>3
  <2>3. ASSUME NEW v, NEW w, writers = <<v, w>>, WritingLogs = {v, w}, Newer(v, w)
        PROVE  /\ WritingLogs = {writers[i] : i \in 1..m}
               /\ \A i, k \in 1..m : i < k => Newer(writers[i], writers[k])
    <3>1. m = 2 /\ writers[1] = v /\ writers[2] = w /\ 1..m = {1, 2}
      BY <2>3
    <3>2. \A i, k \in 1..m : i < k => i = 1 /\ k = 2
      BY <3>1
    <3> HIDE DEF m
    <3> QED
      BY <2>3, <3>1, <3>2
  <2>4. CASE run.pc = "swap" /\ active # NoFile
    <3>1. writers = <<run.file, active>> /\ run.file \in Logs /\ active \in Logs
      BY <1>1, <2>4 DEF WritersShape, FilesOK
    <3>2. WritingLogs = {run.file, active}
      BY <2>4, <3>1 DEF WritingLogs
    <3>3. Newer(run.file, active)
      BY <2>4 DEF WritersOrder, Newer
    <3> QED
      BY <2>3, <3>1, <3>2, <3>3
  <2>5. CASE run.pc \in InRotation
    <3>1. writers = <<active, run.file>> /\ run.file \in Logs /\ active \in Logs
      BY <1>1, <2>5 DEF WritersShape, FilesOK
    <3>2. WritingLogs = {active, run.file}
      BY <2>5, <3>1 DEF WritingLogs
    <3>3. Newer(active, run.file)
      BY <2>5 DEF WritersOrder
    <3> QED
      BY <2>3, <3>1, <3>2, <3>3
  <2>6. CASE run.pc \notin {"open", "swap"} \cup InRotation
    <3>1. writers = <<active>> /\ active \in Logs
      BY <1>1, <2>6 DEF WritersShape, FilesOK
    <3>2. WritingLogs = {active}
      BY <2>6, <3>1 DEF WritingLogs
    <3>3. m = 1 /\ writers[1] = active /\ 1..m = {1}
      BY <3>1
    <3> HIDE DEF m
    <3> QED
      BY <3>2, <3>3
  <2> QED
    BY <2>1, <2>2, <2>4, <2>5, <2>6
<1> HIDE DEF m, n
<1>4. ASSUME NEW f \in Layers PROVE \E i \in 1..(m + n) : readerStack[i] = f
  <2>1. ASSUME NEW i \in 1..m, f = writers[i] PROVE \E k \in 1..(m + n) : readerStack[k] = f
    <3>1. i \in 1..(m + n) /\ i <= m
      BY <1>2
    <3> QED
      BY <1>2, <2>1, <3>1
  <2>2. ASSUME NEW i \in 1..n, f = pendingReaders[i] PROVE \E k \in 1..(m + n) : readerStack[k] = f
    <3>1. i + m \in 1..(m + n) /\ ~(i + m <= m) /\ (i + m) - m = i
      BY <1>2
    <3>2. readerStack[i + m] = pendingReaders[i]
      BY <1>2, <3>1
    <3> QED
      BY <2>2, <3>1, <3>2
  <2> QED
    BY <1>2, <1>3, <2>1, <2>2 DEF Layers, PendingFiles
<1>5. ASSUME NEW i \in 1..(m + n), NEW k \in 1..(m + n), i < k
      PROVE  readerStack[i] = readerStack[k] \/ Newer(readerStack[i], readerStack[k])
  <2>1. CASE k <= m
    <3>1. i \in 1..m /\ k \in 1..m /\ readerStack[i] = writers[i] /\ readerStack[k] = writers[k]
      BY <1>2, <1>5, <2>1
    <3> QED
      BY <1>3, <1>5, <3>1
  <2>2. CASE i <= m /\ ~(k <= m)
    <3>1. /\ i \in 1..m /\ k - m \in 1..n
          /\ readerStack[i] = writers[i] /\ readerStack[k] = pendingReaders[k - m]
      BY <1>2, <1>5, <2>2
    <3>2. writers[i] \in WritingLogs /\ pendingReaders[k - m] \in PendingFiles
      BY <1>2, <1>3, <3>1 DEF PendingFiles
    <3> QED
      BY <3>1, <3>2 DEF WritersOrder
  <2>3. CASE ~(i <= m)
    <3>1. /\ i - m \in 1..n /\ k - m \in 1..n /\ i - m < k - m
          /\ readerStack[i] = pendingReaders[i - m] /\ readerStack[k] = pendingReaders[k - m]
      BY <1>2, <1>5, <2>3
    <3> QED
      BY <1>2, <3>1 DEF PendingOrder
  <2> QED
    BY <1>2, <1>5, <2>1, <2>2, <2>3
<1> QED
  BY <1>2, <1>4, <1>5

\* A read that begins now finds the last version written.
LEMMA StartsFresh ==
    ASSUME FInv, NEW b \in Blocks, NEW r, r.stack = readerStack, r.pos = 1, r.b = b, r.lo = cur[b]
    PROVE  FirstFresh(r)
<1>1. RInv /\ PendingOrder /\ WritersOrder /\ LastHeld /\ Apart
  BY HeldApart DEF FInv
<1> DEFINE n == Len(readerStack)
<1>2. /\ readerStack \in Seq(Files)
      /\ \A f \in Layers : \E i \in 1..n : readerStack[i] = f
      /\ \A i, k \in 1..n : i < k => readerStack[i] = readerStack[k] \/ Newer(readerStack[i], readerStack[k])
  BY <1>1, StackOrdered
<1>3. n \in Nat /\ \A i \in 1..n : readerStack[i] \in Files
  BY <1>2
<1> HIDE DEF n
<1>4. /\ cur[b] \in Nat /\ Version(b) \in Nat
      /\ \A i \in 1..n : content[readerStack[i]][b] \in Nat
  BY <1>1, <1>3 DEF Apart
<1>5. \/ \E k \in 1..n : content[readerStack[k]][b] = cur[b]
      \/ Version(b) = cur[b] /\ \A f \in Layers : content[f][b] = 0
  BY <1>1, <1>2 DEF LastHeld
<1>6. \A i \in 1..n : readerStack[i] \in Layers
  <2>1. ASSUME NEW i \in 1..n PROVE readerStack[i] \in Layers
    <3>1. i \in DOMAIN readerStack
      BY <1>2, <2>1 DEF n
    <3>2. \/ active # NoFile /\ readerStack[i] = active
          \/ run.pc \in {"swap"} \cup InRotation /\ readerStack[i] = run.file
          \/ readerStack[i] \in PendingFiles
      BY <1>1, <3>1, Captured DEF RInv
    <3> QED
      BY <1>1, <3>2 DEF RInv, RTypeOK, FilesOK, WritersShape, Layers, WritingLogs, InRotation
  <2> QED
    BY <2>1
<1>7. ASSUME NEW i \in 1..n, \A j \in 1..(i - 1) : content[readerStack[j]][b] = 0,
             content[readerStack[i]][b] # 0
      PROVE  content[readerStack[i]][b] >= cur[b]
  <2>1. CASE cur[b] = 0
    BY <1>4, <2>1
  <2>2. ASSUME cur[b] # 0, NEW k \in 1..n, content[readerStack[k]][b] = cur[b]
        PROVE  content[readerStack[i]][b] >= cur[b]
    <3>1. k = i \/ i < k
      <4>1. ~(k < i)
        BY <1>3, <1>7, <2>2
      <4> QED
        BY <1>3, <4>1
    <3>2. CASE k = i
      BY <1>4, <2>2, <3>2
    <3>3. CASE i < k
      <4>1. readerStack[i] = readerStack[k] \/ Newer(readerStack[i], readerStack[k])
        BY <1>2, <3>3
      <4> QED
        BY <1>4, <1>7, <2>2, <4>1 DEF Newer
    <3> QED
      BY <3>1, <3>2, <3>3
  <2> QED
    BY <1>5, <1>6, <1>7, <2>1, <2>2
<1>8. ASSUME \A j \in 1..n : content[readerStack[j]][b] = 0 PROVE Version(b) >= cur[b]
  BY <1>4, <1>5, <1>8
<1> QED
  BY <1>7, <1>8 DEF FirstFresh, n

\* The fields of a read.
LEMMA ReadFields ==
    ASSUME RInv, NEW c \in ActiveReads
    PROVE  /\ c \in Clients /\ DOMAIN rd = Clients
           /\ DOMAIN rd[c] = {"pc", "stack", "pos", "b", "br", "val", "lo"}
           /\ rd[c].stack \in Seq(Files) /\ Len(rd[c].stack) \in Nat
           /\ rd[c].pos \in 1..(Len(rd[c].stack) + 1)
           /\ rd[c].pc = "read" => rd[c].pos <= Len(rd[c].stack)
           /\ rd[c].b \in Blocks /\ rd[c].lo \in Nat /\ rd[c].val \in Nat
           /\ \A i \in rd[c].pos..Len(rd[c].stack) : rd[c].stack[i] \in opened
           /\ rd[c].pc = "fetch" => rd[c].br \in opened
           /\ rd[c].pc \in ReadPcs \ {"idle"}
<1>1. c \in Clients /\ rd[c].pc # "idle" /\ StacksOK /\ ReadType /\ ReadsHeld
  BY DEF RInv, RTypeOK, RTypes, ActiveReads
<1>2. /\ rd[c].stack \in Seq(Files)
      /\ rd[c].pos \in 1..(Len(rd[c].stack) + 1)
      /\ rd[c].pc = "read" => rd[c].pos <= Len(rd[c].stack)
      /\ rd[c].pc = "fetch" => rd[c].br \in Files
  BY <1>1, Zenon DEF StacksOK
<1>3. Len(rd[c].stack) \in Nat
  BY <1>2
<1>4. ASSUME NEW i \in rd[c].pos..Len(rd[c].stack) PROVE rd[c].stack[i] \in opened
  <2>1. i \in DOMAIN rd[c].stack /\ rd[c].stack[i] \in Files
    BY <1>2
  <2> QED
    BY <1>1, <2>1 DEF ReadsHeld, Using, StackFiles
<1>5. rd[c].pc = "fetch" => rd[c].br \in opened
  BY <1>1, <1>2 DEF ReadsHeld, Using
<1> QED
  BY <1>1, <1>2, <1>3, <1>4, <1>5 DEF ReadType

\* Other steps do not make a read stale: what it still has to look at only
\* changes to something newer.
LEMMA ReadKept ==
    ASSUME FInv, [RNext]_rvars, NEW c \in ActiveReads, ReadOK(rd[c]), rd'[c] = rd[c]
    PROVE  ReadOK(rd[c])'
<1>1. RInv /\ Apart /\ Apart' /\ FilesOK
  BY HeldApartNext DEF FInv, RInv, RTypeOK
<1>2. PICK r : r = rd[c]
  OBVIOUS
<1>3. /\ r.b \in Blocks /\ r.lo \in Nat /\ r.val \in Nat
      /\ Len(r.stack) \in Nat /\ r.pos \in 1..(Len(r.stack) + 1)
      /\ r.pc = "read" => r.pos <= Len(r.stack)
      /\ \A i \in r.pos..Len(r.stack) : r.stack[i] \in opened
      /\ r.pc = "fetch" => r.br \in opened
  BY <1>1, <1>2, ReadFields
<1> DEFINE n == Len(r.stack)
<1>4. /\ cur[r.b] \in Nat /\ cur'[r.b] \in Nat /\ cur'[r.b] >= cur[r.b]
      /\ Version(r.b) \in Nat /\ Version(r.b)' \in Nat /\ Version(r.b)' >= Version(r.b)
  BY <1>1, <1>3, CurGrows, VersionGrows DEF Apart
<1>5. ASSUME NEW f \in opened
      PROVE  /\ content[f][r.b] \in Nat
             /\ content'[f][r.b] = content[f][r.b] \/ content'[f][r.b] = cur[r.b] + 1
  <2>1. f \in Files /\ content[f][r.b] \in Nat
    BY <1>1, <1>3 DEF Apart
  <2>2. ASSUME NEW a \in Blocks, WriteDo(a)
        PROVE  content'[f][r.b] = content[f][r.b] \/ content'[f][r.b] = cur[r.b] + 1
    BY <1>1, <1>3, <2>1, <2>2 DEF WriteDo, FilesOK
  <2> QED
    BY <1>1, <2>1, <2>2, Changes DEF AWrite, SameFiles
<1>6. ReadOK(r)
  BY <1>2
<1>7. r.lo <= cur[r.b]
  BY <1>6 DEF ReadOK
<1>8. ASSUME NEW f \in opened
      PROVE  /\ content'[f][r.b] = 0 => content[f][r.b] = 0
             /\ content[f][r.b] >= r.lo => content'[f][r.b] >= r.lo
             /\ content[f][r.b] = 0 => content'[f][r.b] = 0 \/ content'[f][r.b] >= r.lo
  BY <1>3, <1>4, <1>5, <1>7
<1>9. ASSUME r.pc \in {"hole", "data"} PROVE FirstFresh(r)'
  <2>1. FirstFresh(r)
    BY <1>6, <1>9 DEF ReadOK
  <2>2. ASSUME NEW i \in r.pos..n, \A j \in r.pos..(i - 1) : content'[r.stack[j]][r.b] = 0
        PROVE  content'[r.stack[i]][r.b] = 0 \/ content'[r.stack[i]][r.b] >= r.lo
    <3>1. \A j \in r.pos..(i - 1) : r.stack[j] \in opened
      BY <1>3
    <3>2. \A j \in r.pos..(i - 1) : content[r.stack[j]][r.b] = 0
      BY <1>8, <2>2, <3>1
    <3>3. content[r.stack[i]][r.b] = 0 \/ content[r.stack[i]][r.b] >= r.lo
      BY <2>1, <3>2 DEF FirstFresh
    <3> QED
      BY <1>3, <1>8, <3>3
  <2>3. ASSUME \A j \in r.pos..n : content'[r.stack[j]][r.b] = 0 PROVE Version(r.b)' >= r.lo
    <3>1. \A j \in r.pos..n : content[r.stack[j]][r.b] = 0
      BY <1>3, <1>8, <2>3
    <3>2. Version(r.b) >= r.lo
      BY <2>1, <3>1 DEF FirstFresh
    <3> QED
      BY <1>3, <1>4, <3>2
  <2> QED
    BY <2>2, <2>3 DEF FirstFresh
<1>10. r.lo <= cur'[r.b]
  BY <1>3, <1>4, <1>7
<1>11. r.pc = "read" => content'[r.stack[r.pos]][r.b] >= r.lo
  BY <1>3, <1>6, <1>8 DEF ReadOK
<1>12. r.pc = "find" => Version(r.b)' >= r.lo
  BY <1>3, <1>4, <1>6 DEF ReadOK
<1>13. r.pc = "fetch" => content'[r.br][r.b] >= r.lo
  BY <1>3, <1>6, <1>8 DEF ReadOK
<1>14. r.pc = "done" => r.val >= r.lo /\ r.val <= cur'[r.b]
  BY <1>3, <1>4, <1>6 DEF ReadOK
<1>15. ReadOK(r)'
  BY <1>6, <1>9, <1>10, <1>11, <1>12, <1>13, <1>14 DEF ReadOK
<1>16. rd'[c] = r
  BY <1>2
<1> QED
  BY <1>15, <1>16, Zenon DEF ReadOK, FirstFresh, Version

\* A step of a read, which changes nothing else.
LEMMA ReadAlone ==
    ASSUME UNCHANGED <<content, cur, rangeMap, valueMap>>, NEW c, ReadOK(rd'[c])
    PROVE  ReadOK(rd[c])'
  BY Zenon DEF ReadOK, FirstFresh, Version

\* Each step of a read keeps it fresh.
LEMMA ReadAdvances ==
    ASSUME FInv, NEW c \in ActiveReads, ReadOK(rd[c]),
           ReadHole(c) \/ ReadData(c) \/ ReadLayer(c) \/ ReadFind(c) \/ ReadFetch(c)
    PROVE  ReadOK(rd[c])'
<1>1. RInv /\ Bounded /\ Apart
  BY HeldApart DEF FInv
<1> DEFINE r == rd[c]
           q == rd'[c]
           n == Len(rd[c].stack)
           b == rd[c].b
<1>2. /\ c \in Clients /\ DOMAIN rd = Clients
      /\ DOMAIN r = {"pc", "stack", "pos", "b", "br", "val", "lo"}
      /\ n \in Nat /\ r.pos \in 1..(n + 1)
      /\ r.pc = "read" => r.pos <= n
      /\ b \in Blocks /\ r.lo \in Nat /\ r.val \in Nat
      /\ \A i \in r.pos..n : r.stack[i] \in opened
      /\ r.pc = "fetch" => r.br \in opened
  BY <1>1, ReadFields
<1>3. UNCHANGED <<content, cur, rangeMap, valueMap>>
  BY DEF ReadHole, ReadData, ReadLayer, ReadFind, ReadFetch
<1>4. /\ cur[b] \in Nat /\ Version(b) \in Nat
      /\ \A f \in opened : content[f][b] \in Nat /\ content[f][b] <= cur[b]
  BY <1>1, <1>2 DEF Apart, Bounded
<1>5. r.lo <= cur[b]
  BY DEF ReadOK
<1>6. SUFFICES ReadOK(q)
  BY <1>3, ReadAlone
<1>7. CASE ReadHole(c)
  <2>1. r.pc = "hole" /\ FirstFresh(r) /\ r.val = 0
    BY <1>7 DEF ReadHole, ReadOK
  <2>2. /\ q.pc = (IF ~HasData(r) THEN "data" ELSE IF AtIndex(r) THEN "find" ELSE "read")
        /\ q.stack = r.stack /\ q.pos = r.pos /\ q.b = b /\ q.lo = r.lo /\ q.val = r.val
    BY <1>2, <1>7 DEF ReadHole
  <2> HIDE DEF q
  <2>3. CASE ~HasData(r)
    <3>1. FirstFresh(q)
      BY <2>1, <2>2, Zenon DEF FirstFresh
    <3> QED
      BY <1>5, <2>1, <2>2, <2>3, <3>1 DEF ReadOK
  <2>4. CASE HasData(r) /\ AtIndex(r)
    <3>1. \A j \in r.pos..n : FALSE
      BY <1>2, <2>4 DEF AtIndex
    <3>2. Version(b) >= r.lo
      BY <2>1, <3>1 DEF FirstFresh
    <3> QED
      BY <1>5, <2>1, <2>2, <2>4, <3>2 DEF ReadOK
  <2>5. CASE HasData(r) /\ ~AtIndex(r)
    <3>1. r.pos \in r.pos..n /\ \A j \in r.pos..(r.pos - 1) : FALSE
      BY <1>2, <2>5 DEF AtIndex
    <3>2. content[r.stack[r.pos]][b] = 0 \/ content[r.stack[r.pos]][b] >= r.lo
      BY <2>1, <3>1 DEF FirstFresh
    <3>3. content[r.stack[r.pos]][b] >= r.lo
      BY <2>5, <3>2 DEF HasData
    <3> QED
      BY <1>5, <2>1, <2>2, <2>5, <3>3 DEF ReadOK
  <2> QED
    BY <2>3, <2>4, <2>5
<1>8. CASE ReadData(c)
  <2>1. r.pc = "data" /\ FirstFresh(r) /\ r.val = 0
    BY <1>8 DEF ReadData, ReadOK
  <2>2. q = IF HasData(r) THEN [r EXCEPT !.pc = "hole"]
            ELSE IF AtIndex(r) THEN [r EXCEPT !.pc = "done"]
            ELSE [r EXCEPT !.pc = "hole", !.pos = @ + 1]
    BY <1>2, <1>8 DEF ReadData
  <2>3. CASE HasData(r)
    <3>1. /\ q.pc = "hole" /\ q.stack = r.stack /\ q.pos = r.pos /\ q.b = b
          /\ q.lo = r.lo /\ q.val = r.val
      BY <1>2, <2>2, <2>3
    <3> HIDE DEF q
    <3>2. FirstFresh(q)
      BY <2>1, <3>1, Zenon DEF FirstFresh
    <3> QED
      BY <1>5, <2>1, <3>1, <3>2 DEF ReadOK
  <2>4. CASE ~HasData(r) /\ AtIndex(r)
    <3>1. q.pc = "done" /\ q.b = b /\ q.lo = r.lo /\ q.val = r.val
      BY <1>2, <2>2, <2>4
    <3> HIDE DEF q
    <3>2. \A j \in r.pos..n : FALSE
      BY <1>2, <2>4 DEF AtIndex
    <3>3. Version(b) >= r.lo
      BY <2>1, <3>2 DEF FirstFresh
    <3>4. Version(b) = 0
      BY <2>4 DEF HasData, Version
    <3> QED
      BY <1>2, <1>4, <1>5, <2>1, <3>1, <3>3, <3>4 DEF ReadOK
  <2>5. CASE ~HasData(r) /\ ~AtIndex(r)
    <3>1. /\ q.pc = "hole" /\ q.stack = r.stack /\ q.pos = r.pos + 1 /\ q.b = b
          /\ q.lo = r.lo /\ q.val = r.val
      BY <1>2, <2>2, <2>5
    <3> HIDE DEF q
    <3>2. content[r.stack[r.pos]][b] = 0 /\ r.pos <= n
      BY <1>2, <2>5 DEF HasData, AtIndex
    <3>3. ASSUME NEW i \in (r.pos + 1)..n,
                 \A j \in (r.pos + 1)..(i - 1) : content[r.stack[j]][b] = 0
          PROVE  content[r.stack[i]][b] = 0 \/ content[r.stack[i]][b] >= r.lo
      <4>1. i \in r.pos..n /\ \A j \in r.pos..(i - 1) : j = r.pos \/ j \in (r.pos + 1)..(i - 1)
        BY <1>2
      <4>2. \A j \in r.pos..(i - 1) : content[r.stack[j]][b] = 0
        BY <3>2, <3>3, <4>1
      <4> QED
        BY <2>1, <4>1, <4>2 DEF FirstFresh
    <3>4. ASSUME \A j \in (r.pos + 1)..n : content[r.stack[j]][b] = 0 PROVE Version(b) >= r.lo
      <4>1. \A j \in r.pos..n : j = r.pos \/ j \in (r.pos + 1)..n
        BY <1>2
      <4>2. \A j \in r.pos..n : content[r.stack[j]][b] = 0
        BY <3>2, <3>4, <4>1
      <4> QED
        BY <2>1, <4>2 DEF FirstFresh
    <3>5. FirstFresh(q)
      BY <3>1, <3>3, <3>4 DEF FirstFresh
    <3> QED
      BY <1>5, <2>1, <3>1, <3>5 DEF ReadOK
  <2> QED
    BY <2>3, <2>4, <2>5
<1>9. CASE ReadLayer(c)
  <2>1. r.pc = "read" /\ content[r.stack[r.pos]][b] >= r.lo
    BY <1>9 DEF ReadLayer, ReadOK
  <2>2. q.pc = "done" /\ q.val = content[r.stack[r.pos]][b] /\ q.b = b /\ q.lo = r.lo
    BY <1>2, <1>9 DEF ReadLayer
  <2> HIDE DEF q
  <2>3. r.stack[r.pos] \in opened
    BY <1>2, <2>1
  <2> QED
    BY <1>4, <1>5, <2>1, <2>2, <2>3 DEF ReadOK
<1>10. CASE ReadFind(c)
  <2>1. r.pc = "find" /\ Version(b) >= r.lo /\ r.val = 0
    BY <1>10 DEF ReadFind, ReadOK
  <2>2. q = IF rangeMap[b] = 0 THEN [r EXCEPT !.pc = "done"]
            ELSE [r EXCEPT !.pc = "fetch", !.br = valueMap[rangeMap[b]]]
    BY <1>2, <1>10 DEF ReadFind
  <2>3. CASE rangeMap[b] = 0
    <3>1. q.pc = "done" /\ q.b = b /\ q.lo = r.lo /\ q.val = r.val
      BY <1>2, <2>2, <2>3
    <3> HIDE DEF q
    <3>2. Version(b) = 0
      BY <2>3 DEF Version
    <3> QED
      BY <1>2, <1>4, <1>5, <2>1, <3>1, <3>2 DEF ReadOK
  <2>4. CASE rangeMap[b] # 0
    <3>1. /\ q.pc = "fetch" /\ q.br = valueMap[rangeMap[b]] /\ q.b = b
          /\ q.lo = r.lo /\ q.val = r.val
      BY <1>2, <2>2, <2>4
    <3> HIDE DEF q
    <3>2. Version(b) = content[q.br][b]
      BY <2>4, <3>1 DEF Version
    <3> QED
      BY <1>5, <2>1, <3>1, <3>2 DEF ReadOK
  <2> QED
    BY <2>3, <2>4
<1>11. CASE ReadFetch(c)
  <2>1. r.pc = "fetch" /\ content[r.br][b] >= r.lo
    BY <1>11 DEF ReadFetch, ReadOK
  <2>2. q.pc = "done" /\ q.val = content[r.br][b] /\ q.b = b /\ q.lo = r.lo
    BY <1>2, <1>11 DEF ReadFetch
  <2> HIDE DEF q
  <2> QED
    BY <1>2, <1>4, <1>5, <2>1, <2>2 DEF ReadOK
<1> QED
  BY <1>7, <1>8, <1>9, <1>10, <1>11

\* The reads in flight stay fresh.
LEMMA ReadsOKStep ==
    ASSUME FInv, [RNext]_rvars
    PROVE  ReadsOK'
<1>1. RInv /\ ReadsOK /\ ReadType /\ Apart
  BY HeldApart DEF FInv, RInv, RTypes
<1> SUFFICES ASSUME NEW c \in ActiveReads' PROVE ReadOK(rd[c])'
  BY DEF ReadsOK
<1>2. c \in Clients /\ rd'[c].pc # "idle" /\ DOMAIN rd = Clients
  BY <1>1 DEF ActiveReads, ReadType
<1>3. CASE rd'[c] = rd[c]
  <2>1. c \in ActiveReads
    BY <1>2, <1>3 DEF ActiveReads
  <2> QED
    BY <1>1, <1>3, <2>1, ReadKept DEF ReadsOK
<1>4. ASSUME NEW b \in Blocks, ReadStart(c, b) PROVE ReadOK(rd[c])'
  <2> DEFINE q == rd'[c]
  <2>1. UNCHANGED <<content, cur, rangeMap, valueMap>>
    BY <1>4 DEF ReadStart
  <2>2. /\ q.pc = "hole" /\ q.stack = readerStack /\ q.pos = 1 /\ q.b = b /\ q.lo = cur[b]
        /\ q.val = 0
    BY <1>2, <1>4 DEF ReadStart, IdleRead
  <2>3. FirstFresh(q)
    <3> HIDE DEF q
    <3> QED
      BY <2>2, StartsFresh
  <2>4. cur[b] \in Nat
    BY <1>1 DEF Apart
  <2>5. ReadOK(q)
    <3> HIDE DEF q
    <3> QED
      BY <2>2, <2>3, <2>4 DEF ReadOK
  <2> QED
    BY <2>1, <2>5, ReadAlone
<1>5. ASSUME ReadHole(c) \/ ReadData(c) \/ ReadLayer(c) \/ ReadFind(c) \/ ReadFetch(c)
      PROVE  ReadOK(rd[c])'
  <2>1. c \in ActiveReads
    BY <1>2, <1>5 DEF ActiveReads, ReadHole, ReadData, ReadLayer, ReadFind, ReadFetch
  <2> QED
    BY <1>1, <1>5, <2>1, ReadAdvances DEF ReadsOK
<1>6. ~ReadReturn(c)
  BY <1>2 DEF ReadReturn, IdleRead
<1>7. ASSUME NEW d \in Clients, d # c, ReadStep(d) PROVE rd'[c] = rd[c]
  BY <1>2, <1>7 DEF ReadStep, ReadHole, ReadData, ReadLayer, ReadFind, ReadFetch, ReadReturn
<1>8. ASSUME NEW d \in Clients, NEW b \in Blocks, d # c, ReadStart(d, b) PROVE rd'[c] = rd[c]
  BY <1>2, <1>8 DEF ReadStart
<1>9. ASSUME UNCHANGED rd PROVE rd'[c] = rd[c]
  BY <1>9
<1>10. \/ \E d \in Clients, b \in Blocks : ReadStart(d, b)
       \/ \E d \in Clients : ReadStep(d)
       \/ UNCHANGED rd
  <2>1. (\E b \in Blocks : WriteStart(b) \/ WriteDo(b)) => UNCHANGED rd
    BY DEF WriteStart, WriteDo
  <2>2. MergeStep => UNCHANGED rd
    BY DEF MergeStep, MergeCheck, MergeAlloc, MergeAdd, MergeNext, MergeDrop, MergeWaited
  <2>3. (\E f \in Files, bs \in SUBSET Blocks : OpenPushReader(f, bs)) => UNCHANGED rd
    BY DEF OpenPushReader
  <2>4. (\E l \in Logs : PushWriter(l)) => UNCHANGED rd
    BY DEF PushWriter
  <2>5. PushNewLog \/ WritesDone \/ PushReader \/ RemoveWriter \/ RemoveWriterReturn
            \/ StartCompaction => UNCHANGED rd
    BY DEF PushNewLog, WritesDone, PushReader, RemoveWriter, RemoveWriterReturn, StartCompaction
  <2>6. /\ (\E t \in Tables, es \in SUBSET Tables : BuildTable(t, es)) => UNCHANGED rd
        /\ CompactAlloc => UNCHANGED rd
        /\ (\E a \in Blocks : CompactAdd(a)) => UNCHANGED rd
    BY DEF BuildTable, CompactAlloc, CompactAdd
  <2>7. /\ FindUnused \/ RemoveTable \/ CompactionDone => UNCHANGED rd
        /\ (\E f \in Files : RemoveUnusedBarrier(f) \/ CloseFile(f)) => UNCHANGED rd
    BY DEF FindUnused, RemoveTable, CompactionDone, RemoveUnusedBarrier, CloseFile
  <2>8. UNCHANGED rvars => UNCHANGED rd
    BY DEF rvars
  <2> QED
    BY <2>1, <2>2, <2>3, <2>4, <2>5, <2>6, <2>7, <2>8 DEF RNext, RunStep
<1> QED
  BY <1>3, <1>4, <1>5, <1>6, <1>7, <1>8, <1>10 DEF ReadStep

-----------------------------------------------------------------------------
(* The theorem *)

\* Nothing has been written yet.
LEMMA FInitInv == RInit => FInv
<1> SUFFICES ASSUME RInit PROVE FInv
  OBVIOUS
<1> USE FilesAssumption, BoundsAssumption
<1>1. RInv /\ Apart
  BY RInitInv, HeldApart
<1>2. /\ content = [f \in Files |-> Hole] /\ cur = Hole /\ rangeMap = Hole
      /\ active = NoFile /\ pendingReaders = <<>> /\ rs = {} /\ mg = IdleMerge
      /\ run = [IdleRun EXCEPT !.pc = "open"] /\ rd = [c \in Clients |-> IdleRead]
  BY DEF RInit
<1>3. run.pc = "open" /\ mg.pc = "check" /\ mg.files = <<>>
  BY <1>2 DEF IdleRun, IdleMerge
<1>4. WritingLogs = {} /\ PendingFiles = {} /\ MergeFiles = {}
  BY <1>2, <1>3 DEF WritingLogs, PendingFiles, MergeFiles, InRotation, Files
<1>5. \A b \in Blocks : cur[b] = 0 /\ Version(b) = 0
  BY <1>2 DEF Hole, Version
<1>6. Bounded
  BY <1>2 DEF Bounded, Hole
<1>7. PendingOrder /\ WritersOrder /\ MergeOrder /\ RotationHeld /\ IndexBelow /\ IndexAbove
      /\ TableSame
  BY <1>2, <1>3, <1>4
  DEF PendingOrder, WritersOrder, MergeOrder, RotationHeld, IndexBelow, IndexAbove, TableSame,
      InRotation, Layers
<1>8. LastHeld
  BY <1>4, <1>5 DEF LastHeld, Layers
<1>9. ReadsOK
  BY <1>2 DEF ReadsOK, ActiveReads, IdleRead
<1> QED
  BY <1>1, <1>6, <1>7, <1>8, <1>9 DEF FInv

\* FInv is inductive.
LEMMA FStepInv == FInv /\ [RNext]_rvars => FInv'
<1> SUFFICES ASSUME FInv, [RNext]_rvars PROVE FInv'
  OBVIOUS
<1>1. RInv'
  BY RStepInv DEF FInv
<1> QED
  BY <1>1, BoundedStep, PendingOrderStep, WritersOrderStep, MergeOrderStep, RotationHeldStep,
     IndexBelowStep, IndexAboveStep, TableSameStep, LastHeldStep, ReadsOKStep
  DEF FInv

\* A read returns a version at least as new as the last one written before it
\* began, and none that was not written, whatever the merge loop, rotations and
\* compactions do to the layers under it.
THEOREM FreshReads == RSafeSpec => []ReadsFresh
<1>1. FInv => ReadsFresh
  <2> SUFFICES ASSUME FInv, NEW c \in Clients, rd[c].pc = "done"
               PROVE  rd[c].val \in rd[c].lo..cur[rd[c].b]
    BY DEF ReadsFresh
  <2>1. c \in ActiveReads /\ RInv /\ Apart
    BY HeldApart DEF ActiveReads, FInv
  <2>2. rd[c].b \in Blocks /\ rd[c].lo \in Nat /\ rd[c].val \in Nat
    BY <2>1, ReadFields
  <2>3. ReadOK(rd[c])
    BY <2>1 DEF FInv, ReadsOK
  <2>4. rd[c].val >= rd[c].lo /\ rd[c].val <= cur[rd[c].b] /\ cur[rd[c].b] \in Nat
    BY <2>1, <2>2, <2>3 DEF ReadOK, Apart
  <2> QED
    BY <2>2, <2>4
<1> QED
  BY <1>1, FInitInv, FStepInv, PTL DEF RSafeSpec
=============================================================================
