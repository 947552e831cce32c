-------------------------- MODULE BlockFile_proofs --------------------------
(***************************************************************************)
(* Proofs about block/block_file.go for any number of logs, blocks,        *)
(* writes, tables and crashes: whenever the process stops, every file that *)
(* the stored metadata names exists; a table is never overwritten while it *)
(* is in use.                                                              *)
(*                                                                         *)
(* Neither is inductive by itself.  BInv adds that the lists of files hold *)
(* no file twice (so that the one entry that is removed before a file is   *)
(* deleted was the only one), that what is about to be deleted is in       *)
(* neither list, and that sequence numbers grow.                           *)
(***************************************************************************)
EXTENDS BlockFile, WriterTracker_proofs, SequenceTheorems, FiniteSetTheorems, FunctionTheorems,
        WellFoundedInduction

AllLogs == {LogFile(l) : l \in Logs}
AllTables == {TableFile(s) : s \in 1..MaxSeq}
DataFiles == AllLogs \cup AllTables

Opening == {"openMake", "openSave", "openPush"}
Rotating == {"rotateSave", "rotateSwap", "rotateWait", "rotatePush"}
WithLog == {"openSave", "openPush"} \cup Rotating
Compacting == {"build", "install", "removing", "commit", "delete"}
Closing == {"closing", "closeSave", "closeDelete"}
Pcs == {"down", "idle", "loop", "check", "rotate", "start"}
         \cup Opening \cup Rotating \cup Compacting \cup Closing

-----------------------------------------------------------------------------
(* The inductive invariant *)

\* Nothing of the tracker is left when the process is not running.
DownIdle ==
    pc = "down" =>
        /\ activeWriter = NoLog
        /\ pendingWriters = <<>>
        /\ wr = [b \in Blocks |-> IdleWrite]
        /\ fl = [f \in Flushers |-> IdleFlush]
        /\ closer = [l \in Logs |-> "none"]
        /\ push = IdlePush
        /\ rem = IdleRem
        /\ cl = IdleClose

JobType ==
    /\ pc \in Pcs
    /\ job \in [log : Logs \cup {NoLog}, table : Nat, unused : SUBSET DataFiles]
    /\ pc \in WithLog => job.log \in Logs

ListsType ==
    /\ meta \in Seq(DataFiles)
    /\ diskMeta \in Seq(DataFiles)
    /\ nextSeq \in 1..(MaxSeq + 1)
    /\ logFiles \subseteq Logs
    /\ DOMAIN tables \subseteq 1..MaxSeq

ReadersType ==
    /\ writers \in Seq(AllLogs)
    /\ pendingReaders \in Seq(DataFiles)
    /\ rs \subseteq DataFiles
    /\ IsFiniteSet(rs)
    /\ index \in [Blocks -> rs \cup {NoFile}]
    /\ compacting <=> pc \in Compacting
    /\ compacting => pendingReaders = <<>>

Versions == 0..MaxVersion
ContentsType ==
    /\ \A s \in DOMAIN tables : tables[s] \in [Blocks -> Versions]
    /\ \A l \in Logs : \A i \in DOMAIN entries[l] : entries[l][i] \in Blocks \X Versions
    /\ acked \in [Blocks -> Versions]
    /\ flushed \in [Blocks -> Versions]
    /\ cur \in [Blocks -> Versions]
    /\ need \in [Flushers -> [Blocks -> Versions]]

\* The entry that RemoveWriteLog and RemoveSparseDataFile find is the only one.
Distinct(files) == \A i, j \in DOMAIN files : files[i] = files[j] => i = j
ListsDistinct == Distinct(meta) /\ Distinct(diskMeta)

\* The new log or table of a job exists and is in no list yet; what a job is
\* about to delete is in no list any longer.
Listed == FileSet(meta) \cup FileSet(diskMeta)
JobHeld ==
    /\ pc \in {"openSave", "rotateSave"} => /\ job.log \in logFiles
                                            /\ LogFile(job.log) \notin FileSet(meta)
    /\ pc \in {"install", "removing", "commit"} => /\ job.table \in DOMAIN tables
                                                   /\ job.table < nextSeq
                                                   /\ TableFile(job.table) \notin FileSet(meta)
    /\ pc \in {"delete", "closeDelete"} => job.unused \cap Listed = {}
    /\ pc = "closeDelete" => job.unused \subseteq AllLogs

\* Both lists name files that exist; so does the reader tracker, as far as
\* tables are concerned.
Exists(e) == IF e.type = "log" THEN e.name \in logFiles ELSE e.name \in DOMAIN tables
ReaderFiles == rs \cup FileSet(pendingReaders)
FilesExist ==
    /\ \A e \in Listed : Exists(e)
    /\ \A e \in ReaderFiles : e.type = "table" => Exists(e)
    /\ pc = "delete" => job.unused \cap rs = {}

\* The next table gets a number that no table in use has.
SeqFresh ==
    pc # "down" => \A e \in Listed \cup ReaderFiles : e.type = "table" => e.name < nextSeq

\* A process that is not running has no readers.
DownEmpty == pc = "down" => rs = {} /\ pendingReaders = <<>> /\ meta = <<>>

BInv ==
    /\ WInv
    /\ DownIdle
    /\ JobType
    /\ ListsType
    /\ ReadersType
    /\ ContentsType
    /\ ListsDistinct
    /\ JobHeld
    /\ FilesExist
    /\ SeqFresh
    /\ DownEmpty

\* The abbreviations of the frame conditions.
USE DEF logvars, callvars, waitvars, diskvars, readvars, ctlvars, histvars

-----------------------------------------------------------------------------
(* Numbers *)

\* Every nonempty set of numbers has a least one ...
LEMMA LeastNat ==
    ASSUME NEW T \in SUBSET Nat, T # {}
    PROVE  \E n \in T : \A m \in T : n <= m
<1> DEFINE R == {ss \in Nat \X Nat : ss[1] < ss[2]}
<1>1. IsWellFoundedOn(R, Nat)
  BY NatLessThanWellFounded DEF OpToRel
<1>2. PICK n \in T : \A m \in T : ~ (<<m, n>> \in R)
  BY <1>1, WFMin
<1>3. \A m \in T : ~(m < n)
  BY <1>2
<1> QED
  BY <1>3

\* ... which Min finds ...
LEMMA MinOfSet ==
    ASSUME NEW T \in SUBSET Nat, T # {}
    PROVE  Min(T) \in T /\ \A m \in T : Min(T) <= m
<1>1. \E n \in T : \A m \in T : n =< m
  BY LeastNat
<1> QED
  BY <1>1 DEF Min

\* ... and, if it is bounded, a greatest one, which Max finds.
LEMMA MaxOfBounded ==
    ASSUME NEW T \in SUBSET Nat, T # {}, NEW n \in Nat, \A m \in T : m <= n
    PROVE  Max(T) \in T /\ \A m \in T : m <= Max(T)
<1> DEFINE U == {n - m : m \in T}
<1>1. U \in SUBSET Nat /\ U # {}
  <2>1. \A m \in T : n - m \in Nat
    OBVIOUS
  <2> QED
    BY <2>1
<1>2. PICK k \in U : \A m \in U : k <= m
  BY <1>1, LeastNat
<1>3. PICK x \in T : k = n - x
  OBVIOUS
<1>4. \A m \in T : x >= m
  <2> SUFFICES ASSUME NEW m \in T PROVE x >= m
    OBVIOUS
  <2>1. n - m \in U
    OBVIOUS
  <2>2. n - x <= n - m
    BY <1>2, <1>3, <2>1
  <2> QED
    BY <2>2
<1>5. \E y \in T : \A m \in T : y >= m
  BY <1>4
<1>6. Max(T) \in T /\ \A m \in T : Max(T) >= m
  BY <1>5 DEF Max
<1> QED
  BY <1>6

-----------------------------------------------------------------------------
(* The lists of files as sets *)

\* e comes before f in a list; one list has its files in the order of another.
Before(files, e, f) == \E i, j \in DOMAIN files : i < j /\ files[i] = e /\ files[j] = f
SameOrder(new, old) == \A e, f \in FileSet(new) : Before(new, e, f) => Before(old, e, f)

\* A list that is typed has its files in the type, and has finitely many.
LEMMA FileSetType ==
    ASSUME NEW S, NEW files \in Seq(S)
    PROVE  /\ FileSet(files) \subseteq S
           /\ IsFiniteSet(FileSet(files))
           /\ DOMAIN files = 1..Len(files)
           /\ Len(files) \in Nat
<1>1. DOMAIN files = 1..Len(files) /\ Len(files) \in Nat
  OBVIOUS
<1>2. files \in Surjection(DOMAIN files, FileSet(files))
  BY <1>1 DEF Surjection, FileSet
<1>3. IsFiniteSet(DOMAIN files)
  BY <1>1, FS_Interval
<1>4. IsFiniteSet(FileSet(files))
  BY <1>2, <1>3, FS_Surjection
<1> QED
  BY <1>1, <1>4 DEF FileSet

\* Metadata.PushWriteLog: a new entry at the end.
LEMMA AppendFile ==
    ASSUME NEW S, NEW files \in Seq(S), NEW e \in S
    PROVE  /\ Append(files, e) \in Seq(S)
           /\ FileSet(Append(files, e)) = FileSet(files) \cup {e}
           /\ Distinct(files) /\ e \notin FileSet(files) => Distinct(Append(files, e))
<1> DEFINE new == Append(files, e)
<1>1. /\ new \in Seq(S)
      /\ DOMAIN files = 1..Len(files) /\ Len(files) \in Nat
      /\ DOMAIN new = 1..(Len(files) + 1)
      /\ \A i \in 1..Len(files) : new[i] = files[i]
      /\ new[Len(files) + 1] = e
  OBVIOUS
<1> HIDE DEF new
<1>2. FileSet(new) = FileSet(files) \cup {e}
  BY <1>1 DEF FileSet
<1>3. Distinct(files) /\ e \notin FileSet(files) => Distinct(new)
  BY <1>1 DEF FileSet, Distinct
<1> QED
  BY <1>1, <1>2, <1>3 DEF new

\* A new entry at the front.
LEMMA PrependFile ==
    ASSUME NEW S, NEW files \in Seq(S), NEW e \in S
    PROVE  /\ <<e>> \o files \in Seq(S)
           /\ FileSet(<<e>> \o files) = FileSet(files) \cup {e}
<1> DEFINE new == <<e>> \o files
<1>1. /\ new \in Seq(S)
      /\ DOMAIN files = 1..Len(files) /\ Len(files) \in Nat
      /\ DOMAIN new = 1..(Len(files) + 1)
      /\ \A i \in 1..Len(files) : new[i + 1] = files[i]
      /\ new[1] = e
  OBVIOUS
<1>2. \A k \in DOMAIN new : k = 1 \/ (k - 1 \in 1..Len(files) /\ (k - 1) + 1 = k)
  BY <1>1
<1> HIDE DEF new
<1>3. \A k \in DOMAIN new : new[k] \in FileSet(files) \cup {e}
  BY <1>1, <1>2 DEF FileSet
<1>4. \A i \in DOMAIN files : i + 1 \in DOMAIN new /\ new[i + 1] = files[i]
  BY <1>1
<1>5. 1 \in DOMAIN new
  BY <1>1
<1>6. FileSet(new) \subseteq FileSet(files) \cup {e}
  BY <1>3 DEF FileSet
<1>7. FileSet(files) \cup {e} \subseteq FileSet(new)
  BY <1>1, <1>4, <1>5 DEF FileSet
<1> QED
  BY <1>1, <1>6, <1>7 DEF new

\* The order in which the readers are stacked is that of the list, reversed.
LEMMA ReverseFiles ==
    ASSUME NEW S, NEW files \in Seq(S)
    PROVE  /\ Reverse(files) \in Seq(S)
           /\ FileSet(Reverse(files)) = FileSet(files)
<1> DEFINE new == Reverse(files)
           len == Len(files)
<1>1. /\ len \in Nat
      /\ DOMAIN files = 1..len
      /\ \A i \in 1..len : (len - i) + 1 \in 1..len /\ (len - ((len - i) + 1)) + 1 = i
  OBVIOUS
<1>2. new = [i \in 1..len |-> files[(len - i) + 1]]
  BY DEF Reverse
<1> HIDE DEF new, len
<1>3. DOMAIN new = 1..len /\ \A i \in 1..len : new[i] = files[(len - i) + 1]
  BY <1>2
<1>4. \A i \in 1..len : new[i] \in S
  BY <1>1, <1>3, FileSetType DEF FileSet
<1>5. new \in Seq(S)
  BY <1>1, <1>2, <1>4
<1>6. \A i \in 1..len : files[i] = new[(len - i) + 1]
  BY <1>1, <1>3
<1>7. FileSet(new) = FileSet(files)
  BY <1>1, <1>3, <1>6 DEF FileSet
<1> QED
  BY <1>5, <1>7 DEF new

\* What slices.Delete keeps of a list.
LEMMA Halves ==
    ASSUME NEW S, NEW files \in Seq(S), NEW k \in 1..Len(files)
    PROVE  /\ SubSeq(files, 1, k - 1) \in Seq(S)
           /\ Len(SubSeq(files, 1, k - 1)) = k - 1
           /\ \A i \in 1..(k - 1) : SubSeq(files, 1, k - 1)[i] = files[i]
           /\ SubSeq(files, k + 1, Len(files)) \in Seq(S)
           /\ Len(SubSeq(files, k + 1, Len(files))) = Len(files) - k
           /\ \A i \in 1..(Len(files) - k) : SubSeq(files, k + 1, Len(files))[i] = files[k + i]
  OBVIOUS

\* RemoveWriteLog and RemoveSparseDataFile: one entry goes.
LEMMA RemoveFile ==
    ASSUME NEW S, NEW files \in Seq(S), NEW e
    PROVE  /\ RemoveFirst(files, e) \in Seq(S)
           /\ FileSet(RemoveFirst(files, e)) \subseteq FileSet(files)
           /\ SameOrder(RemoveFirst(files, e), files)
           /\ Distinct(files) => /\ Distinct(RemoveFirst(files, e))
                                 /\ FileSet(RemoveFirst(files, e)) = FileSet(files) \ {e}
<1> DEFINE len == Len(files)
           I == {i \in 1..len : files[i] = e}
<1>1. len \in Nat /\ DOMAIN files = 1..len
  OBVIOUS
<1>2. CASE ~ \E i \in 1..len : files[i] = e
  BY <1>1, <1>2 DEF RemoveFirst, FileSet, SameOrder
<1>3. CASE \E i \in 1..len : files[i] = e
  <2> DEFINE k == Min(I)
             new == RemoveFirst(files, e)
  <2>1. k \in I
    <3>1. I \in SUBSET Nat /\ I # {}
      BY <1>3
    <3> HIDE DEF I
    <3> QED
      BY <3>1, MinOfSet
  <2>2. k \in 1..len /\ files[k] = e
    BY <2>1
  <2>3. new = SubSeq(files, 1, k - 1) \o SubSeq(files, k + 1, len)
    BY <1>3 DEF RemoveFirst, RemoveAt, SelectInSeq
  <2> HIDE DEF k, new, I
  <2>4. /\ new \in Seq(S)
        /\ DOMAIN new = 1..(len - 1)
        /\ \A i \in 1..(len - 1) : new[i] = IF i < k THEN files[i] ELSE files[i + 1]
    <3> DEFINE pre == SubSeq(files, 1, k - 1)
               post == SubSeq(files, k + 1, len)
    <3>1. /\ pre \in Seq(S) /\ Len(pre) = k - 1
          /\ \A i \in 1..(k - 1) : pre[i] = files[i]
      BY <2>2, Halves
    <3>2. /\ post \in Seq(S) /\ Len(post) = len - k
          /\ \A i \in 1..(len - k) : post[i] = files[k + i]
      BY <2>2, Halves
    <3> HIDE DEF pre, post, len
    <3>3. new = pre \o post
      BY <2>3 DEF pre, post
    <3>4. new \in Seq(S) /\ Len(new) = len - 1
      <4>1. new \in Seq(S) /\ Len(new) = Len(pre) + Len(post)
        BY <3>1, <3>2, <3>3, ConcatProperties
      <4> QED
        BY <1>1, <2>2, <3>1, <3>2, <4>1
    <3>5. ASSUME NEW i \in 1..(len - 1) PROVE new[i] = IF i < k THEN files[i] ELSE files[i + 1]
      <4>1. CASE i < k
        BY <1>1, <2>2, <3>1, <3>2, <3>3, <4>1
      <4>2. CASE ~(i < k)
        <5>1. i - (k - 1) \in 1..(len - k) /\ k + (i - (k - 1)) = i + 1
          BY <1>1, <2>2, <4>2
        <5>2. new[i] = post[i - (k - 1)]
          BY <1>1, <2>2, <3>1, <3>2, <3>3, <4>2
        <5> QED
          BY <3>2, <4>2, <5>1, <5>2
      <4> QED
        BY <4>1, <4>2
    <3> QED
      BY <1>1, <3>4, <3>5
  <2> HIDE DEF len
  <2>5. FileSet(new) \subseteq FileSet(files)
    BY <1>1, <2>2, <2>4 DEF FileSet
  <2>6. ASSUME Distinct(files) PROVE Distinct(new)
    <3> SUFFICES ASSUME NEW i \in 1..(len - 1), NEW j \in 1..(len - 1), new[i] = new[j]
                 PROVE  i = j
      BY <2>4 DEF Distinct
    <3> DEFINE At(n) == IF n < k THEN n ELSE n + 1
    <3>1. \A n \in 1..(len - 1) : At(n) \in 1..len /\ new[n] = files[At(n)]
      BY <1>1, <2>2, <2>4
    <3>2. At(i) = At(j)
      BY <1>1, <2>6, <3>1 DEF Distinct
    <3> QED
      BY <1>1, <2>2, <3>2
  <2>7. ASSUME Distinct(files) PROVE FileSet(new) = FileSet(files) \ {e}
    <3>1. \A i \in 1..(len - 1) : new[i] # e
      BY <1>1, <2>2, <2>4, <2>7 DEF Distinct
    <3>2. ASSUME NEW i \in 1..len, files[i] # e PROVE files[i] \in FileSet(new)
      <4>1. CASE i < k
        <5>1. i \in 1..(len - 1) /\ new[i] = files[i]
          BY <1>1, <2>2, <2>4, <4>1
        <5> QED
          BY <2>4, <5>1 DEF FileSet
      <4>2. CASE i > k
        <5>1. i - 1 \in 1..(len - 1) /\ ~(i - 1 < k) /\ (i - 1) + 1 = i
          BY <1>1, <2>2, <4>2
        <5>2. new[i - 1] = files[i]
          BY <2>4, <5>1
        <5> QED
          BY <2>4, <5>1, <5>2 DEF FileSet
      <4> QED
        BY <1>1, <2>2, <3>2, <4>1, <4>2
    <3> QED
      BY <1>1, <2>4, <2>5, <3>1, <3>2 DEF FileSet
  <2>8. ASSUME NEW x, NEW y, Before(new, x, y) PROVE Before(files, x, y)
    <3>1. PICK i \in 1..(len - 1), j \in 1..(len - 1) : i < j /\ new[i] = x /\ new[j] = y
      BY <2>4, <2>8 DEF Before
    <3> DEFINE At(n) == IF n < k THEN n ELSE n + 1
    <3>2. \A n \in 1..(len - 1) : At(n) \in 1..len /\ new[n] = files[At(n)]
      BY <1>1, <2>2, <2>4
    <3>3. At(i) < At(j)
      BY <1>1, <2>2, <3>1
    <3> HIDE DEF At
    <3> QED
      BY <1>1, <3>1, <3>2, <3>3 DEF Before
  <2> QED
    BY <2>4, <2>5, <2>6, <2>7, <2>8 DEF new, SameOrder
<1> QED
  BY <1>2, <1>3

\* CompactWriteLog: the table takes the place of the log.
LEMMA CompactFile ==
    ASSUME NEW files \in Seq(DataFiles), NEW l, NEW s \in 1..MaxSeq
    PROVE  /\ CompactWriteLog(files, l, s) \in Seq(DataFiles)
           /\ FileSet(CompactWriteLog(files, l, s)) \subseteq FileSet(files) \cup {TableFile(s)}
           /\ Distinct(files) /\ TableFile(s) \notin FileSet(files) =>
                 Distinct(CompactWriteLog(files, l, s))
<1> DEFINE new == CompactWriteLog(files, l, s)
<1>1. Len(files) \in Nat /\ DOMAIN files = 1..Len(files)
  OBVIOUS
<1>2. new = [i \in DOMAIN files |-> IF files[i] = LogFile(l) THEN TableFile(s) ELSE files[i]]
  BY DEF CompactWriteLog
<1> HIDE DEF new
<1>3. TableFile(s) \in DataFiles
  BY DEF DataFiles, AllTables
<1>4. \A i \in DOMAIN files : files[i] \in DataFiles /\ files[i] \in FileSet(files)
  BY <1>1 DEF FileSet
<1>5. new \in Seq(DataFiles)
  BY <1>1, <1>2, <1>3, <1>4
<1>6. FileSet(new) \subseteq FileSet(files) \cup {TableFile(s)}
  BY <1>2, <1>4 DEF FileSet
<1>7. Distinct(files) /\ TableFile(s) \notin FileSet(files) => Distinct(new)
  BY <1>2, <1>4 DEF Distinct
<1> QED
  BY <1>5, <1>6, <1>7 DEF new

\* RemoveAll as a recursion over the sets of files still to be removed.
Drop(e, fs) == IF e.type = "log" THEN RemoveWriteLog(fs, e.name)
               ELSE RemoveSparseDataFile(fs, e.name)
Pick(s) == CHOOSE x \in s : TRUE
DropPicked(files, s, g) == IF s = {} THEN files ELSE Drop(Pick(s), g[s \ {Pick(s)}])
Dropped(files, unused, g) == g = [s \in SUBSET unused |-> DropPicked(files, s, g)]

LEMMA RemoveAllUnfold ==
    ASSUME NEW files, NEW unused
    PROVE  RemoveAll(files, unused) = (CHOOSE g : Dropped(files, unused, g))[unused]
  BY Zenon DEF RemoveAll, FoldSet, MapThenFoldSet, Dropped, DropPicked, Drop, Pick

\* A set loses one element at a time.
LEMMA PickOne ==
    ASSUME NEW unused, IsFiniteSet(unused), NEW s \in SUBSET unused
    PROVE  /\ Cardinality(s) \in Nat
           /\ s = {} <=> Cardinality(s) = 0
           /\ s # {} => /\ Pick(s) \in s
                        /\ s \ {Pick(s)} \in SUBSET unused
                        /\ Cardinality(s \ {Pick(s)}) = Cardinality(s) - 1
<1>1. IsFiniteSet(s)
  BY FS_Subset
<1>2. Cardinality(s) \in Nat /\ (s = {} <=> Cardinality(s) = 0)
  BY <1>1, FS_CardinalityType, FS_EmptySet
<1>3. s # {} => Pick(s) \in s
  BY DEF Pick
<1>4. s # {} => Cardinality(s \ {Pick(s)}) = Cardinality(s) - 1
  BY <1>1, <1>3, FS_RemoveElement
<1> QED
  BY <1>2, <1>3, <1>4

\* The recursion is well defined: over the sets of at most n files, for every n.
LEMMA DroppedExists ==
    ASSUME NEW files, NEW unused, IsFiniteSet(unused)
    PROVE  \E g : Dropped(files, unused, g)
<1> DEFINE Small(n) == {s \in SUBSET unused : Cardinality(s) <= n}
           Upto(n, g) == g = [s \in Small(n) |-> DropPicked(files, s, g)]
           Bad == {n \in Nat : ~ \E g : Upto(n, g)}
<1>1. Bad = {}
  <2> SUFFICES ASSUME Bad # {} PROVE FALSE
    OBVIOUS
  <2>1. PICK n \in Bad : \A m \in Bad : n <= m
    BY LeastNat
  <2>2. n # 0
    <3>1. Upto(0, [s \in Small(0) |-> files])
      <4>1. ASSUME NEW s \in Small(0) PROVE s = {}
        <5>1. s \in SUBSET unused /\ Cardinality(s) <= 0
          OBVIOUS
        <5>2. Cardinality(s) \in Nat /\ (s = {} <=> Cardinality(s) = 0)
          BY <5>1, PickOne
        <5> QED
          BY <5>1, <5>2
      <4> QED
        BY <4>1 DEF DropPicked
    <3> QED
      BY <3>1
  <2>3. n \in Nat /\ n - 1 \in Nat /\ n - 1 \notin Bad
    <3>1. n \in Nat
      OBVIOUS
    <3> HIDE DEF Bad
    <3> QED
      BY <2>1, <2>2, <3>1
  <2>4. PICK g : Upto(n - 1, g)
    BY <2>3
  <2> DEFINE h == [s \in Small(n) |-> DropPicked(files, s, g)]
  <2>5. \A s \in Small(n - 1) : s \in Small(n) /\ h[s] = g[s]
    <3> SUFFICES ASSUME NEW s \in Small(n - 1) PROVE s \in Small(n) /\ h[s] = g[s]
      OBVIOUS
    <3>1. s \in Small(n)
      <4>1. Cardinality(s) \in Nat /\ Cardinality(s) <= n - 1
        BY PickOne
      <4> QED
        BY <2>3, <4>1
    <3>2. g[s] = DropPicked(files, s, g)
      BY <2>4
    <3> QED
      BY <3>1, <3>2
  <2>6. \A s \in Small(n) : s # {} => s \ {Pick(s)} \in Small(n - 1)
    BY <2>3, PickOne
  <2>7. \A s \in Small(n) : DropPicked(files, s, g) = DropPicked(files, s, h)
    <3> HIDE DEF Small, h
    <3> QED
      BY <2>5, <2>6 DEF DropPicked
  <2>8. Upto(n, h)
    BY <2>7
  <2> QED
    BY <2>1, <2>8
<1>2. PICK g : Upto(Cardinality(unused), g)
  BY <1>1, FS_CardinalityType
<1>3. Small(Cardinality(unused)) = SUBSET unused
  BY FS_Subset
<1> QED
  BY <1>2, <1>3 DEF Dropped

\* removeUnusedTables' edits: exactly the unused files leave a list that has no
\* file twice, and nothing else changes.
LEMMA RemoveAllFiles ==
    ASSUME NEW files \in Seq(DataFiles), Distinct(files),
           NEW unused \in SUBSET DataFiles, IsFiniteSet(unused)
    PROVE  /\ RemoveAll(files, unused) \in Seq(DataFiles)
           /\ Distinct(RemoveAll(files, unused))
           /\ FileSet(RemoveAll(files, unused)) = FileSet(files) \ unused
           /\ SameOrder(RemoveAll(files, unused), files)
<1>1. PICK g : Dropped(files, unused, g) /\ RemoveAll(files, unused) = g[unused]
  <2> DEFINE g == CHOOSE g : Dropped(files, unused, g)
  <2>1. Dropped(files, unused, g)
    BY DroppedExists
  <2> QED
    BY <2>1, RemoveAllUnfold
<1> DEFINE Good(s) == /\ g[s] \in Seq(DataFiles)
                      /\ Distinct(g[s])
                      /\ FileSet(g[s]) = FileSet(files) \ s
                      /\ SameOrder(g[s], files)
           Bad == {n \in Nat : \E s \in SUBSET unused : Cardinality(s) = n /\ ~ Good(s)}
<1>2. Bad = {}
  <2> SUFFICES ASSUME Bad # {} PROVE FALSE
    OBVIOUS
  <2>1. PICK n \in Bad : \A m \in Bad : n <= m
    BY LeastNat
  <2>2. PICK s \in SUBSET unused : Cardinality(s) = n /\ ~ Good(s)
    BY <2>1
  <2>3. g[s] = DropPicked(files, s, g)
    BY <1>1 DEF Dropped
  <2>4. s # {}
    BY <2>2, <2>3 DEF DropPicked, SameOrder
  <2> DEFINE e == Pick(s)
             rest == g[s \ {e}]
  <2>5. Good(s \ {e})
    <3>1. n \in Nat /\ n - 1 \in Nat
      <4>1. Cardinality(s) \in Nat /\ Cardinality(s) # 0
        BY <2>4, PickOne
      <4> QED
        BY <2>2, <4>1
    <3>3. n - 1 \notin Bad
      <4> HIDE DEF Bad
      <4> QED
        BY <2>1, <3>1
    <3>2. s \ {e} \in SUBSET unused /\ Cardinality(s \ {e}) = n - 1
      BY <2>2, <2>4, PickOne
    <3> QED
      BY <3>1, <3>2, <3>3
  <2>6. e \in s /\ e \in DataFiles
    BY <2>4, PickOne
  <2>7. Drop(e, rest) = RemoveFirst(rest, e)
    <3>1. e.type = "log" => e = LogFile(e.name)
      BY <2>6 DEF DataFiles, AllLogs, AllTables, LogFile, TableFile
    <3>2. e.type # "log" => e = TableFile(e.name)
      BY <2>6 DEF DataFiles, AllLogs, AllTables, LogFile, TableFile
    <3> QED
      BY <3>1, <3>2 DEF Drop, RemoveWriteLog, RemoveSparseDataFile
  <2>8. g[s] = RemoveFirst(rest, e)
    BY <2>3, <2>4, <2>7 DEF DropPicked
  <2>9. Good(s)
    <3>1. /\ rest \in Seq(DataFiles)
          /\ Distinct(rest)
          /\ FileSet(rest) = FileSet(files) \ (s \ {e})
          /\ SameOrder(rest, files)
      BY <2>5
    <3> HIDE DEF rest, e
    <3>2. /\ RemoveFirst(rest, e) \in Seq(DataFiles)
          /\ Distinct(RemoveFirst(rest, e))
          /\ FileSet(RemoveFirst(rest, e)) = FileSet(rest) \ {e}
          /\ SameOrder(RemoveFirst(rest, e), rest)
      BY <3>1, RemoveFile
    <3>3. SameOrder(RemoveFirst(rest, e), files)
      BY <3>1, <3>2 DEF SameOrder
    <3> QED
      BY <2>6, <2>8, <3>1, <3>2, <3>3
  <2> QED
    BY <2>2, <2>9
<1>3. Good(unused)
  BY <1>2, FS_CardinalityType
<1> QED
  BY <1>1, <1>3

\* The logs that are opened for a stored list: each one once, in its order.
Named(files, g, n) ==
    g = [i \in 0..n |-> IF i = 0 THEN <<>>
                        ELSE IF files[i].type = "log" THEN Append(g[i - 1], files[i].name)
                        ELSE g[i - 1]]

LEMMA LogNamesUnfold ==
    ASSUME NEW files
    PROVE  LogNames(files) = (CHOOSE g : Named(files, g, Len(files)))[Len(files)]
  BY Zenon DEF LogNames, Named

LEMMA NamedExists ==
    ASSUME NEW files, NEW len \in Nat
    PROVE  \E g : Named(files, g, len)
<1> DEFINE Bad == {n \in Nat : ~ \E g : Named(files, g, n)}
<1> SUFFICES ASSUME Bad # {} PROVE FALSE
  OBVIOUS
<1>1. PICK n \in Bad : \A m \in Bad : n <= m
  BY LeastNat
<1>2. n # 0
  <2>1. Named(files, [i \in 0..0 |-> <<>>], 0)
    BY DEF Named
  <2> QED
    BY <2>1
<1>3. n - 1 \in Nat /\ n - 1 \notin Bad
  BY <1>1, <1>2
<1>4. PICK g : Named(files, g, n - 1)
  BY <1>3
<1> DEFINE Val(i, f) == IF i = 0 THEN <<>>
                        ELSE IF files[i].type = "log" THEN Append(f[i - 1], files[i].name)
                        ELSE f[i - 1]
           h == [i \in 0..n |-> Val(i, g)]
<1>5. \A i \in 0..(n - 1) : h[i] = g[i]
  <2>1. \A i \in 0..(n - 1) : g[i] = Val(i, g)
    BY <1>4 DEF Named
  <2>2. \A i \in 0..(n - 1) : i \in 0..n
    BY <1>3
  <2>3. \A i \in 0..n : h[i] = Val(i, g)
    OBVIOUS
  <2> HIDE DEF h, Val
  <2> QED
    BY <2>1, <2>2, <2>3
<1>6. \A i \in 0..n : h[i] = Val(i, h)
  <2> SUFFICES ASSUME NEW i \in 0..n PROVE h[i] = Val(i, h)
    OBVIOUS
  <2>1. i # 0 => i - 1 \in 0..(n - 1)
    BY <1>3
  <2>2. h[i] = Val(i, g)
    OBVIOUS
  <2> HIDE DEF h
  <2> QED
    BY <1>5, <2>1, <2>2
<1>7. Named(files, h, n)
  <2>1. h = [i \in 0..n |-> h[i]]
    OBVIOUS
  <2> HIDE DEF h
  <2> QED
    BY <1>6, <2>1 DEF Named
<1> QED
  BY <1>1, <1>7

LEMMA LogNamesList ==
    ASSUME NEW files \in Seq(DataFiles), Distinct(files)
    PROVE  /\ LogNames(files) \in Seq(Logs)
           /\ LogsOf(files) \subseteq Logs
           /\ \A i \in DOMAIN LogNames(files) : LogNames(files)[i] \in LogsOf(files)
           /\ \A l \in LogsOf(files) : \E i \in DOMAIN LogNames(files) : LogNames(files)[i] = l
           /\ \A i, j \in DOMAIN LogNames(files) :
                 /\ LogNames(files)[i] = LogNames(files)[j] => i = j
                 /\ i < j => Before(files, LogFile(LogNames(files)[i]), LogFile(LogNames(files)[j]))
<1> DEFINE len == Len(files)
<1>1. /\ len \in Nat
      /\ DOMAIN files = 1..len
      /\ \A i \in 1..len : files[i] \in DataFiles
  OBVIOUS
<1>2. PICK g : Named(files, g, len) /\ LogNames(files) = g[len]
  <2> DEFINE g == CHOOSE g : Named(files, g, len)
  <2>1. Named(files, g, len)
    BY <1>1, NamedExists
  <2> QED
    BY <2>1, LogNamesUnfold
<1> HIDE DEF len
<1>3. \A i \in 1..len : files[i].type = "log" =>
         /\ files[i] = LogFile(files[i].name)
         /\ files[i].name \in Logs
         /\ files[i].name \in LogsOf(files)
  BY <1>1 DEF DataFiles, AllLogs, AllTables, LogFile, TableFile, LogsOf, FileSet
<1> DEFINE Good(n) == /\ g[n] \in Seq(Logs)
                      /\ \A i \in DOMAIN g[n] : \E k \in 1..n : files[k] = LogFile(g[n][i])
                      /\ \A i, j \in DOMAIN g[n] :
                            /\ g[n][i] = g[n][j] => i = j
                            /\ i < j => Before(files, LogFile(g[n][i]), LogFile(g[n][j]))
                      /\ \A k \in 1..n : files[k].type = "log" =>
                            \E i \in DOMAIN g[n] : g[n][i] = files[k].name
           Bad == {n \in 0..len : ~ Good(n)}
<1>4. Bad = {}
  <2> SUFFICES ASSUME Bad # {} PROVE FALSE
    OBVIOUS
  <2>1. PICK n \in Bad : \A m \in Bad : n <= m
    <3>1. Bad \in SUBSET Nat
      OBVIOUS
    <3> QED
      BY <3>1, LeastNat
  <2>2. g[0] = <<>>
    BY <1>1, <1>2 DEF Named
  <2>3. n # 0
    <3>1. Good(0)
      BY <2>2
    <3> QED
      BY <3>1
  <2>4. n \in 1..len /\ n - 1 \in 0..len /\ n - 1 \notin Bad
    BY <1>1, <2>1, <2>3
  <2>5. Good(n - 1)
    BY <2>4
  <2>6. g[n] = IF files[n].type = "log" THEN Append(g[n - 1], files[n].name) ELSE g[n - 1]
    BY <1>2, <2>3 DEF Named
  <2> DEFINE old == g[n - 1]
  <2>7. /\ old \in Seq(Logs)
        /\ DOMAIN old = 1..Len(old) /\ Len(old) \in Nat
        /\ \A i \in DOMAIN old : \E k \in 1..(n - 1) : files[k] = LogFile(old[i])
        /\ \A i, j \in DOMAIN old :
              /\ old[i] = old[j] => i = j
              /\ i < j => Before(files, LogFile(old[i]), LogFile(old[j]))
        /\ \A k \in 1..(n - 1) : files[k].type = "log" =>
              \E i \in DOMAIN old : old[i] = files[k].name
    BY <2>5
  <2> HIDE DEF old
  <2>8. CASE files[n].type # "log"
    <3>1. g[n] = old
      BY <2>6, <2>8 DEF old
    <3>2. \A k \in 1..n : files[k].type = "log" => k \in 1..(n - 1)
      BY <1>1, <2>4, <2>8
    <3>3. \A k \in 1..(n - 1) : k \in 1..n
      BY <1>1, <2>4
    <3>4. Good(n)
      BY <2>7, <3>1, <3>2, <3>3
    <3> QED
      BY <3>4
  <2>9. CASE files[n].type = "log"
    <3> DEFINE l == files[n].name
               new == Append(old, l)
    <3>1. g[n] = new
      BY <2>6, <2>9 DEF old
    <3>2. l \in Logs /\ files[n] = LogFile(l)
      BY <1>3, <2>4, <2>9
    <3> HIDE DEF l
    <3>3. \A i \in DOMAIN old : old[i] # l
      <4> SUFFICES ASSUME NEW i \in DOMAIN old, old[i] = l PROVE FALSE
        OBVIOUS
      <4>1. PICK k \in 1..(n - 1) : files[k] = files[n]
        BY <2>7, <3>2
      <4> QED
        BY <1>1, <2>4, <4>1 DEF Distinct
    <3>4. /\ new \in Seq(Logs)
          /\ DOMAIN new = 1..(Len(old) + 1)
          /\ \A i \in 1..Len(old) : new[i] = old[i]
          /\ new[Len(old) + 1] = l
      BY <2>7, <3>2
    <3> HIDE DEF new
    <3>5. \A i \in DOMAIN new : \E k \in 1..n : files[k] = LogFile(new[i])
      BY <1>1, <2>4, <2>7, <3>2, <3>4
    <3>6. \A i, j \in DOMAIN new : new[i] = new[j] => i = j
      BY <2>7, <3>3, <3>4
    <3>7. ASSUME NEW i \in DOMAIN new, NEW j \in DOMAIN new, i < j
          PROVE  Before(files, LogFile(new[i]), LogFile(new[j]))
      <4>1. CASE j \in DOMAIN old
        BY <2>7, <3>4, <3>7, <4>1
      <4>2. CASE j \notin DOMAIN old
        <5>1. i \in DOMAIN old /\ new[i] = old[i] /\ new[j] = l
          BY <2>7, <3>4, <3>7, <4>2
        <5>2. PICK k \in 1..(n - 1) : files[k] = LogFile(old[i])
          BY <2>7, <5>1
        <5>3. k \in DOMAIN files /\ n \in DOMAIN files /\ k < n
          BY <1>1, <2>4
        <5> QED
          BY <3>2, <5>1, <5>2, <5>3 DEF Before
      <4> QED
        BY <4>1, <4>2
    <3>8. ASSUME NEW k \in 1..n, files[k].type = "log"
          PROVE  \E i \in DOMAIN new : new[i] = files[k].name
      <4>1. CASE k = n
        BY <2>7, <3>4, <4>1 DEF l
      <4>2. CASE k # n
        <5>1. k \in 1..(n - 1)
          BY <1>1, <2>4, <4>2
        <5>2. PICK i \in DOMAIN old : old[i] = files[k].name
          BY <2>7, <3>8, <5>1
        <5>3. i \in DOMAIN new /\ new[i] = old[i]
          BY <2>7, <3>4
        <5> QED
          BY <5>2, <5>3
      <4> QED
        BY <4>1, <4>2
    <3>9. Good(n)
      BY <3>1, <3>4, <3>5, <3>6, <3>7, <3>8
    <3> QED
      BY <3>9
  <2> QED
    BY <2>8, <2>9
<1>5. Good(len)
  BY <1>1, <1>4
<1>6. LogsOf(files) \subseteq Logs
  BY <1>1, <1>3 DEF LogsOf, FileSet
<1>7. \A i \in DOMAIN g[len] : g[len][i] \in LogsOf(files)
  <2> SUFFICES ASSUME NEW i \in DOMAIN g[len] PROVE g[len][i] \in LogsOf(files)
    OBVIOUS
  <2>1. PICK k \in 1..len : files[k] = LogFile(g[len][i])
    BY <1>5
  <2>2. files[k].type = "log" /\ files[k].name = g[len][i]
    BY <2>1 DEF LogFile
  <2> QED
    BY <1>3, <2>2
<1>8. \A l \in LogsOf(files) : \E i \in DOMAIN g[len] : g[len][i] = l
  <2> SUFFICES ASSUME NEW l \in LogsOf(files) PROVE \E i \in DOMAIN g[len] : g[len][i] = l
    OBVIOUS
  <2>1. PICK k \in 1..len : files[k].type = "log" /\ files[k].name = l
    BY <1>1 DEF LogsOf, FileSet
  <2> QED
    BY <1>5, <2>1
<1> QED
  BY <1>2, <1>5, <1>6, <1>7, <1>8

-----------------------------------------------------------------------------
(* What a step leaves alone, and which steps do not *)

AMakeLog == OpenMakeLog \/ RotateMakeLog
ASave == OpenSave \/ RotateSave
AWrite == \E b \in Blocks : BWriteAppend(b)
ADeleteLog == \E e \in job.unused : DeleteLog(e)
ADeleteTable == \E e \in job.unused : DeleteTable(e)
ACloseDelete == \E e \in job.unused : CloseDelete(e)

\* The steps that change what is on disk ...
DiskChanges ==
    /\ UNCHANGED logFiles \/ AMakeLog \/ ADeleteLog \/ ACloseDelete
    /\ UNCHANGED tables \/ BuildTable \/ ADeleteTable
    /\ UNCHANGED diskMeta \/ ASave \/ Commit \/ CloseSave
    /\ UNCHANGED entries \/ AWrite \/ AMakeLog \/ ADeleteLog \/ PowerLoss

\* ... what the process knows of it ...
MemoryChanges ==
    /\ UNCHANGED meta \/ OpenLoad \/ ASave \/ Commit \/ CloseSave \/ ForgetMemory
    /\ UNCHANGED nextSeq \/ OpenLoad \/ BuildTable \/ ForgetMemory
    /\ UNCHANGED writers \/ OpenPush \/ RotateMakeLog \/ RotatePush \/ ForgetMemory
    /\ UNCHANGED pendingReaders \/ OpenLoad \/ RotatePush \/ Merge \/ ForgetMemory
    /\ UNCHANGED rs \/ Merge \/ Install \/ Commit \/ ForgetMemory
    /\ UNCHANGED index \/ Merge \/ Install \/ ForgetMemory
    /\ UNCHANGED compacting \/ StartCompaction \/ CompactionDone \/ ForgetMemory

\* ... the ghost variables ...
HistoryChanges ==
    /\ UNCHANGED acked \/ (\E b \in Blocks : BWriteReturn(b)) \/ ForgetMemory
    /\ \/ UNCHANGED need
       \/ \E f \in Flushers : BFlushStart(f) \/ BFlushReturn(f)
       \/ ForgetMemory
    /\ UNCHANGED flushed \/ \E f \in Flushers : BFlushReturn(f)
    /\ UNCHANGED cur \/ AWrite \/ PowerLoss

\* ... and the locals of the goroutine that rotates, compacts and closes.
JobChanges ==
    /\ \/ UNCHANGED job
       \/ AMakeLog \/ OpenPush \/ RotateSwap
       \/ BuildTable \/ Install \/ Commit \/ ADeleteLog \/ ADeleteTable \/ CompactionDone
       \/ CloseSave \/ ACloseDelete
       \/ ForgetMemory

LEMMA Changes ==
    ASSUME [BNext]_vars
    PROVE  DiskChanges /\ MemoryChanges /\ HistoryChanges /\ JobChanges
<1> USE DEF DiskChanges, MemoryChanges, HistoryChanges, JobChanges, AMakeLog, ASave, AWrite,
            ADeleteLog, ADeleteTable, ACloseDelete
<1> DEFINE Goal == DiskChanges /\ MemoryChanges /\ HistoryChanges /\ JobChanges
<1> SUFFICES Goal
  OBVIOUS
<1>1. ASSUME OpenLoad PROVE Goal
  BY <1>1 DEF OpenLoad, wvars
<1>2. ASSUME OpenMakeLog PROVE Goal
  BY <1>2 DEF OpenMakeLog, MakeLogWriter, RunnerIdle, wvars
<1>3. ASSUME OpenSave PROVE Goal
  BY <1>3 DEF OpenSave, wvars
<1>4. ASSUME OpenPush PROVE Goal
  BY <1>4 DEF OpenPush, PushFirstLog, NewWriter, wvars
<1>5. ASSUME NEW b \in Blocks, BWriteStart(b) PROVE Goal
  BY <1>5 DEF BWriteStart, WriteStart, bfvars, wvars
<1>6. ASSUME NEW f \in Flushers, BFlushStart(f) PROVE Goal
  BY <1>6 DEF BFlushStart, FlushStart, wvars
<1>7. ASSUME NEW b \in Blocks, BWriteAppend(b) PROVE Goal
  BY <1>7 DEF BWriteAppend, WriteAppend, wvars
<1>8. ASSUME NEW b \in Blocks, BWriteCount(b) PROVE Goal
  BY <1>8 DEF BWriteCount, WriteCount, WriteLeaves, bfvars, wvars
<1>9. ASSUME NEW b \in Blocks, BWriteReturn(b) PROVE Goal
  BY <1>9 DEF BWriteReturn, WriteReturn, wvars
<1>10. ASSUME NEW f \in Flushers, BFlushReturn(f) PROVE Goal
  BY <1>10 DEF BFlushReturn, FlushReturn, FlushLeaves, wvars
<1>11. ASSUME NEW f \in Flushers, NEW l \in Logs, BFlushLog(f, l) PROVE Goal
  BY <1>11 DEF BFlushLog, FlushLog, bfvars, wvars
<1>12. ASSUME NEW l \in Logs, BCloser(l) PROVE Goal
  BY <1>12 DEF BCloser, CloserStep, CloserFreeze, CloserSync, CloserLeaves, bfvars, wvars
<1>13. ASSUME Merge PROVE Goal
  BY <1>13 DEF Merge, wvars
<1>14. ASSUME RunnerLoop PROVE Goal
  BY <1>14 DEF RunnerLoop, wvars
<1>15. ASSUME CompactWriterCheck PROVE Goal
  BY <1>15 DEF CompactWriterCheck, wvars
<1>16. ASSUME RotateMakeLog PROVE Goal
  BY <1>16 DEF RotateMakeLog, Goto, MakeLogWriter, wvars
<1>17. ASSUME RotateSave PROVE Goal
  BY <1>17 DEF RotateSave, Goto, wvars
<1>18. ASSUME RotateSwap PROVE Goal
  BY <1>18 DEF RotateSwap, Goto, PushSwap, NewWriter, wvars
<1>19. ASSUME RotateWait PROVE Goal
  BY <1>19 DEF RotateWait, Goto, PushReturn, wvars
<1>20. ASSUME RotatePush PROVE Goal
  BY <1>20 DEF RotatePush, Goto, wvars
<1>21. ASSUME StartCompaction PROVE Goal
  BY <1>21 DEF StartCompaction, Goto, wvars
<1>22. ASSUME BuildTable PROVE Goal
  BY <1>22 DEF BuildTable, Goto, wvars
<1>23. ASSUME Install PROVE Goal
  BY <1>23 DEF Install, Goto, RemoveStart, wvars
<1>24. ASSUME Removing PROVE Goal
  BY <1>24 DEF Removing, Goto, RemoveReturn, wvars
<1>25. ASSUME Commit PROVE Goal
  BY <1>25 DEF Commit, Goto, wvars
<1>26. ASSUME NEW e \in job.unused, DeleteLog(e) PROVE Goal
  BY <1>26 DEF DeleteLog, CloseRemoved, wvars
<1>27. ASSUME NEW e \in job.unused, DeleteTable(e) PROVE Goal
  BY <1>27 DEF DeleteTable, wvars
<1>28. ASSUME CompactionDone PROVE Goal
  BY <1>28 DEF CompactionDone, Goto, wvars
<1>29. ASSUME BCloseStart PROVE Goal
  BY <1>29 DEF BCloseStart, Goto, CloseStart, wvars
<1>30. ASSUME BCloseBarrier PROVE Goal
  BY <1>30 DEF BCloseBarrier, CloseBarrier, bfvars, wvars
<1>31. ASSUME BCloseReturn PROVE Goal
  BY <1>31 DEF BCloseReturn, Goto, CloseReturn, wvars
<1>32. ASSUME CloseSave PROVE Goal
  BY <1>32 DEF CloseSave, Goto, wvars
<1>33. ASSUME NEW e \in job.unused, CloseDelete(e) PROVE Goal
  BY <1>33 DEF CloseDelete, wvars
<1>34. ASSUME Exit PROVE Goal
  BY <1>34 DEF Exit, ForgetMemory, wvars
<1>35. ASSUME Kill PROVE Goal
  BY <1>35 DEF Kill, ForgetMemory, wvars
<1>36. ASSUME PowerLoss PROVE Goal
  BY <1>36 DEF PowerLoss, ForgetMemory, wvars
<1>37. ASSUME UNCHANGED vars PROVE Goal
  BY <1>37 DEF vars, bfvars, wvars
<1> HIDE DEF Goal
<1> QED
  BY <1>1, <1>2, <1>3, <1>4, <1>5, <1>6, <1>7, <1>8, <1>9, <1>10, <1>11, <1>12, <1>13, <1>14,
     <1>15, <1>16, <1>17, <1>18, <1>19, <1>20, <1>21, <1>22, <1>23, <1>24, <1>25, <1>26, <1>27,
     <1>28, <1>29, <1>30, <1>31, <1>32, <1>33, <1>34, <1>35, <1>36, <1>37
  DEF BNext, OpenStep, ClientStep, CompactStep, ShutdownStep, Quiescent

\* How the goroutine's position and the locals that go with it move.
PcMoves ==
    /\ pc' \in Pcs
    /\ pc = "down" => pc' = "down" \/ OpenLoad
    /\ pc' = "down" => pc = "down" \/ ForgetMemory
    /\ pc' \in {"openSave", "rotateSave"} => AMakeLog \/ (pc' = pc /\ UNCHANGED job)
    /\ pc' \in WithLog => AMakeLog \/ RotateSwap \/ (pc \in WithLog /\ UNCHANGED job)
    /\ pc' \in {"install", "removing", "commit"} =>
          \/ BuildTable
          \/ pc \in {"install", "removing", "commit"} /\ job'.table = job.table
    /\ pc' \in {"delete", "closeDelete"} =>
          \/ Commit
          \/ CloseSave
          \/ pc' = pc /\ job'.unused \subseteq job.unused
    /\ (pc' \in Compacting) # (pc \in Compacting) =>
          StartCompaction \/ CompactionDone \/ ForgetMemory

LEMMA PcStep ==
    ASSUME JobType, [BNext]_vars
    PROVE  PcMoves
<1> USE DEF JobType, PcMoves, Pcs, Opening, Rotating, WithLog, Compacting, Closing, AMakeLog
<1>1. ASSUME OpenLoad PROVE PcMoves
  BY <1>1 DEF OpenLoad
<1>2. ASSUME OpenMakeLog PROVE PcMoves
  BY <1>2 DEF OpenMakeLog, MakeLogWriter, RunnerIdle
<1>3. ASSUME OpenSave PROVE PcMoves
  BY <1>3 DEF OpenSave
<1>4. ASSUME OpenPush PROVE PcMoves
  BY <1>4 DEF OpenPush, PushFirstLog, NewWriter
<1>5. ASSUME NEW b \in Blocks, BWriteStart(b) PROVE PcMoves
  BY <1>5 DEF BWriteStart, WriteStart, bfvars
<1>6. ASSUME NEW f \in Flushers, BFlushStart(f) PROVE PcMoves
  BY <1>6 DEF BFlushStart, FlushStart
<1>7. ASSUME NEW b \in Blocks, BWriteAppend(b) PROVE PcMoves
  BY <1>7 DEF BWriteAppend, WriteAppend
<1>8. ASSUME NEW b \in Blocks, BWriteCount(b) PROVE PcMoves
  BY <1>8 DEF BWriteCount, WriteCount, WriteLeaves, bfvars
<1>9. ASSUME NEW b \in Blocks, BWriteReturn(b) PROVE PcMoves
  BY <1>9 DEF BWriteReturn, WriteReturn
<1>10. ASSUME NEW f \in Flushers, BFlushReturn(f) PROVE PcMoves
  BY <1>10 DEF BFlushReturn, FlushReturn, FlushLeaves
<1>11. ASSUME NEW f \in Flushers, NEW l \in Logs, BFlushLog(f, l) PROVE PcMoves
  BY <1>11 DEF BFlushLog, FlushLog, bfvars
<1>12. ASSUME NEW l \in Logs, BCloser(l) PROVE PcMoves
  BY <1>12 DEF BCloser, CloserStep, CloserFreeze, CloserSync, CloserLeaves, bfvars
<1>13. ASSUME Merge PROVE PcMoves
  BY <1>13 DEF Merge
<1>14. ASSUME RunnerLoop PROVE PcMoves
  BY <1>14 DEF RunnerLoop
<1>15. ASSUME CompactWriterCheck PROVE PcMoves
  BY <1>15 DEF CompactWriterCheck
<1>16. ASSUME RotateMakeLog PROVE PcMoves
  BY <1>16 DEF RotateMakeLog, Goto, MakeLogWriter
<1>17. ASSUME RotateSave PROVE PcMoves
  BY <1>17 DEF RotateSave, Goto
<1>18. ASSUME RotateSwap PROVE PcMoves
  BY <1>18 DEF RotateSwap, Goto, PushSwap, NewWriter
<1>19. ASSUME RotateWait PROVE PcMoves
  BY <1>19 DEF RotateWait, Goto, PushReturn
<1>20. ASSUME RotatePush PROVE PcMoves
  BY <1>20 DEF RotatePush, Goto
<1>21. ASSUME StartCompaction PROVE PcMoves
  BY <1>21 DEF StartCompaction, Goto
<1>22. ASSUME BuildTable PROVE PcMoves
  BY <1>22 DEF BuildTable, Goto
<1>23. ASSUME Install PROVE PcMoves
  BY <1>23 DEF Install, Goto, RemoveStart
<1>24. ASSUME Removing PROVE PcMoves
  BY <1>24 DEF Removing, Goto, RemoveReturn
<1>25. ASSUME Commit PROVE PcMoves
  BY <1>25 DEF Commit, Goto
<1>26. ASSUME NEW e \in job.unused, DeleteLog(e) PROVE PcMoves
  BY <1>26 DEF DeleteLog, CloseRemoved
<1>27. ASSUME NEW e \in job.unused, DeleteTable(e) PROVE PcMoves
  BY <1>27 DEF DeleteTable
<1>28. ASSUME CompactionDone PROVE PcMoves
  BY <1>28 DEF CompactionDone, Goto
<1>29. ASSUME BCloseStart PROVE PcMoves
  BY <1>29 DEF BCloseStart, Goto, CloseStart
<1>30. ASSUME BCloseBarrier PROVE PcMoves
  BY <1>30 DEF BCloseBarrier, CloseBarrier, bfvars
<1>31. ASSUME BCloseReturn PROVE PcMoves
  BY <1>31 DEF BCloseReturn, Goto, CloseReturn
<1>32. ASSUME CloseSave PROVE PcMoves
  <2>1. pc = "closeSave" /\ pc' = "closeDelete"
    BY <1>32 DEF CloseSave, Goto
  <2> QED
    BY <1>32, <2>1
<1>33. ASSUME NEW e \in job.unused, CloseDelete(e) PROVE PcMoves
  BY <1>33 DEF CloseDelete
<1>34. ASSUME Exit PROVE PcMoves
  BY <1>34 DEF Exit, ForgetMemory
<1>35. ASSUME Kill PROVE PcMoves
  BY <1>35 DEF Kill, ForgetMemory
<1>36. ASSUME PowerLoss PROVE PcMoves
  BY <1>36 DEF PowerLoss, ForgetMemory
<1>37. ASSUME UNCHANGED vars PROVE PcMoves
  BY <1>37 DEF vars, bfvars
<1> HIDE DEF JobType, PcMoves, Pcs, Opening, Rotating, WithLog, Compacting, Closing, AMakeLog
<1> QED
  BY <1>1, <1>2, <1>3, <1>4, <1>5, <1>6, <1>7, <1>8, <1>9, <1>10, <1>11, <1>12, <1>13, <1>14,
     <1>15, <1>16, <1>17, <1>18, <1>19, <1>20, <1>21, <1>22, <1>23, <1>24, <1>25, <1>26, <1>27,
     <1>28, <1>29, <1>30, <1>31, <1>32, <1>33, <1>34, <1>35, <1>36, <1>37
  DEF BNext, OpenStep, ClientStep, CompactStep, ShutdownStep, Quiescent

-----------------------------------------------------------------------------
(* The tracker inside the device *)

\* makeLogWriter finds a name that no file has.
LEMMA FreshName ==
    ASSUME ListsType, logFiles # Logs
    PROVE  NewName \in Logs \ logFiles
<1>1. \E l \in Logs : l \notin logFiles
  BY DEF ListsType
<1> QED
  BY <1>1 DEF NewName

\* Every step is a step of the tracker, or leaves nothing of it (a crash), or
\* gives it the logs of an earlier session.
LEMMA TrackerStep ==
    ASSUME WInv, JobType, ListsType, [BNext]_vars
    PROVE  [WNext]_wvars \/ OpenLoad \/ Exit \/ Kill \/ PowerLoss
<1> DEFINE Goal == [WNext]_wvars \/ OpenLoad \/ Exit \/ Kill \/ PowerLoss
<1> SUFFICES Goal
  OBVIOUS
<1>1. ASSUME AMakeLog PROVE Goal
  <2>1. NewName \in Logs /\ MakeLogWriter(NewName)
    BY <1>1, FreshName DEF AMakeLog, OpenMakeLog, RotateMakeLog
  <2> QED
    BY <2>1 DEF WNext
<1>2. ASSUME OpenPush PROVE Goal
  <2>1. job.log \in Logs /\ PushFirstLog(job.log)
    BY <1>2 DEF OpenPush, JobType, WithLog
  <2> QED
    BY <2>1 DEF WNext
<1>3. ASSUME RotateSwap PROVE Goal
  <2>1. job.log \in Logs /\ PushSwap(job.log)
    BY <1>3 DEF RotateSwap, Goto, JobType, WithLog, Rotating
  <2> QED
    BY <2>1 DEF WNext
<1>4. ASSUME Install PROVE Goal
  <2>1. RemoveStart(Len(pendingWriters))
    BY <1>4 DEF Install
  <2>2. Len(pendingWriters) \in 1..Len(pendingWriters)
    BY <2>1 DEF RemoveStart
  <2> QED
    BY <2>1, <2>2 DEF WNext
<1>5. ASSUME NEW e \in job.unused, DeleteLog(e) PROVE Goal
  <2>1. e.name \in Logs /\ CloseRemoved(e.name)
    BY <1>5 DEF DeleteLog, CloseRemoved, WInv, WTypeOK
  <2> QED
    BY <2>1 DEF WNext, RunnerStep
<1>6. ASSUME NEW b \in Blocks,
             BWriteStart(b) \/ BWriteAppend(b) \/ BWriteCount(b) \/ BWriteReturn(b)
      PROVE  Goal
  <2>1. WriteStart(b) \/ WriteAppend(b) \/ WriteCount(b) \/ WriteReturn(b)
    BY <1>6 DEF BWriteStart, BWriteAppend, BWriteCount, BWriteReturn
  <2> QED
    BY <2>1 DEF WNext, WriteStep
<1>7. ASSUME NEW f \in Flushers,
             BFlushStart(f) \/ BFlushReturn(f) \/ \E l \in Logs : BFlushLog(f, l)
      PROVE  Goal
  <2>1. FlushStart(f) \/ FlushReturn(f) \/ \E l \in Logs : FlushLog(f, l)
    BY <1>7 DEF BFlushStart, BFlushReturn, BFlushLog
  <2> QED
    BY <2>1 DEF WNext, FlushStep
<1>8. ASSUME NEW l \in Logs, BCloser(l) PROVE Goal
  BY <1>8 DEF BCloser, WNext
<1>9. ASSUME RotateWait \/ Removing PROVE Goal
  BY <1>9 DEF RotateWait, Removing, WNext, RunnerStep
<1>10. ASSUME BCloseStart \/ BCloseBarrier \/ BCloseReturn PROVE Goal
  BY <1>10 DEF BCloseStart, BCloseBarrier, BCloseReturn, WNext, CloseStep
<1>11. ASSUME \/ OpenSave \/ RotateSave \/ Merge \/ RunnerLoop \/ CompactWriterCheck
              \/ RotatePush \/ StartCompaction \/ BuildTable \/ Commit \/ CompactionDone
              \/ CloseSave \/ (\E e \in job.unused : DeleteTable(e) \/ CloseDelete(e))
              \/ UNCHANGED vars
       PROVE  Goal
  <2>1. UNCHANGED wvars
    BY <1>11
    DEF OpenSave, RotateSave, Merge, RunnerLoop, CompactWriterCheck, RotatePush,
        StartCompaction, BuildTable, Commit, CompactionDone, CloseSave, DeleteTable,
        CloseDelete, vars
  <2> QED
    BY <2>1
<1>12. ASSUME OpenLoad \/ Exit \/ Kill \/ PowerLoss PROVE Goal
  BY <1>12
<1> HIDE DEF Goal
<1> QED
  BY <1>1, <1>2, <1>3, <1>4, <1>5, <1>6, <1>7, <1>8, <1>9, <1>10, <1>11, <1>12
  DEF BNext, OpenStep, ClientStep, CompactStep, ShutdownStep, Quiescent, AMakeLog

\* The tracker of a process that has ended is that of one that has not begun.
LEMMA ForgetTracker ==
    ASSUME WInv, ForgetMemory, UNCHANGED ver,
           entries' \in [Logs -> Seq(Blocks \X Nat)], synced' \in [Logs -> Nat],
           \A l \in Logs : synced'[l] <= Len(entries'[l])
    PROVE  WInv'
<1> USE NoLogAssumption DEF ForgetMemory, IdleWrite, IdleFlush, IdlePush, IdleRem, IdleClose
<1>1. Pending' = {}
  BY DEF Pending
<1>2. WTypeOK'
  <2>1. (fl \in [Flushers -> [pc : {"idle", "flush"}, active : BOOLEAN, todo : SUBSET Logs]])'
    BY Zenon
  <2> QED
    BY <2>1 DEF WInv, WTypeOK
<1>3. (Phases /\ LogsHeld /\ ClosersHeld)'
  BY <1>1 DEF Phases, LogsHeld, PendingDistinct, ClosersHeld
<1>4. (WritesHeld /\ FlushesHeld /\ WaitsForRunning)'
  BY DEF WritesHeld, FlushesHeld, WaitsForRunning, ActiveWrites, ActiveFlushes, Flushes
<1> QED
  BY <1>2, <1>3, <1>4 DEF WInv

\* What a power failure leaves of a log is a prefix.
LEMMA PowerLossLogs ==
    ASSUME WTypeOK, PowerLoss
    PROVE  /\ entries' \in [Logs -> Seq(Blocks \X Nat)]
           /\ synced' \in [Logs -> Nat]
           /\ \A l \in Logs : /\ synced'[l] = Len(entries'[l])
                              /\ Len(entries'[l]) <= Len(entries[l])
                              /\ \A i \in 1..Len(entries'[l]) : entries'[l][i] = entries[l][i]
<1>1. PICK len \in [Logs -> 0..Max({Len(entries[l]) : l \in Logs})] :
         /\ \A l \in Logs : len[l] \in synced[l]..Len(entries[l])
         /\ entries' = [l \in Logs |-> SubSeq(entries[l], 1, len[l])]
         /\ synced' = len
  BY DEF PowerLoss
<1>2. ASSUME NEW l \in Logs
      PROVE  /\ len[l] \in Nat
             /\ entries'[l] \in Seq(Blocks \X Nat)
             /\ Len(entries'[l]) = len[l]
             /\ Len(entries'[l]) <= Len(entries[l])
             /\ \A i \in 1..Len(entries'[l]) : entries'[l][i] = entries[l][i]
  <2>1. entries[l] \in Seq(Blocks \X Nat) /\ synced[l] \in Nat
    BY DEF WTypeOK
  <2>2. len[l] \in 0..Len(entries[l])
    BY <1>1, <2>1
  <2>3. entries'[l] = SubSeq(entries[l], 1, len[l])
    BY <1>1
  <2> QED
    BY <2>1, <2>2, <2>3
<1>3. DOMAIN len = Logs /\ DOMAIN entries' = Logs
  BY <1>1
<1>4. len = [l \in Logs |-> len[l]] /\ entries' = [l \in Logs |-> entries'[l]]
  BY <1>1
<1>5. synced' \in [Logs -> Nat]
  BY <1>1, <1>2, <1>4
<1>6. entries' \in [Logs -> Seq(Blocks \X Nat)]
  BY <1>2, <1>4
<1> QED
  BY <1>1, <1>2, <1>5, <1>6

\* The logs that an earlier session has left become pending, each one once.
LEMMA OpenLoadTracker ==
    ASSUME WInv, DownIdle, ListsType, ListsDistinct, OpenLoad
    PROVE  WInv'
<1> USE NoLogAssumption DEF IdleWrite, IdleFlush, IdlePush, IdleRem, IdleClose
<1>1. /\ pendingWriters' \in Seq(Logs)
      /\ LogsOf(diskMeta) \subseteq Logs
      /\ Pending' \subseteq LogsOf(diskMeta)
      /\ PendingDistinct'
  BY LogNamesList DEF OpenLoad, ListsType, ListsDistinct, Pending, PendingDistinct
<1>2. wstate' = [l \in Logs |-> IF l \in LogsOf(diskMeta) THEN "reader" ELSE "none"]
  BY DEF OpenLoad
<1>3. UNCHANGED <<activeWriter, writeCount, entries, synced, ver, wr, fl, closer, push, rem, cl>>
  BY DEF OpenLoad
<1>4. /\ activeWriter = NoLog
      /\ wr = [b \in Blocks |-> IdleWrite]
      /\ fl = [f \in Flushers |-> IdleFlush]
      /\ closer = [l \in Logs |-> "none"]
      /\ push = IdlePush /\ rem = IdleRem /\ cl = IdleClose
  BY DEF DownIdle, OpenLoad
<1>5. WTypeOK'
  <2>1. fl' \in [Flushers -> [pc : {"idle", "flush"}, active : BOOLEAN, todo : SUBSET Logs]]
    BY <1>3 DEF WInv, WTypeOK
  <2> QED
    BY <1>1, <1>2, <1>3, <2>1 DEF WInv, WTypeOK
<1>6. Phases'
  BY <1>3, <1>4 DEF Phases
<1>7. LogsHeld'
  BY <1>1, <1>2, <1>3, <1>4 DEF LogsHeld
<1>8. ClosersHeld'
  BY <1>3, <1>4 DEF ClosersHeld
<1>9. (WritesHeld /\ FlushesHeld /\ WaitsForRunning)'
  BY <1>3, <1>4 DEF WritesHeld, FlushesHeld, WaitsForRunning, ActiveWrites, ActiveFlushes, Flushes
<1> QED
  BY <1>5, <1>6, <1>7, <1>8, <1>9 DEF WInv

\* The tracker's invariant is one of the device.
LEMMA WInvStep ==
    ASSUME BInv, [BNext]_vars
    PROVE  WInv'
<1>1. CASE [WNext]_wvars
  BY <1>1, WStepInv DEF BInv
<1>2. CASE OpenLoad
  BY <1>2, OpenLoadTracker DEF BInv
<1>3. CASE Exit \/ Kill
  BY <1>3, ForgetTracker DEF Exit, Kill, BInv, WInv, WTypeOK
<1>4. CASE PowerLoss
  <2>1. WTypeOK /\ ForgetMemory /\ UNCHANGED ver
    BY <1>4 DEF PowerLoss, BInv, WInv
  <2>2. /\ entries' \in [Logs -> Seq(Blocks \X Nat)]
        /\ synced' \in [Logs -> Nat]
        /\ \A l \in Logs : synced'[l] <= Len(entries'[l])
    <3>1. /\ entries' \in [Logs -> Seq(Blocks \X Nat)]
          /\ synced' \in [Logs -> Nat]
          /\ \A l \in Logs : synced'[l] = Len(entries'[l])
      BY <1>4, <2>1, PowerLossLogs
    <3> QED
      BY <3>1
  <2> QED
    BY <2>1, <2>2, ForgetTracker DEF BInv
<1> QED
  BY <1>1, <1>2, <1>3, <1>4, TrackerStep DEF BInv

\* A process that is down can only be started.
LEMMA DownSteps ==
    ASSUME DownIdle, pc = "down", [BNext]_vars
    PROVE  OpenLoad \/ Merge \/ UNCHANGED vars
<1> DEFINE Goal == OpenLoad \/ Merge \/ UNCHANGED vars
<1> SUFFICES Goal
  OBVIOUS
<1>1. ASSUME \/ OpenMakeLog \/ OpenSave \/ OpenPush \/ CompactStep \/ BCloseStart
             \/ BCloseReturn \/ CloseSave \/ (\E e \in job.unused : CloseDelete(e))
             \/ Exit \/ Kill \/ PowerLoss \/ pc = "idle"
      PROVE  FALSE
  BY <1>1
  DEF OpenMakeLog, OpenSave, OpenPush, CompactStep, RunnerLoop, CompactWriterCheck, RotateMakeLog,
      RotateSave, RotateSwap, RotateWait, RotatePush, StartCompaction, BuildTable, Install,
      Removing, Commit, DeleteLog, DeleteTable, CompactionDone, BCloseStart, BCloseReturn,
      CloseSave, CloseDelete, Exit, Kill, PowerLoss, Goto
<1>2. ASSUME NEW b \in Blocks,
             BWriteStart(b) \/ BWriteAppend(b) \/ BWriteCount(b) \/ BWriteReturn(b)
      PROVE  FALSE
  <2>1. wr[b].pc = "idle"
    BY DEF DownIdle, IdleWrite
  <2> QED
    BY <1>2, <2>1
    DEF BWriteStart, BWriteAppend, BWriteCount, BWriteReturn, WriteAppend, WriteCount,
        WriteReturn, Admitted, Serving
<1>3. ASSUME NEW f \in Flushers,
             BFlushStart(f) \/ BFlushReturn(f) \/ \E l \in Logs : BFlushLog(f, l)
      PROVE  FALSE
  <2>1. fl[f].pc = "idle"
    BY DEF DownIdle, IdleFlush
  <2> QED
    BY <1>3, <2>1 DEF BFlushStart, BFlushReturn, BFlushLog, FlushReturn, FlushLog, Admitted, Serving
<1>4. ASSUME NEW l \in Logs, BCloser(l) PROVE FALSE
  BY <1>4 DEF BCloser, CloserStep, CloserFreeze, CloserSync, DownIdle
<1>5. ASSUME BCloseBarrier PROVE FALSE
  BY <1>5 DEF BCloseBarrier, CloseBarrier, DownIdle, IdleClose
<1>6. ASSUME OpenLoad \/ Merge \/ UNCHANGED vars PROVE Goal
  BY <1>6
<1> HIDE DEF Goal
<1> QED
  BY <1>1, <1>2, <1>3, <1>4, <1>5, <1>6 DEF BNext, OpenStep, ClientStep, ShutdownStep, Quiescent

\* While the process is down nothing of the tracker moves.
LEMMA DownIdleStep ==
    ASSUME BInv, [BNext]_vars
    PROVE  DownIdle'
<1> SUFFICES ASSUME pc' = "down" PROVE DownIdle'
  BY DEF DownIdle
<1>1. CASE ForgetMemory
  BY <1>1 DEF ForgetMemory, DownIdle
<1>2. CASE pc = "down"
  <2>1. Merge \/ UNCHANGED vars
    BY <1>2, DownSteps DEF BInv, OpenLoad
  <2>2. UNCHANGED wvars
    BY <2>1 DEF Merge, vars
  <2> QED
    BY <1>2, <2>2 DEF BInv, DownIdle, wvars
<1> QED
  BY <1>1, <1>2, PcStep DEF BInv, PcMoves

-----------------------------------------------------------------------------
(* The lists on disk and in memory *)

\* Metadata.PushWriteLog and Save.
LEMMA SavedLists ==
    ASSUME BInv, ASave
    PROVE  /\ job.log \in Logs
           /\ meta' \in Seq(DataFiles)
           /\ Distinct(meta')
           /\ FileSet(meta') = FileSet(meta) \cup {LogFile(job.log)}
           /\ diskMeta' = meta'
           /\ UNCHANGED <<logFiles, tables, nextSeq, rs, pendingReaders, job>>
           /\ job.log \in logFiles
<1>1. /\ pc \in {"openSave", "rotateSave"}
      /\ meta' = Append(meta, LogFile(job.log))
      /\ diskMeta' = meta'
      /\ UNCHANGED <<logFiles, tables, nextSeq, rs, pendingReaders, job>>
  BY DEF ASave, OpenSave, RotateSave, PushWriteLog, Goto
<1>2. /\ job.log \in Logs
      /\ job.log \in logFiles
      /\ LogFile(job.log) \notin FileSet(meta)
  BY <1>1 DEF BInv, JobType, JobHeld, WithLog, Rotating
<1>3. LogFile(job.log) \in DataFiles
  BY <1>2 DEF DataFiles, AllLogs
<1> QED
  BY <1>1, <1>2, <1>3, AppendFile DEF BInv, ListsType, ListsDistinct

\* CompactWriteLog, the edits of removeUnusedTables, and Save unless there were
\* none.
LEMMA CommittedLists ==
    ASSUME BInv, Commit
    PROVE  /\ Unused \subseteq rs
           /\ IsFiniteSet(Unused)
           /\ meta' \in Seq(DataFiles)
           /\ Distinct(meta')
           /\ FileSet(meta') \subseteq (FileSet(meta) \cup {TableFile(job.table)}) \ Unused
           /\ diskMeta' = meta' \/ (Unused = {} /\ diskMeta' = diskMeta)
           /\ job.table \in DOMAIN tables
           /\ job.table \in 1..MaxSeq
           /\ job.table < nextSeq
           /\ job' = [job EXCEPT !.unused = Unused]
           /\ rs' = rs \ Unused
           /\ UNCHANGED <<logFiles, tables, nextSeq, pendingReaders>>
<1>1. /\ pc = "commit"
      /\ meta' = RemoveAll(CompactWriteLog(meta, job.log, job.table), Unused)
      /\ diskMeta' = IF Unused # {} THEN meta' ELSE diskMeta
      /\ job' = [job EXCEPT !.unused = Unused]
      /\ rs' = rs \ Unused
      /\ UNCHANGED <<logFiles, tables, nextSeq, pendingReaders>>
  BY DEF Commit, Goto
<1>2. /\ job.table \in DOMAIN tables
      /\ job.table \in 1..MaxSeq
      /\ job.table < nextSeq
      /\ TableFile(job.table) \notin FileSet(meta)
  BY <1>1 DEF BInv, JobHeld, ListsType
<1>3. Unused \subseteq rs /\ Unused \in SUBSET DataFiles /\ IsFiniteSet(Unused)
  <2>1. Unused \subseteq rs
    BY DEF Unused
  <2> QED
    BY <2>1, FS_Subset DEF BInv, ReadersType
<1> DEFINE mid == CompactWriteLog(meta, job.log, job.table)
<1>4. /\ mid \in Seq(DataFiles)
      /\ Distinct(mid)
      /\ FileSet(mid) \subseteq FileSet(meta) \cup {TableFile(job.table)}
  BY <1>2, CompactFile DEF BInv, ListsType, ListsDistinct
<1> HIDE DEF mid
<1>5. /\ RemoveAll(mid, Unused) \in Seq(DataFiles)
      /\ Distinct(RemoveAll(mid, Unused))
      /\ FileSet(RemoveAll(mid, Unused)) = FileSet(mid) \ Unused
  BY <1>3, <1>4, RemoveAllFiles
<1>6. meta' = RemoveAll(mid, Unused)
  BY <1>1 DEF mid
<1> QED
  BY <1>1, <1>2, <1>3, <1>4, <1>5, <1>6

\* What Close takes out of the list: logs only.
LEMMA ClosedLists ==
    ASSUME BInv, CloseSave
    PROVE  /\ job'.unused \subseteq AllLogs
           /\ meta' \in Seq(DataFiles)
           /\ Distinct(meta')
           /\ FileSet(meta') = FileSet(meta) \ job'.unused
           /\ SameOrder(meta', meta)
           /\ diskMeta' = meta' \/ (job'.unused = {} /\ diskMeta' = diskMeta)
           /\ job'.table = job.table /\ job'.log = job.log
           /\ job' \in [log : Logs \cup {NoLog}, table : Nat, unused : SUBSET DataFiles]
           /\ UNCHANGED <<logFiles, tables, nextSeq, rs, pendingReaders>>
<1>1. PICK es \in SUBSET EmptyLogs :
         /\ job' = [job EXCEPT !.unused = {LogFile(l) : l \in es}]
         /\ meta' = RemoveAll(meta, job'.unused)
         /\ diskMeta' = IF es # {} THEN meta' ELSE diskMeta
  BY Zenon DEF CloseSave
<1>2. UNCHANGED <<logFiles, tables, nextSeq, rs, pendingReaders>>
  BY DEF CloseSave
<1>3. job \in [log : Logs \cup {NoLog}, table : Nat, unused : SUBSET DataFiles]
  BY DEF BInv, JobType
<1> DEFINE gone == {LogFile(l) : l \in es}
<1>4. job'.unused = gone /\ job'.table = job.table /\ job'.log = job.log
  BY <1>1, <1>3
<1>5. IsFiniteSet(es) /\ es \subseteq Logs
  <2>1. pendingWriters \in Seq(Logs)
    BY DEF BInv, WInv, WTypeOK
  <2>2. Pending = FileSet(pendingWriters)
    BY DEF Pending, FileSet
  <2>3. IsFiniteSet(Pending) /\ Pending \subseteq Logs
    BY <2>1, <2>2, FileSetType
  <2>4. es \subseteq Pending
    BY DEF EmptyLogs
  <2> QED
    BY <2>3, <2>4, FS_Subset
<1>6. IsFiniteSet(gone)
  <2> DEFINE f == [l \in es |-> LogFile(l)]
  <2>1. f \in Surjection(es, gone)
    BY DEF Surjection
  <2> HIDE DEF f, gone
  <2> QED
    BY <1>5, <2>1, FS_Surjection
<1>7. gone \subseteq AllLogs /\ gone \in SUBSET DataFiles
  BY <1>5 DEF AllLogs, DataFiles
<1>8. es = {} <=> gone = {}
  OBVIOUS
<1> HIDE DEF gone
<1>9. /\ RemoveAll(meta, gone) \in Seq(DataFiles)
      /\ Distinct(RemoveAll(meta, gone))
      /\ FileSet(RemoveAll(meta, gone)) = FileSet(meta) \ gone
      /\ SameOrder(RemoveAll(meta, gone), meta)
  BY <1>6, <1>7, RemoveAllFiles DEF BInv, ListsType, ListsDistinct
<1>10. job' \in [log : Logs \cup {NoLog}, table : Nat, unused : SUBSET DataFiles]
  BY <1>1, <1>3, <1>7 DEF gone
<1> QED
  BY <1>1, <1>2, <1>4, <1>7, <1>8, <1>9, <1>10

\* The number after those of a list is greater than all of them.
LEMMA SeqAfterAll ==
    ASSUME NEW files \in Seq(DataFiles), MaxSeq \in Nat
    PROVE  /\ SeqAfter(files) \in 1..(MaxSeq + 1)
           /\ \A e \in FileSet(files) : e.type = "table" => e.name < SeqAfter(files)
<1> DEFINE T == {0} \cup TablesOf(files)
<1>1. \A e \in FileSet(files) :
         e.type = "table" => e.name \in 1..MaxSeq /\ e.name \in TablesOf(files)
  BY FileSetType DEF DataFiles, AllLogs, AllTables, LogFile, TableFile, TablesOf
<1>2. TablesOf(files) \subseteq 1..MaxSeq
  BY <1>1 DEF TablesOf
<1>3. T \in SUBSET Nat /\ T # {} /\ \A m \in T : m <= MaxSeq
  BY <1>2
<1> HIDE DEF T
<1>4. Max(T) \in T /\ \A m \in T : m <= Max(T)
  BY <1>3, MaxOfBounded
<1>5. SeqAfter(files) = Max(T) + 1
  BY DEF SeqAfter, T
<1>6. Max(T) \in Nat /\ Max(T) <= MaxSeq
  BY <1>3, <1>4
<1>7. \A e \in FileSet(files) : e.type = "table" => e.name \in T /\ e.name \in Nat
  BY <1>1 DEF T
<1> QED
  BY <1>4, <1>5, <1>6, <1>7

LEMMA ListsTypeStep ==
    ASSUME BInv, [BNext]_vars
    PROVE  ListsType'
<1> USE SizesAssumption
<1>1. DiskChanges /\ MemoryChanges
  BY Changes
<1>2. logFiles' \subseteq Logs
  <2>1. ASSUME AMakeLog PROVE logFiles' \subseteq Logs
    BY <2>1, FreshName DEF AMakeLog, OpenMakeLog, RotateMakeLog, BInv, ListsType
  <2>2. ASSUME ADeleteLog \/ ACloseDelete PROVE logFiles' \subseteq logFiles
    BY <2>2 DEF ADeleteLog, ACloseDelete, DeleteLog, CloseDelete
  <2> QED
    BY <1>1, <2>1, <2>2 DEF DiskChanges, BInv, ListsType
<1>3. DOMAIN tables' \subseteq 1..MaxSeq
  <2>1. ASSUME BuildTable PROVE DOMAIN tables' \subseteq 1..MaxSeq
    BY <2>1 DEF BuildTable, BInv, ListsType
  <2>2. ASSUME ADeleteTable PROVE DOMAIN tables' \subseteq DOMAIN tables
    BY <2>2 DEF ADeleteTable, DeleteTable
  <2> QED
    BY <1>1, <2>1, <2>2 DEF DiskChanges, BInv, ListsType
<1>4. diskMeta' \in Seq(DataFiles)
  <2>1. UNCHANGED diskMeta => diskMeta' \in Seq(DataFiles)
    BY DEF BInv, ListsType
  <2> QED
    BY <1>1, <2>1, SavedLists, CommittedLists, ClosedLists DEF DiskChanges
<1>5. meta' \in Seq(DataFiles)
  <2>1. UNCHANGED meta \/ OpenLoad => meta' \in Seq(DataFiles)
    BY DEF BInv, ListsType, OpenLoad
  <2>2. <<>> \in Seq(DataFiles)
    OBVIOUS
  <2>3. ForgetMemory => meta' \in Seq(DataFiles)
    BY <2>2 DEF ForgetMemory
  <2> QED
    BY <1>1, <2>1, <2>3, SavedLists, CommittedLists, ClosedLists DEF MemoryChanges
<1>6. nextSeq' \in 1..(MaxSeq + 1)
  <2>1. ASSUME OpenLoad PROVE nextSeq' \in 1..(MaxSeq + 1)
    BY <2>1, SeqAfterAll DEF OpenLoad, BInv, ListsType
  <2>2. ASSUME BuildTable PROVE nextSeq' \in 1..(MaxSeq + 1)
    BY <2>2 DEF BuildTable, BInv, ListsType
  <2>3. ASSUME ForgetMemory PROVE nextSeq' \in 1..(MaxSeq + 1)
    BY <2>3 DEF ForgetMemory
  <2> QED
    BY <1>1, <2>1, <2>2, <2>3 DEF MemoryChanges, BInv, ListsType
<1> QED
  BY <1>2, <1>3, <1>4, <1>5, <1>6 DEF ListsType

LEMMA ListsDistinctStep ==
    ASSUME BInv, [BNext]_vars
    PROVE  ListsDistinct'
<1>1. DiskChanges /\ MemoryChanges
  BY Changes
<1>2. Distinct(diskMeta')
  <2>1. UNCHANGED diskMeta => Distinct(diskMeta')
    BY DEF BInv, ListsDistinct
  <2> QED
    BY <1>1, <2>1, SavedLists, CommittedLists, ClosedLists DEF DiskChanges
<1>3. Distinct(meta')
  <2>1. UNCHANGED meta \/ OpenLoad => Distinct(meta')
    BY DEF BInv, ListsDistinct, OpenLoad
  <2>2. ForgetMemory => Distinct(meta')
    BY DEF ForgetMemory, Distinct
  <2> QED
    BY <1>1, <2>1, <2>2, SavedLists, CommittedLists, ClosedLists DEF MemoryChanges
<1> QED
  BY <1>2, <1>3 DEF ListsDistinct

LEMMA JobTypeStep ==
    ASSUME BInv, [BNext]_vars
    PROVE  JobType'
<1> DEFINE T == [log : Logs \cup {NoLog}, table : Nat, unused : SUBSET DataFiles]
<1>1. JobChanges /\ PcMoves
  BY Changes, PcStep DEF BInv
<1>2. job \in T
  BY DEF BInv, JobType
<1>3. ASSUME AMakeLog PROVE job' \in T /\ job'.log \in Logs
  <2>1. NewName \in Logs /\ job' = [job EXCEPT !.log = NewName]
    BY <1>3, FreshName DEF AMakeLog, OpenMakeLog, RotateMakeLog, BInv
  <2> QED
    BY <1>2, <2>1
<1>4. ASSUME RotateSwap PROVE job' \in T /\ job'.log \in Logs
  <2>1. activeWriter \in Logs /\ job' = [job EXCEPT !.log = activeWriter]
    BY <1>4 DEF RotateSwap, PushSwap, BInv, WInv, WTypeOK
  <2> QED
    BY <1>2, <2>1
<1>5. ASSUME OpenPush \/ CompactionDone \/ ForgetMemory PROVE job' \in T
  <2>1. job' = IdleJob
    BY <1>5 DEF OpenPush, CompactionDone, ForgetMemory
  <2> QED
    BY <2>1 DEF IdleJob
<1>6. ASSUME BuildTable PROVE job' \in T
  <2>1. job' = [job EXCEPT !.table = nextSeq]
    BY <1>6 DEF BuildTable
  <2>2. nextSeq \in Nat
    BY SizesAssumption DEF BInv, ListsType
  <2> QED
    BY <1>2, <2>1, <2>2
<1>7. ASSUME Install PROVE job' \in T
  <2>1. pendingWriters \in Seq(Logs) /\ Len(pendingWriters) \in 1..Len(pendingWriters)
    BY <1>7 DEF Install, RemoveStart, BInv, WInv, WTypeOK
  <2>2. pendingWriters[Len(pendingWriters)] \in Logs
    BY <2>1
  <2>3. job' = [job EXCEPT !.log = pendingWriters[Len(pendingWriters)]]
    BY <1>7 DEF Install, Last
  <2> QED
    BY <1>2, <2>2, <2>3
<1>8. ASSUME Commit PROVE job' \in T
  <2>1. job' = [job EXCEPT !.unused = Unused] /\ Unused \subseteq DataFiles
    BY <1>8, CommittedLists DEF BInv, ReadersType
  <2> QED
    BY <1>2, <2>1
<1>9. ASSUME ADeleteLog \/ ADeleteTable \/ ACloseDelete PROVE job' \in T
  <2>1. PICK e \in job.unused : job' = [job EXCEPT !.unused = @ \ {e}]
    BY <1>9 DEF ADeleteLog, ADeleteTable, ACloseDelete, DeleteLog, DeleteTable, CloseDelete
  <2> QED
    BY <1>2, <2>1
<1>10. ASSUME CloseSave PROVE job' \in T
  BY <1>10, ClosedLists
<1> HIDE DEF T
<1>11. job' \in T
  BY <1>1, <1>2, <1>3, <1>4, <1>5, <1>6, <1>7, <1>8, <1>9, <1>10 DEF JobChanges
<1>12. pc' \in Pcs /\ (pc' \in WithLog => job'.log \in Logs)
  BY <1>1, <1>3, <1>4 DEF PcMoves, BInv, JobType
<1> QED
  BY <1>11, <1>12 DEF JobType, T

-----------------------------------------------------------------------------
(* The reader tracker *)

\* A block has its reader counted: what is unused is not in the index.
LEMMA UnusedNotLive ==
    ASSUME NEW b \in Blocks
    PROVE  index[b] \notin Unused
<1> DEFINE live == {x \in Blocks : index[x] = index[b]}
<1>1. IsFiniteSet(live) /\ live # {}
  BY BlocksAssumption, FS_Subset
<1>2. Cardinality(live) # 0
  BY <1>1, FS_EmptySet
<1> QED
  BY <1>2 DEF Unused, Live

\* The merge gives a block the newest pending reader that has it.
LEMMA MergedIndex ==
    ASSUME BInv, Merge
    PROVE  /\ rs' = rs \cup FileSet(pendingReaders)
           /\ index' \in [Blocks -> rs' \cup {NoFile}]
           /\ pendingReaders' = <<>>
<1>1. /\ rs' = rs \cup FileSet(pendingReaders)
      /\ pendingReaders' = <<>>
  BY DEF Merge
<1> DEFINE Hits(b) == {i \in DOMAIN pendingReaders : Content(pendingReaders[i], b) # 0}
           New(b) == IF Hits(b) = {} THEN index[b] ELSE pendingReaders[Min(Hits(b))]
<1>2. index' = [b \in Blocks |-> New(b)]
  BY DEF Merge
<1>3. ASSUME NEW b \in Blocks PROVE New(b) \in rs' \cup {NoFile}
  <2>1. Hits(b) \in SUBSET Nat /\ Hits(b) \subseteq DOMAIN pendingReaders
    BY FileSetType DEF BInv, ReadersType
  <2>2. index[b] \in rs \cup {NoFile}
    BY DEF BInv, ReadersType
  <2> HIDE DEF Hits
  <2>3. Hits(b) # {} => Min(Hits(b)) \in DOMAIN pendingReaders
    BY <2>1, MinOfSet
  <2> QED
    BY <1>1, <2>2, <2>3 DEF FileSet
<1> HIDE DEF New
<1> QED
  BY <1>1, <1>2, <1>3

\* PushCompactedReader.
LEMMA InstalledIndex ==
    ASSUME BInv, Install
    PROVE  /\ TableFile(job.table) \in DataFiles
           /\ rs' = rs \cup {TableFile(job.table)}
           /\ index' \in [Blocks -> rs' \cup {NoFile}]
           /\ job.table < nextSeq
           /\ job.table \in DOMAIN tables
<1>1. job.table < nextSeq /\ job.table \in DOMAIN tables /\ job.table \in 1..MaxSeq
  BY DEF Install, Goto, BInv, JobHeld, ListsType
<1> DEFINE t == TableFile(job.table)
<1>2. t \in DataFiles
  BY <1>1 DEF DataFiles, AllTables
<1>3. /\ rs' = rs \cup {t}
      /\ index' = [b \in Blocks |-> IF Content(t, b) # 0 THEN t ELSE index[b]]
  BY DEF Install
<1>4. index \in [Blocks -> rs \cup {NoFile}]
  BY DEF BInv, ReadersType
<1> HIDE DEF t
<1>5. index' \in [Blocks -> rs' \cup {NoFile}]
  BY <1>3, <1>4
<1> QED
  BY <1>1, <1>2, <1>3, <1>5 DEF t

LEMMA ReadersTypeStep ==
    ASSUME BInv, [BNext]_vars
    PROVE  ReadersType'
<1>1. MemoryChanges /\ PcMoves
  BY Changes, PcStep DEF BInv
<1>2. ReadersType
  BY DEF BInv
<1>3. writers' \in Seq(AllLogs)
  <2>1. ASSUME OpenPush PROVE writers' \in Seq(AllLogs)
    <3>1. LogFile(job.log) \in AllLogs /\ writers' = <<LogFile(job.log)>>
      BY <2>1 DEF OpenPush, BInv, JobType, WithLog, AllLogs
    <3> QED
      BY <3>1
  <2>2. ASSUME RotateMakeLog PROVE writers' \in Seq(AllLogs)
    <3>1. LogFile(NewName) \in AllLogs /\ writers' = <<LogFile(NewName)>> \o writers
      BY <2>2, FreshName DEF RotateMakeLog, BInv, AllLogs
    <3> QED
      BY <1>2, <3>1, PrependFile DEF ReadersType
  <2>3. ASSUME RotatePush PROVE writers' \in Seq(AllLogs)
    BY <1>2, <2>3, RemoveFile DEF RotatePush, ReadersType
  <2>4. <<>> \in Seq(AllLogs)
    OBVIOUS
  <2>5. ASSUME ForgetMemory PROVE writers' \in Seq(AllLogs)
    BY <2>4, <2>5 DEF ForgetMemory
  <2> QED
    BY <1>1, <1>2, <2>1, <2>2, <2>3, <2>5 DEF MemoryChanges, ReadersType
<1>4. pendingReaders' \in Seq(DataFiles)
  <2>1. ASSUME OpenLoad PROVE pendingReaders' \in Seq(DataFiles)
    BY <2>1, ReverseFiles DEF OpenLoad, BInv, ListsType
  <2>2. ASSUME RotatePush PROVE pendingReaders' \in Seq(DataFiles)
    <3>1. LogFile(job.log) \in DataFiles
      BY <2>2 DEF RotatePush, Goto, BInv, JobType, WithLog, Rotating, AllLogs, DataFiles
    <3> QED
      BY <1>2, <2>2, <3>1, PrependFile DEF RotatePush, ReadersType
  <2>3. <<>> \in Seq(DataFiles)
    OBVIOUS
  <2>4. ASSUME Merge \/ ForgetMemory PROVE pendingReaders' \in Seq(DataFiles)
    BY <2>3, <2>4 DEF Merge, ForgetMemory
  <2> QED
    BY <1>1, <1>2, <2>1, <2>2, <2>4 DEF MemoryChanges, ReadersType
<1>5. rs' \subseteq DataFiles /\ IsFiniteSet(rs')
  <2>1. ASSUME Merge PROVE rs' \subseteq DataFiles /\ IsFiniteSet(rs')
    <3>1. FileSet(pendingReaders) \subseteq DataFiles /\ IsFiniteSet(FileSet(pendingReaders))
      BY <1>2, FileSetType DEF ReadersType
    <3> QED
      BY <1>2, <2>1, <3>1, FS_Union DEF Merge, ReadersType
  <2>2. ASSUME Install PROVE rs' \subseteq DataFiles /\ IsFiniteSet(rs')
    BY <1>2, <2>2, InstalledIndex, FS_AddElement DEF ReadersType
  <2>3. ASSUME Commit PROVE rs' \subseteq DataFiles /\ IsFiniteSet(rs')
    BY <1>2, <2>3, CommittedLists, FS_Subset DEF ReadersType
  <2>4. ASSUME ForgetMemory PROVE rs' \subseteq DataFiles /\ IsFiniteSet(rs')
    BY <2>4, FS_EmptySet DEF ForgetMemory
  <2> QED
    BY <1>1, <1>2, <2>1, <2>2, <2>3, <2>4 DEF MemoryChanges, ReadersType
<1>6. index' \in [Blocks -> rs' \cup {NoFile}]
  <2>1. ASSUME Commit PROVE index' \in [Blocks -> rs' \cup {NoFile}]
    <3>1. UNCHANGED index /\ rs' = rs \ Unused
      BY <2>1 DEF Commit
    <3>2. \A b \in Blocks : index[b] \in (rs \ Unused) \cup {NoFile}
      BY <1>2, UnusedNotLive DEF ReadersType
    <3> QED
      BY <1>2, <3>1, <3>2 DEF ReadersType
  <2>2. ASSUME ForgetMemory PROVE index' \in [Blocks -> rs' \cup {NoFile}]
    <3>1. index' = [b \in Blocks |-> NoFile]
      BY <2>2 DEF ForgetMemory
    <3> QED
      BY <3>1
  <2>3. ASSUME UNCHANGED <<index, rs>> PROVE index' \in [Blocks -> rs' \cup {NoFile}]
    BY <1>2, <2>3 DEF ReadersType
  <2> QED
    BY <1>1, <2>1, <2>2, <2>3, MergedIndex, InstalledIndex DEF MemoryChanges
<1>7. compacting' <=> pc' \in Compacting
  <2>1. ASSUME StartCompaction PROVE compacting' <=> pc' \in Compacting
    BY <2>1 DEF StartCompaction, Goto, Compacting
  <2>2. ASSUME CompactionDone PROVE compacting' <=> pc' \in Compacting
    BY <2>2 DEF CompactionDone, Goto, Compacting
  <2>3. ASSUME ForgetMemory PROVE compacting' <=> pc' \in Compacting
    BY <2>3 DEF ForgetMemory, Compacting
  <2> QED
    BY <1>1, <1>2, <2>1, <2>2, <2>3 DEF MemoryChanges, PcMoves, ReadersType
<1>8. compacting' => pendingReaders' = <<>>
  <2>1. ASSUME StartCompaction PROVE pendingReaders' = <<>>
    BY <2>1 DEF StartCompaction
  <2>2. ASSUME CompactionDone \/ ForgetMemory PROVE ~ compacting'
    BY <2>2 DEF CompactionDone, ForgetMemory
  <2>3. ASSUME OpenLoad \/ RotatePush PROVE ~ compacting'
    BY <1>2, <2>3 DEF OpenLoad, RotatePush, Goto, ReadersType, Compacting
  <2>4. ASSUME Merge PROVE pendingReaders' = <<>>
    BY <2>4 DEF Merge
  <2> QED
    BY <1>1, <1>2, <2>1, <2>2, <2>3, <2>4 DEF MemoryChanges, ReadersType
<1> QED
  BY <1>3, <1>4, <1>5, <1>6, <1>7, <1>8 DEF ReadersType

-----------------------------------------------------------------------------
(* The files behind the lists *)

\* Where each of the steps that matter happens.
LEMMA ActionPcs ==
    /\ OpenLoad => pc = "down" /\ pc' = "openMake"
    /\ AMakeLog => /\ pc \in {"openMake", "rotate"}
                   /\ pc' \in {"openSave", "rotateSave"}
    /\ ASave => /\ pc \in {"openSave", "rotateSave"}
                /\ pc' \in {"openPush", "rotateSwap"}
    /\ RotatePush => pc = "rotatePush" /\ pc' = "start"
    /\ BuildTable => pc = "build" /\ pc' = "install"
    /\ Install => pc = "install" /\ pc' = "removing"
    /\ Commit => pc = "commit" /\ pc' = "delete"
    /\ ADeleteLog \/ ADeleteTable => pc = "delete" /\ pc' = "delete"
    /\ CloseSave => pc = "closeSave" /\ pc' = "closeDelete"
    /\ ACloseDelete => pc = "closeDelete" /\ pc' = "closeDelete"
    /\ ForgetMemory => pc' = "down"
<1>1. /\ OpenLoad => pc = "down" /\ pc' = "openMake"
      /\ AMakeLog => /\ pc \in {"openMake", "rotate"}
                     /\ pc' \in {"openSave", "rotateSave"}
      /\ ASave => /\ pc \in {"openSave", "rotateSave"}
                  /\ pc' \in {"openPush", "rotateSwap"}
      /\ RotatePush => pc = "rotatePush" /\ pc' = "start"
  BY DEF OpenLoad, AMakeLog, OpenMakeLog, RotateMakeLog, ASave, OpenSave, RotateSave, RotatePush,
         Goto
<1>2. /\ BuildTable => pc = "build" /\ pc' = "install"
      /\ Install => pc = "install" /\ pc' = "removing"
      /\ Commit => pc = "commit" /\ pc' = "delete"
  BY DEF BuildTable, Install, Commit, Goto
<1>3. ADeleteLog \/ ADeleteTable => pc = "delete" /\ pc' = "delete"
  BY DEF ADeleteLog, ADeleteTable, DeleteLog, DeleteTable
<1>4. /\ CloseSave => pc = "closeSave" /\ pc' = "closeDelete"
      /\ ACloseDelete => pc = "closeDelete" /\ pc' = "closeDelete"
  BY DEF CloseSave, ACloseDelete, CloseDelete, Goto
<1>5. ForgetMemory => pc' = "down"
  BY DEF ForgetMemory
<1> QED
  BY <1>1, <1>2, <1>3, <1>4, <1>5

\* Which files a step can add to the lists ...
LEMMA ListedMoves ==
    ASSUME BInv, [BNext]_vars, NEW e \in Listed'
    PROVE  \/ e \in Listed
           \/ ASave /\ e = LogFile(job.log)
           \/ Commit /\ e = TableFile(job.table)
<1>1. DiskChanges /\ MemoryChanges
  BY Changes
<1>2. ASSUME OpenLoad PROVE meta' = diskMeta
  BY <1>2 DEF OpenLoad
<1>3. ASSUME ForgetMemory PROVE FileSet(meta') = {}
  BY <1>3 DEF ForgetMemory, FileSet
<1>4. e \in FileSet(meta') \/ e \in FileSet(diskMeta')
  BY DEF Listed
<1>5. ASSUME ASave PROVE e \in Listed \/ e = LogFile(job.log)
  BY <1>4, <1>5, SavedLists DEF Listed
<1>6. ASSUME Commit PROVE e \in Listed \/ e = TableFile(job.table)
  BY <1>4, <1>6, CommittedLists DEF Listed
<1>7. ASSUME CloseSave PROVE e \in Listed
  BY <1>4, <1>7, ClosedLists DEF Listed
<1>8. ASSUME ~ASave, ~Commit, ~CloseSave PROVE e \in Listed
  BY <1>1, <1>2, <1>3, <1>4, <1>8 DEF DiskChanges, MemoryChanges, Listed
<1> QED
  BY <1>5, <1>6, <1>7, <1>8

\* ... and to the readers.
LEMMA ReaderMoves ==
    ASSUME BInv, [BNext]_vars, NEW e \in ReaderFiles'
    PROVE  \/ e \in ReaderFiles
           \/ OpenLoad /\ e \in FileSet(diskMeta)
           \/ Install /\ e = TableFile(job.table)
           \/ e \in AllLogs
<1>1. MemoryChanges
  BY Changes
<1>2. e \in rs' \/ e \in FileSet(pendingReaders')
  BY DEF ReaderFiles
<1>3. CASE e \in rs'
  <2>1. ASSUME Merge PROVE e \in ReaderFiles
    BY <1>3, <2>1 DEF Merge, ReaderFiles
  <2>2. ASSUME Install PROVE e \in ReaderFiles \/ e = TableFile(job.table)
    BY <1>3, <2>2, InstalledIndex DEF ReaderFiles
  <2>3. ASSUME Commit PROVE e \in ReaderFiles
    BY <1>3, <2>3, CommittedLists DEF ReaderFiles
  <2>4. ASSUME ForgetMemory PROVE FALSE
    BY <1>3, <2>4 DEF ForgetMemory
  <2> QED
    BY <1>1, <1>3, <2>1, <2>2, <2>3, <2>4 DEF MemoryChanges, ReaderFiles
<1>4. CASE e \in FileSet(pendingReaders')
  <2>1. ASSUME OpenLoad PROVE e \in FileSet(diskMeta)
    BY <1>4, <2>1, ReverseFiles DEF OpenLoad, BInv, ListsType
  <2>2. ASSUME RotatePush PROVE e \in ReaderFiles \/ e \in AllLogs
    <3>1. LogFile(job.log) \in AllLogs
      BY <2>2 DEF RotatePush, Goto, BInv, JobType, WithLog, Rotating, AllLogs
    <3>2. FileSet(pendingReaders') = FileSet(pendingReaders) \cup {LogFile(job.log)}
      BY <2>2, <3>1, PrependFile DEF RotatePush, BInv, ReadersType, DataFiles
    <3> QED
      BY <1>4, <3>1, <3>2 DEF ReaderFiles
  <2>3. ASSUME Merge \/ ForgetMemory PROVE FALSE
    BY <1>4, <2>3 DEF Merge, ForgetMemory, FileSet
  <2> QED
    BY <1>1, <1>4, <2>1, <2>2, <2>3 DEF MemoryChanges, ReaderFiles
<1> QED
  BY <1>2, <1>3, <1>4

\* A file stays until it is deleted, and what is deleted is among the unused.
LEMMA ExistsKept ==
    ASSUME BInv, [BNext]_vars, NEW e \in DataFiles, Exists(e)
    PROVE  \/ Exists(e)'
           \/ pc \in {"delete", "closeDelete"} /\ e \in job.unused
<1>1. DiskChanges
  BY Changes
<1>2. /\ e.type = "log" => e = LogFile(e.name)
      /\ e.type # "log" => e.type = "table" /\ e = TableFile(e.name)
  BY DEF DataFiles, AllLogs, AllTables, LogFile, TableFile
<1>3. \A x \in job.unused : /\ x.type = "log" => x = LogFile(x.name)
                            /\ x.type = "table" => x = TableFile(x.name)
  BY DEF BInv, JobType, DataFiles, AllLogs, AllTables, LogFile, TableFile
<1>4. CASE e.type = "log"
  <2>1. e.name \in logFiles
    BY <1>4 DEF Exists
  <2>2. ASSUME AMakeLog PROVE e.name \in logFiles'
    BY <2>1, <2>2 DEF AMakeLog, OpenMakeLog, RotateMakeLog
  <2>3. ASSUME ADeleteLog PROVE e.name \in logFiles' \/ e \in job.unused
    <3>1. PICK x \in job.unused : x.type = "log" /\ logFiles' = logFiles \ {x.name}
      BY <2>3 DEF ADeleteLog, DeleteLog
    <3> QED
      BY <1>2, <1>3, <1>4, <2>1, <3>1
  <2>4. ASSUME ACloseDelete PROVE e.name \in logFiles' \/ e \in job.unused
    <3>1. PICK x \in job.unused : logFiles' = logFiles \ {x.name}
      BY <2>4 DEF ACloseDelete, CloseDelete
    <3>2. x.type = "log"
      <4>1. x \in AllLogs
        BY <2>4, ActionPcs DEF BInv, JobHeld
      <4> QED
        BY <4>1 DEF AllLogs, LogFile
    <3> QED
      BY <1>2, <1>3, <1>4, <2>1, <3>1, <3>2
  <2> QED
    BY <1>1, <1>4, <2>1, <2>2, <2>3, <2>4, ActionPcs DEF DiskChanges, Exists
<1>5. CASE e.type # "log"
  <2>1. e.name \in DOMAIN tables
    BY <1>5 DEF Exists
  <2>2. ASSUME BuildTable PROVE e.name \in DOMAIN tables'
    BY <2>1, <2>2 DEF BuildTable
  <2>3. ASSUME ADeleteTable PROVE e.name \in DOMAIN tables' \/ e \in job.unused
    <3>1. PICK x \in job.unused : x.type = "table" /\ DOMAIN tables' = DOMAIN tables \ {x.name}
      BY <2>3 DEF ADeleteTable, DeleteTable
    <3> QED
      BY <1>2, <1>3, <1>5, <2>1, <3>1
  <2> QED
    BY <1>1, <1>5, <2>1, <2>2, <2>3, ActionPcs DEF DiskChanges, Exists
<1> QED
  BY <1>4, <1>5

\* Listed files and readers are of the known types.
LEMMA FilesTyped ==
    ASSUME BInv
    PROVE  Listed \subseteq DataFiles /\ ReaderFiles \subseteq DataFiles
<1>1. FileSet(meta) \subseteq DataFiles /\ FileSet(diskMeta) \subseteq DataFiles
  BY FileSetType DEF BInv, ListsType
<1>2. FileSet(pendingReaders) \subseteq DataFiles /\ rs \subseteq DataFiles
  BY FileSetType DEF BInv, ReadersType
<1> QED
  BY <1>1, <1>2 DEF Listed, ReaderFiles

LEMMA FilesExistStep ==
    ASSUME BInv, [BNext]_vars
    PROVE  FilesExist'
<1>1. ASSUME NEW e \in Listed' PROVE Exists(e)'
  <2>1. CASE e \in Listed
    <3>1. e \in DataFiles /\ Exists(e)
      BY <2>1, FilesTyped DEF BInv, FilesExist
    <3>2. pc \in {"delete", "closeDelete"} => e \notin job.unused
      BY <2>1 DEF BInv, JobHeld
    <3> QED
      BY <3>1, <3>2, ExistsKept
  <2>2. CASE ASave /\ e = LogFile(job.log)
    BY <2>2, SavedLists DEF Exists, LogFile
  <2>3. CASE Commit /\ e = TableFile(job.table)
    BY <2>3, CommittedLists DEF Exists, TableFile
  <2> QED
    BY <2>1, <2>2, <2>3, ListedMoves
<1>2. ASSUME NEW e \in ReaderFiles', e.type = "table" PROVE Exists(e)'
  <2>1. e \notin AllLogs
    BY <1>2 DEF AllLogs, LogFile
  <2>2. CASE e \in ReaderFiles
    <3>1. e \in DataFiles /\ Exists(e)
      BY <1>2, <2>2, FilesTyped DEF BInv, FilesExist
    <3>2. pc = "closeDelete" => e \notin job.unused
      BY <2>1 DEF BInv, JobHeld
    <3>3. pc = "delete" => e \notin job.unused
      <4> SUFFICES ASSUME pc = "delete" PROVE e \notin job.unused
        OBVIOUS
      <4>1. pendingReaders = <<>>
        BY DEF BInv, ReadersType, Compacting
      <4>2. e \in rs
        BY <2>2, <4>1 DEF ReaderFiles, FileSet
      <4> QED
        BY <4>2 DEF BInv, FilesExist
    <3> QED
      BY <3>1, <3>2, <3>3, ExistsKept
  <2>3. CASE OpenLoad /\ e \in FileSet(diskMeta)
    <3>1. e \in DataFiles /\ Exists(e)
      BY <2>3, FilesTyped DEF BInv, FilesExist, Listed
    <3>2. pc = "down"
      BY <2>3, ActionPcs
    <3> QED
      BY <3>1, <3>2, ExistsKept
  <2>4. CASE Install /\ e = TableFile(job.table)
    BY <2>4, InstalledIndex DEF Install, Exists, TableFile
  <2> QED
    BY <2>1, <2>2, <2>3, <2>4, ReaderMoves
<1>3. ASSUME pc' = "delete" PROVE job'.unused \cap rs' = {}
  <2>1. CASE Commit
    <3>1. job'.unused = Unused /\ rs' = rs \ Unused
      BY <2>1, CommittedLists DEF BInv, JobType
    <3> QED
      BY <3>1
  <2>2. CASE ~ Commit
    <3>1. pc = "delete" /\ job'.unused \subseteq job.unused
      BY <1>3, <2>2, PcStep, ActionPcs DEF BInv, PcMoves
    <3>2. ~ Merge
      BY <3>1 DEF Merge, BInv, ReadersType, Compacting
    <3>3. UNCHANGED rs
      BY <1>3, <2>2, <3>1, <3>2, Changes, ActionPcs DEF MemoryChanges
    <3> QED
      BY <3>1, <3>3 DEF BInv, FilesExist
  <2> QED
    BY <2>1, <2>2
<1> QED
  BY <1>1, <1>2, <1>3 DEF FilesExist

\* A step that makes, saves, builds or deletes nothing leaves the lists alone.
LEMMA ListsKept ==
    ASSUME [BNext]_vars, ~OpenLoad, ~ASave, ~Commit, ~CloseSave, pc' # "down"
    PROVE  UNCHANGED <<meta, diskMeta>>
  BY Changes, ActionPcs DEF DiskChanges, MemoryChanges

LEMMA JobHeldStep ==
    ASSUME BInv, [BNext]_vars
    PROVE  JobHeld'
<1>1. DiskChanges /\ MemoryChanges /\ PcMoves
  BY Changes, PcStep DEF BInv
<1>2. job \in [log : Logs \cup {NoLog}, table : Nat, unused : SUBSET DataFiles]
  BY DEF BInv, JobType
<1>3. ASSUME pc' \in {"openSave", "rotateSave"}
      PROVE  job'.log \in logFiles' /\ LogFile(job'.log) \notin FileSet(meta')
  <2>1. UNCHANGED meta
    BY <1>3, ListsKept, ActionPcs
  <2>2. CASE AMakeLog
    <3>1. /\ NewName \in Logs \ logFiles
          /\ job' = [job EXCEPT !.log = NewName]
          /\ logFiles' = logFiles \cup {NewName}
      BY <2>2, FreshName DEF AMakeLog, OpenMakeLog, RotateMakeLog, BInv
    <3>2. job'.log = NewName
      BY <1>2, <3>1
    <3>3. LogFile(NewName) \notin FileSet(meta)
      <4>1. ~ Exists(LogFile(NewName))
        BY <3>1 DEF Exists, LogFile
      <4> QED
        BY <4>1 DEF BInv, FilesExist, Listed
    <3> QED
      BY <2>1, <3>1, <3>2, <3>3
  <2>3. CASE ~ AMakeLog
    <3>1. pc' = pc /\ UNCHANGED job
      BY <1>1, <1>3, <2>3 DEF PcMoves
    <3>2. UNCHANGED logFiles
      BY <1>1, <1>3, <2>3, ActionPcs DEF DiskChanges
    <3> QED
      BY <1>3, <2>1, <3>1, <3>2 DEF BInv, JobHeld
  <2> QED
    BY <2>2, <2>3
<1>4. ASSUME pc' \in {"install", "removing", "commit"}
      PROVE  /\ job'.table \in DOMAIN tables'
             /\ job'.table < nextSeq'
             /\ TableFile(job'.table) \notin FileSet(meta')
  <2>1. UNCHANGED meta
    BY <1>4, ListsKept, ActionPcs
  <2>2. CASE BuildTable
    <3>1. /\ job' = [job EXCEPT !.table = nextSeq]
          /\ DOMAIN tables' = DOMAIN tables \cup {nextSeq}
          /\ nextSeq' = nextSeq + 1
          /\ pc = "build"
      BY <2>2 DEF BuildTable, Goto
    <3>2. job'.table = nextSeq /\ nextSeq \in Nat
      BY <1>2, <3>1, SizesAssumption DEF BInv, ListsType
    <3>3. TableFile(nextSeq) \notin FileSet(meta)
      <4> SUFFICES ASSUME TableFile(nextSeq) \in FileSet(meta) PROVE nextSeq < nextSeq
        BY <3>2
      <4> QED
        BY <3>1 DEF BInv, SeqFresh, Listed, TableFile
    <3> QED
      BY <2>1, <3>1, <3>2, <3>3
  <2>3. CASE ~ BuildTable
    <3>1. pc \in {"install", "removing", "commit"} /\ job'.table = job.table
      BY <1>1, <1>4, <2>3 DEF PcMoves
    <3>2. UNCHANGED <<tables, nextSeq>>
      BY <1>1, <1>4, <2>3, ActionPcs DEF DiskChanges, MemoryChanges
    <3> QED
      BY <2>1, <3>1, <3>2 DEF BInv, JobHeld
  <2> QED
    BY <2>2, <2>3
<1>5. ASSUME pc' \in {"delete", "closeDelete"}
      PROVE  /\ job'.unused \cap Listed' = {}
             /\ pc' = "closeDelete" => job'.unused \subseteq AllLogs
  <2>1. CASE Commit
    <3>1. job'.unused = Unused
      BY <1>2, <2>1, CommittedLists
    <3> QED
      BY <2>1, <3>1, CommittedLists, ActionPcs DEF Listed
  <2>2. CASE CloseSave
    BY <2>2, ClosedLists DEF Listed
  <2>3. CASE ~Commit /\ ~CloseSave
    <3>1. pc' = pc /\ job'.unused \subseteq job.unused
      BY <1>1, <1>5, <2>3 DEF PcMoves
    <3>2. Listed' = Listed
      BY <1>5, <2>3, ListsKept, ActionPcs DEF Listed
    <3> QED
      BY <1>5, <3>1, <3>2 DEF BInv, JobHeld
  <2> QED
    BY <2>1, <2>2, <2>3
<1> QED
  BY <1>3, <1>4, <1>5 DEF JobHeld

\* While a process runs, sequence numbers only grow.
LEMMA SeqGrows ==
    ASSUME BInv, [BNext]_vars, pc # "down", pc' # "down"
    PROVE  nextSeq' >= nextSeq
<1>1. UNCHANGED nextSeq \/ BuildTable
  BY Changes, ActionPcs DEF MemoryChanges
<1>2. nextSeq \in Nat
  BY SizesAssumption DEF BInv, ListsType
<1> QED
  BY <1>1, <1>2 DEF BuildTable

LEMMA SeqFreshStep ==
    ASSUME BInv, [BNext]_vars
    PROVE  SeqFresh'
<1> SUFFICES ASSUME pc' # "down", NEW e \in Listed' \cup ReaderFiles', e.type = "table"
             PROVE  e.name < nextSeq'
  BY DEF SeqFresh
<1>1. e \notin AllLogs
  BY DEF AllLogs, LogFile
<1>2. ListsType /\ SizesAssumption
  BY SizesAssumption DEF BInv
<1>3. CASE pc = "down"
  <2>1. OpenLoad
    BY <1>3, PcStep DEF BInv, PcMoves
  <2>2. /\ meta' = diskMeta
        /\ diskMeta' = diskMeta
        /\ nextSeq' = SeqAfter(diskMeta)
        /\ FileSet(pendingReaders') = FileSet(diskMeta)
        /\ rs' = rs
    BY <1>2, <2>1, ReverseFiles DEF OpenLoad, ListsType
  <2>3. e \in FileSet(diskMeta)
    BY <1>3, <2>2 DEF Listed, ReaderFiles, BInv, DownEmpty
  <2> QED
    BY <1>2, <2>2, <2>3, SeqAfterAll DEF ListsType, SizesAssumption
<1>4. CASE pc # "down"
  <2>1. nextSeq' >= nextSeq /\ nextSeq \in Nat /\ nextSeq' \in Nat
    BY <1>2, <1>4, SeqGrows, ListsTypeStep DEF ListsType, SizesAssumption
  <2>2. ASSUME NEW n \in Nat, n < nextSeq PROVE n < nextSeq'
    BY <2>1, <2>2
  <2>3. CASE e \in Listed \cup ReaderFiles
    <3>1. e.name < nextSeq
      BY <1>4, <2>3 DEF BInv, SeqFresh
    <3>2. e.name \in Nat
      <4>1. e \in DataFiles
        BY <2>3, FilesTyped
      <4> QED
        BY <4>1, <1>1, SizesAssumption DEF DataFiles, AllTables, TableFile
    <3> QED
      BY <2>2, <3>1, <3>2
  <2>4. CASE (Commit \/ Install) /\ e = TableFile(job.table)
    <3>1. job.table < nextSeq /\ job.table \in Nat
      BY <2>4, CommittedLists, InstalledIndex DEF BInv, JobType
    <3> QED
      BY <2>2, <2>4, <3>1 DEF TableFile
  <2>5. ~ OpenLoad
    BY <1>4, ActionPcs
  <2>6. ~ (ASave /\ e = LogFile(job.log))
    BY DEF LogFile
  <2> QED
    BY <1>1, <2>3, <2>4, <2>5, <2>6, ListedMoves, ReaderMoves
<1> QED
  BY <1>3, <1>4

LEMMA DownEmptyStep ==
    ASSUME BInv, [BNext]_vars
    PROVE  DownEmpty'
<1> SUFFICES ASSUME pc' = "down" PROVE rs' = {} /\ pendingReaders' = <<>> /\ meta' = <<>>
  BY DEF DownEmpty
<1>1. CASE ForgetMemory
  BY <1>1 DEF ForgetMemory
<1>2. CASE ~ ForgetMemory
  <2>1. pc = "down"
    BY <1>2, PcStep DEF BInv, PcMoves
  <2>2. rs = {} /\ pendingReaders = <<>> /\ meta = <<>>
    BY <2>1 DEF BInv, DownEmpty
  <2>3. ~ Merge
    BY <2>2 DEF Merge
  <2>4. UNCHANGED <<rs, pendingReaders, meta>>
    BY <1>2, <2>1, <2>3, Changes, ActionPcs DEF MemoryChanges
  <2> QED
    BY <2>2, <2>4
<1> QED
  BY <1>1, <1>2

-----------------------------------------------------------------------------
(* The contents *)

\* A nonempty set of positions has a last one.
LEMMA LastPosition ==
    ASSUME NEW n \in Nat, NEW T \in SUBSET (1..n), T # {}
    PROVE  \E i \in T : \A j \in (i + 1)..n : j \notin T
<1>1. T \in SUBSET Nat /\ \A m \in T : m <= n
  OBVIOUS
<1>2. Max(T) \in T /\ \A m \in T : m <= Max(T)
  BY <1>1, MaxOfBounded
<1>3. Max(T) \in Nat
  BY <1>1, <1>2
<1>4. \A j \in (Max(T) + 1)..n : j \notin T
  BY <1>2, <1>3
<1> QED
  BY <1>2, <1>4

\* What a log has for a block is one of its records, or nothing.
LEMMA LogContentType ==
    ASSUME WTypeOK, ContentsType, NEW l \in Logs, NEW n \in 0..Len(entries[l]), NEW b
    PROVE  LogContent(entries, l, n, b) \in Versions
<1>1. Len(entries[l]) \in Nat /\ DOMAIN entries[l] = 1..Len(entries[l])
  BY DEF WTypeOK
<1>2. 0 \in Versions
  BY MaxVersionAssumption DEF Versions
<1>3. CASE \E i \in 1..n : entries[l][i][1] = b
  <2> DEFINE T == {i \in 1..n : entries[l][i][1] = b}
             P(i) == /\ entries[l][i][1] = b
                     /\ \A j \in (i + 1)..n : entries[l][j][1] # b
  <2>1. n \in Nat /\ T \in SUBSET (1..n) /\ T # {}
    BY <1>1, <1>3
  <2>2. \E i \in 1..n : P(i)
    <3> HIDE DEF T
    <3>1. PICK i \in T : \A j \in (i + 1)..n : j \notin T
      BY <2>1, LastPosition
    <3>2. \A j \in (i + 1)..n : j \in 1..n
      BY <2>1, <3>1
    <3> QED
      BY <3>1, <3>2 DEF T
  <2> DEFINE k == CHOOSE i \in 1..n : P(i)
  <2>3. k \in 1..n
    <3> HIDE DEF P
    <3> QED
      BY <2>2
  <2>4. LogContent(entries, l, n, b) = entries[l][k][2]
    BY <1>3 DEF LogContent
  <2> HIDE DEF k
  <2>5. entries[l][k] \in Blocks \X Versions
    BY <1>1, <2>1, <2>3 DEF ContentsType
  <2> QED
    BY <2>4, <2>5
<1>4. CASE ~ \E i \in 1..n : entries[l][i][1] = b
  BY <1>2, <1>4 DEF LogContent
<1> QED
  BY <1>3, <1>4

\* What a file that can be read has for a block.
LEMMA ContentType ==
    ASSUME WTypeOK, ContentsType, NEW b \in Blocks, NEW e \in DataFiles \cup {NoFile},
           e.type = "table" => e.name \in DOMAIN tables
    PROVE  Content(e, b) \in Versions
<1>1. 0 \in Versions
  BY MaxVersionAssumption DEF Versions
<1>2. CASE e.type = "log"
  <2>1. e.name \in Logs
    BY <1>2 DEF DataFiles, AllLogs, AllTables, LogFile, TableFile, NoFile
  <2>2. Len(entries[e.name]) \in 0..Len(entries[e.name])
    BY <2>1 DEF WTypeOK
  <2> QED
    BY <1>2, <2>1, <2>2, LogContentType DEF Content
<1>3. CASE e.type = "table"
  BY <1>3 DEF Content, ContentsType
<1>4. CASE e.type # "log" /\ e.type # "table"
  BY <1>1, <1>4 DEF Content
<1> QED
  BY <1>2, <1>3, <1>4

\* What compactToFile writes.
LEMMA CompactedType ==
    ASSUME BInv, NEW es
    PROVE  Compacted(es) \in [Blocks -> Versions]
<1> DEFINE Hits(b) == {i \in DOMAIN pendingWriters : Content(LogFile(pendingWriters[i]), b) # 0}
           New(b) == IF Hits(b) # {} THEN Content(LogFile(pendingWriters[Max(Hits(b))]), b)
                     ELSE IF index[b] \in es THEN Content(index[b], b)
                     ELSE 0
<1>1. Compacted(es) = [b \in Blocks |-> New(b)]
  BY DEF Compacted
<1>2. ASSUME NEW b \in Blocks PROVE New(b) \in Versions
  <2>1. WTypeOK /\ ContentsType /\ ReadersType
    BY DEF BInv, WInv
  <2>2. /\ DOMAIN pendingWriters = 1..Len(pendingWriters)
        /\ Len(pendingWriters) \in Nat
        /\ \A i \in DOMAIN pendingWriters : pendingWriters[i] \in Logs
    BY <2>1 DEF WTypeOK
  <2>3. ASSUME Hits(b) # {}
        PROVE  Content(LogFile(pendingWriters[Max(Hits(b))]), b) \in Versions
    <3>1. /\ Hits(b) \in SUBSET Nat
          /\ Hits(b) \subseteq DOMAIN pendingWriters
          /\ \A m \in Hits(b) : m <= Len(pendingWriters)
      BY <2>2
    <3> HIDE DEF Hits
    <3>2. Max(Hits(b)) \in DOMAIN pendingWriters
      BY <2>2, <2>3, <3>1, MaxOfBounded
    <3> DEFINE e == LogFile(pendingWriters[Max(Hits(b))])
    <3>3. e \in DataFiles /\ e.type # "table"
      BY <2>2, <3>2 DEF DataFiles, AllLogs, LogFile
    <3> HIDE DEF e
    <3>4. Content(e, b) \in Versions
      BY <2>1, <3>3, ContentType
    <3> QED
      BY <3>4 DEF e
  <2>4. Content(index[b], b) \in Versions
    <3>1. index[b] \in rs \cup {NoFile}
      BY <2>1 DEF ReadersType
    <3>2. index[b].type = "table" => index[b].name \in DOMAIN tables
      BY <3>1 DEF BInv, FilesExist, ReaderFiles, Exists, NoFile
    <3>3. index[b] \in DataFiles \cup {NoFile}
      BY <2>1, <3>1 DEF ReadersType
    <3> QED
      BY <2>1, <3>2, <3>3, ContentType
  <2>5. 0 \in Versions
    BY MaxVersionAssumption DEF Versions
  <2> QED
    BY <2>3, <2>4, <2>5
<1> HIDE DEF New
<1> QED
  BY <1>1, <1>2

\* What is left after a power failure.
LEMMA RecoveredType ==
    ASSUME BInv, NEW len, \A l \in Logs : len[l] \in 0..Len(entries[l]), NEW b \in Blocks
    PROVE  Recovered(diskMeta, entries, len, b) \in Versions
<1> DEFINE At(e) == IF e.type = "log" THEN LogContent(entries, e.name, len[e.name], b)
                    ELSE tables[e.name][b]
           P(i) == /\ At(diskMeta[i]) # 0
                   /\ \A j \in (i + 1)..Len(diskMeta) : At(diskMeta[j]) = 0
           n == Len(diskMeta)
<1>1. n \in Nat /\ DOMAIN diskMeta = 1..n
  BY DEF BInv, ListsType
<1>2. ASSUME NEW i \in 1..n PROVE At(diskMeta[i]) \in Versions
  <2>1. WTypeOK /\ ContentsType
    BY DEF BInv, WInv
  <2>2. diskMeta[i] \in DataFiles /\ Exists(diskMeta[i])
    BY <1>1, FilesTyped DEF BInv, FilesExist, Listed, FileSet
  <2>3. CASE diskMeta[i].type = "log"
    <3>1. diskMeta[i].name \in Logs
      BY <2>2, <2>3 DEF DataFiles, AllLogs, AllTables, LogFile, TableFile
    <3> QED
      BY <2>1, <2>3, <3>1, LogContentType
  <2>4. CASE diskMeta[i].type # "log"
    BY <2>1, <2>2, <2>4 DEF Exists, ContentsType
  <2> QED
    BY <2>3, <2>4
<1>3. CASE \E i \in DOMAIN diskMeta : At(diskMeta[i]) # 0
  <2> DEFINE T == {i \in 1..n : At(diskMeta[i]) # 0}
             k == CHOOSE i \in DOMAIN diskMeta : P(i)
  <2>1. Recovered(diskMeta, entries, len, b) = At(diskMeta[k])
    BY <1>3 DEF Recovered
  <2>2. \E i \in DOMAIN diskMeta : P(i)
    <3> HIDE DEF At
    <3>1. T \in SUBSET (1..n) /\ T # {}
      BY <1>1, <1>3
    <3> HIDE DEF T
    <3>2. PICK i \in T : \A j \in (i + 1)..n : j \notin T
      BY <1>1, <3>1, LastPosition
    <3>3. i \in 1..n /\ \A j \in (i + 1)..n : j \in 1..n
      BY <1>1, <3>1, <3>2
    <3>4. At(diskMeta[i]) # 0
      BY <3>2 DEF T
    <3>5. \A j \in (i + 1)..n : At(diskMeta[j]) = 0
      BY <3>2, <3>3 DEF T
    <3> QED
      BY <1>1, <3>3, <3>4, <3>5
  <2>3. k \in DOMAIN diskMeta
    <3> HIDE DEF P
    <3> QED
      BY <2>2
  <2> HIDE DEF k, At
  <2> QED
    BY <1>1, <1>2, <2>1, <2>3
<1>4. CASE ~ \E i \in DOMAIN diskMeta : At(diskMeta[i]) # 0
  <2>1. Recovered(diskMeta, entries, len, b) = 0
    BY <1>4 DEF Recovered
  <2> QED
    BY <2>1, MaxVersionAssumption DEF Versions
<1> QED
  BY <1>3, <1>4

\* A write appends one record, the next version of its block.
LEMMA AppendedRecords ==
    ASSUME BInv, AWrite
    PROVE  /\ \A l \in Logs : \A i \in DOMAIN entries'[l] : entries'[l][i] \in Blocks \X Versions
           /\ cur' \in [Blocks -> Versions]
<1>1. PICK b \in Blocks : BWriteAppend(b)
  BY DEF AWrite
<1> DEFINE k == wr[b].log
           r == <<b, ver[b] + 1>>
<1>2. /\ wr[b].pc = "write"
      /\ k # NoLog
      /\ ver' = [ver EXCEPT ![b] = @ + 1]
      /\ entries' = [entries EXCEPT ![k] = Append(@, r)]
      /\ cur' = [cur EXCEPT ![b] = ver'[b]]
  BY <1>1 DEF BWriteAppend, WriteAppend
<1>3. WTypeOK /\ ContentsType
  BY DEF BInv, WInv
<1>4. ver[b] \in Versions /\ ver[b] < MaxVersion /\ k \in Logs
  BY <1>2, <1>3 DEF BInv, WInv, WTypeOK, WritesHeld, Versions
<1>5. ver[b] + 1 \in Versions /\ ver'[b] = ver[b] + 1
  BY <1>2, <1>3, <1>4, MaxVersionAssumption DEF WTypeOK, Versions
<1>6. cur' \in [Blocks -> Versions]
  BY <1>2, <1>3, <1>5 DEF ContentsType
<1>7. r \in Blocks \X Versions
  BY <1>5
<1> HIDE DEF k, r
<1>8. ASSUME NEW l \in Logs, NEW i \in DOMAIN entries'[l]
      PROVE  entries'[l][i] \in Blocks \X Versions
  <2>1. entries \in [Logs -> Seq(Blocks \X Nat)]
    BY <1>3 DEF WTypeOK
  <2>2. CASE l # k
    BY <1>2, <1>3, <1>4, <2>1, <2>2 DEF ContentsType
  <2>3. CASE l = k
    <3> DEFINE old == entries[k]
               new == entries'[l]
    <3>1. old \in Seq(Blocks \X Nat) /\ new = Append(old, r)
      BY <1>2, <1>4, <2>1, <2>3
    <3>2. \A j \in DOMAIN old : old[j] \in Blocks \X Versions
      BY <1>3, <1>4 DEF ContentsType
    <3> HIDE DEF old, new
    <3>3. r \in Blocks \X Nat
      BY <1>7 DEF Versions
    <3>4. /\ DOMAIN old = 1..Len(old) /\ Len(old) \in Nat
          /\ DOMAIN new = 1..(Len(old) + 1)
          /\ \A j \in 1..Len(old) : new[j] = old[j]
          /\ new[Len(old) + 1] = r
      BY <3>1, <3>3
    <3>5. \A j \in DOMAIN new : new[j] \in Blocks \X Versions
      BY <1>7, <3>2, <3>4
    <3> QED
      BY <3>5 DEF new
  <2> QED
    BY <2>2, <2>3
<1> QED
  BY <1>6, <1>8

LEMMA EntriesStep ==
    ASSUME BInv, [BNext]_vars
    PROVE  \A l \in Logs : \A i \in DOMAIN entries'[l] : entries'[l][i] \in Blocks \X Versions
<1> SUFFICES ASSUME NEW l \in Logs, NEW i \in DOMAIN entries'[l]
             PROVE  entries'[l][i] \in Blocks \X Versions
  OBVIOUS
<1>1. WTypeOK /\ ContentsType
  BY DEF BInv, WInv
<1>2. ASSUME NEW k, entries' = [entries EXCEPT ![k] = <<>>]
      PROVE  entries'[l][i] \in Blocks \X Versions
  <2>1. l # k
    <3> SUFFICES ASSUME l = k PROVE FALSE
      OBVIOUS
    <3>1. entries'[l] = <<>>
      BY <1>1, <1>2 DEF WTypeOK
    <3> QED
      BY <3>1
  <2>2. entries'[l] = entries[l]
    BY <1>1, <1>2, <2>1 DEF WTypeOK
  <2> QED
    BY <1>1, <2>2 DEF ContentsType
<1>3. CASE AMakeLog \/ ADeleteLog
  <2>1. \E k : entries' = [entries EXCEPT ![k] = <<>>]
    BY <1>3
    DEF AMakeLog, ADeleteLog, OpenMakeLog, RotateMakeLog, MakeLogWriter, DeleteLog, CloseRemoved
  <2> QED
    BY <1>2, <2>1
<1>4. CASE PowerLoss
  <2>1. /\ entries[l] \in Seq(Blocks \X Nat)
        /\ entries'[l] \in Seq(Blocks \X Nat)
        /\ Len(entries'[l]) <= Len(entries[l])
        /\ \A j \in 1..Len(entries'[l]) : entries'[l][j] = entries[l][j]
    BY <1>1, <1>4, PowerLossLogs DEF WTypeOK
  <2>2. /\ DOMAIN entries[l] = 1..Len(entries[l]) /\ Len(entries[l]) \in Nat
        /\ DOMAIN entries'[l] = 1..Len(entries'[l]) /\ Len(entries'[l]) \in Nat
    BY <2>1
  <2>3. i \in DOMAIN entries[l] /\ entries'[l][i] = entries[l][i]
    BY <2>1, <2>2
  <2> QED
    BY <1>1, <2>3 DEF ContentsType
<1>5. CASE UNCHANGED entries
  BY <1>1, <1>5 DEF ContentsType
<1>6. CASE AWrite
  BY <1>6, AppendedRecords
<1> QED
  BY <1>3, <1>4, <1>5, <1>6, Changes DEF DiskChanges

LEMMA ContentsTypeStep ==
    ASSUME BInv, [BNext]_vars
    PROVE  ContentsType'
<1>1. DiskChanges /\ HistoryChanges
  BY Changes
<1>2. WTypeOK /\ ContentsType
  BY DEF BInv, WInv
<1>3. Hole \in [Blocks -> Versions]
  BY MaxVersionAssumption DEF Hole, Versions
<1>4. ASSUME NEW s \in DOMAIN tables' PROVE tables'[s] \in [Blocks -> Versions]
  <2>1. CASE BuildTable
    <3>1. PICK es \in SUBSET rs :
             tables' = [x \in DOMAIN tables \cup {nextSeq} |->
                           IF x = nextSeq THEN Compacted(es) ELSE tables[x]]
      BY <2>1 DEF BuildTable
    <3>2. Compacted(es) \in [Blocks -> Versions]
      BY CompactedType
    <3> QED
      BY <1>2, <1>4, <3>1, <3>2 DEF ContentsType
  <2>2. CASE ADeleteTable
    <3>1. s \in DOMAIN tables /\ tables'[s] = tables[s]
      BY <1>4, <2>2 DEF ADeleteTable, DeleteTable
    <3> QED
      BY <1>2, <3>1 DEF ContentsType
  <2>3. CASE UNCHANGED tables
    BY <1>2, <1>4, <2>3 DEF ContentsType
  <2> QED
    BY <1>1, <2>1, <2>2, <2>3 DEF DiskChanges
<1>5. acked' \in [Blocks -> Versions]
  <2>1. ASSUME NEW b \in Blocks, BWriteReturn(b) PROVE acked' \in [Blocks -> Versions]
    <3>1. acked' = [acked EXCEPT ![b] = ver[b]] /\ ver[b] \in Versions
      BY <1>2, <2>1 DEF BWriteReturn, WTypeOK, Versions
    <3> QED
      BY <1>2, <3>1 DEF ContentsType
  <2>2. ASSUME ForgetMemory PROVE acked' \in [Blocks -> Versions]
    BY <1>3, <2>2 DEF ForgetMemory
  <2> QED
    BY <1>1, <1>2, <2>1, <2>2 DEF HistoryChanges, ContentsType
<1>6. need' \in [Flushers -> [Blocks -> Versions]]
  <2>1. ASSUME NEW f \in Flushers, BFlushStart(f) \/ BFlushReturn(f)
        PROVE  need' \in [Flushers -> [Blocks -> Versions]]
    <3>1. \E v \in [Blocks -> Versions] : need' = [need EXCEPT ![f] = v]
      BY <1>2, <1>3, <2>1 DEF BFlushStart, BFlushReturn, ContentsType
    <3> QED
      BY <1>2, <3>1 DEF ContentsType
  <2>2. ASSUME ForgetMemory PROVE need' \in [Flushers -> [Blocks -> Versions]]
    <3>1. need' = [f \in Flushers |-> Hole]
      BY <2>2 DEF ForgetMemory
    <3> QED
      BY <1>3, <3>1
  <2> QED
    BY <1>1, <1>2, <2>1, <2>2 DEF HistoryChanges, ContentsType
<1>7. flushed' \in [Blocks -> Versions]
  <2>1. ASSUME NEW f \in Flushers, BFlushReturn(f) PROVE flushed' \in [Blocks -> Versions]
    <3>1. flushed' = [b \in Blocks |-> Max({flushed[b], need[f][b]})]
      BY <2>1 DEF BFlushReturn
    <3>2. ASSUME NEW b \in Blocks PROVE Max({flushed[b], need[f][b]}) \in Versions
      <4> DEFINE T == {flushed[b], need[f][b]}
      <4>1. T \in SUBSET Versions
        BY <1>2 DEF ContentsType
      <4>2. T # {} /\ T \in SUBSET Nat /\ \A m \in T : m <= MaxVersion
        BY <4>1, MaxVersionAssumption DEF Versions
      <4> HIDE DEF T
      <4>3. Max(T) \in T
        BY <4>2, MaxVersionAssumption, MaxOfBounded
      <4>4. Max(T) \in Versions
        BY <4>1, <4>3
      <4> QED
        BY <4>4 DEF T
    <3> QED
      BY <3>1, <3>2
  <2> QED
    BY <1>1, <1>2, <2>1 DEF HistoryChanges, ContentsType
<1>8. cur' \in [Blocks -> Versions]
  <2>1. ASSUME PowerLoss PROVE cur' \in [Blocks -> Versions]
    <3>1. PICK len \in [Logs -> 0..Max({Len(entries[l]) : l \in Logs})] :
             /\ \A l \in Logs : len[l] \in synced[l]..Len(entries[l])
             /\ cur' = [b \in Blocks |-> Recovered(diskMeta, entries, len, b)]
      BY <2>1 DEF PowerLoss
    <3>2. \A l \in Logs : len[l] \in 0..Len(entries[l])
      BY <1>2, <3>1 DEF WTypeOK
    <3>3. \A b \in Blocks : Recovered(diskMeta, entries, len, b) \in Versions
      BY <3>2, RecoveredType
    <3> QED
      BY <3>1, <3>3
  <2> QED
    BY <1>1, <1>2, <2>1, AppendedRecords DEF HistoryChanges, ContentsType
<1> QED
  BY <1>4, <1>5, <1>6, <1>7, <1>8, EntriesStep DEF ContentsType

-----------------------------------------------------------------------------
(* The theorems *)

LEMMA BInitInv == BInit => BInv
<1> SUFFICES ASSUME BInit PROVE BInv
  OBVIOUS
<1> USE SizesAssumption, MaxVersionAssumption DEF BInit
<1>1. WInv
  BY WInitInv
<1>2. DownIdle
  BY DEF WInit, DownIdle
<1>3. JobType
  BY DEF JobType, IdleJob, Pcs, WithLog, Rotating
<1>4. meta = <<>> /\ diskMeta = <<>> /\ pendingReaders = <<>> /\ writers = <<>>
  OBVIOUS
<1>5. ListsType
  <2>1. <<>> \in Seq(DataFiles)
    OBVIOUS
  <2> QED
    BY <2>1 DEF ListsType
<1>6. ReadersType
  <2>1. <<>> \in Seq(DataFiles) /\ <<>> \in Seq(AllLogs) /\ IsFiniteSet({})
    BY FS_EmptySet
  <2> QED
    BY <2>1 DEF ReadersType, Compacting
<1>7. ContentsType
  <2>1. Hole \in [Blocks -> Versions]
    BY DEF Hole, Versions
  <2>2. need \in [Flushers -> [Blocks -> Versions]]
    BY <2>1
  <2>3. \A l \in Logs : DOMAIN entries[l] = {}
    BY DEF WInit
  <2> QED
    BY <2>1, <2>2, <2>3 DEF ContentsType
<1>8. Listed = {} /\ ReaderFiles = {}
  BY DEF Listed, ReaderFiles, FileSet
<1>9. ListsDistinct
  BY DEF ListsDistinct, Distinct
<1>10. JobHeld /\ FilesExist /\ SeqFresh /\ DownEmpty
  BY <1>8 DEF JobHeld, FilesExist, SeqFresh, DownEmpty
<1> QED
  BY <1>1, <1>2, <1>3, <1>5, <1>6, <1>7, <1>9, <1>10 DEF BInv

LEMMA BStepInv == BInv /\ [BNext]_vars => BInv'
  BY WInvStep, DownIdleStep, JobTypeStep, ListsTypeStep, ReadersTypeStep, ContentsTypeStep,
     ListsDistinctStep, JobHeldStep, FilesExistStep, SeqFreshStep, DownEmptyStep
  DEF BInv

\* The inductive invariant holds whatever is written, flushed, rotated, merged,
\* compacted, deleted or closed, and wherever the process stops.
LEMMA BInvariant == BSafeSpec => []BInv
  BY BInitInv, BStepInv, PTL DEF BSafeSpec

\* Everything the device keeps, on disk and in memory, is of its type: the
\* lists name known files, the index points to readers it has, a rotation and a
\* compaction hold the files they work on.
THEOREM BTypeCorrect == BSafeSpec => []BTypeOK
<1>1. BInv => BTypeOK
  <2> SUFFICES ASSUME BInv PROVE BTypeOK
    OBVIOUS
  <2>1. ASSUME NEW files \in Seq(DataFiles)
        PROVE  LogsOf(files) \subseteq Logs /\ TablesOf(files) \subseteq 1..MaxSeq
    <3>1. \A e \in FileSet(files) : /\ e.type = "log" => e.name \in Logs
                                    /\ e.type = "table" => e.name \in 1..MaxSeq
      BY FileSetType DEF DataFiles, AllLogs, AllTables, LogFile, TableFile
    <3> QED
      BY <3>1 DEF LogsOf, TablesOf
  <2>2. /\ LogsOf(diskMeta) \cup LogsOf(meta) \subseteq Logs
        /\ TablesOf(diskMeta) \cup TablesOf(meta) \subseteq 1..MaxSeq
    BY <2>1 DEF BInv, ListsType
  <2>3. FileSet(writers) \subseteq {LogFile(l) : l \in Logs}
    BY FileSetType DEF BInv, ReadersType, AllLogs
  <2>4. /\ \A b \in Blocks : index[b] \in rs \cup {NoFile}
        /\ compacting <=> pc \in {"build", "install", "removing", "commit", "delete"}
    BY DEF BInv, ReadersType, Compacting
  <2>5. /\ \A s \in DOMAIN tables : tables[s] \in [Blocks -> 0..MaxVersion]
        /\ \A b \in Blocks : flushed[b] \in 0..MaxVersion /\ cur[b] \in 0..MaxVersion
    BY DEF BInv, ContentsType, Versions
  <2>6. pc \in {"rotateSave", "rotateSwap", "rotateWait", "rotatePush"} => job.log \in Logs
    BY DEF BInv, JobType, WithLog, Rotating
  <2> QED
    BY <2>2, <2>3, <2>4, <2>5, <2>6 DEF BTypeOK, BInv, WInv, ListsType
<1> QED
  BY <1>1, BInvariant, PTL

\* Wherever the process stops, also in the middle of a rotation, a compaction, a
\* deletion or a shutdown, every file the stored metadata names exists, so that
\* OpenBlockFileWithOptions can load it.
THEOREM FilesCorrect == BSafeSpec => []MetaFilesExist
<1>1. BInv => MetaFilesExist
  BY DEF BInv, FilesExist, Listed, Exists, MetaFilesExist, LogsOf, TablesOf
<1> QED
  BY <1>1, BInvariant, PTL

\* What the tracker guarantees by itself it also guarantees inside the device,
\* where logs are recovered from earlier sessions and a process may end at any
\* step: no write meets a log closed under it, and no log is deleted that a
\* write, a flush or a closer still uses.
THEOREM TrackerInDevice == BSafeSpec => [](NoWriteRefused /\ NoUseAfterRemove)
<1>1. BInv => NoWriteRefused /\ NoUseAfterRemove
  BY AcceptedByInv, UnusedByInv DEF BInv
<1> QED
  BY <1>1, BInvariant, PTL

\* compactToFile writes over whatever has the name of the new table; that is
\* never a table that the stored metadata or the index uses, also after the
\* numbering has been started anew from the metadata of an earlier session.
THEOREM TablesKept == BSafeSpec => TablesImmutable
<1> DEFINE Kept == \A s \in DOMAIN tables \cap DOMAIN tables' : tables'[s] # tables[s]
                      => s \notin TablesOf(diskMeta) /\ TableFile(s) \notin rs
<1>1. BInv /\ [BNext]_vars => Kept
  <2> SUFFICES ASSUME BInv, [BNext]_vars, NEW s \in DOMAIN tables, s \in DOMAIN tables',
                      tables'[s] # tables[s]
               PROVE  s \notin TablesOf(diskMeta) /\ TableFile(s) \notin rs
    OBVIOUS
  <2>1. BuildTable
    BY Changes DEF DiskChanges, ADeleteTable, DeleteTable
  <2>2. s = nextSeq /\ pc = "build"
    BY <2>1 DEF BuildTable, Goto
  <2>3. nextSeq \in Nat
    BY SizesAssumption DEF BInv, ListsType
  <2>4. ASSUME NEW e \in Listed \cup ReaderFiles, e.type = "table" PROVE e.name # s
    <3>1. e.name < nextSeq
      BY <2>2, <2>4 DEF BInv, SeqFresh
    <3> QED
      BY <2>2, <2>3, <3>1
  <2> QED
    BY <2>4 DEF Listed, ReaderFiles, TablesOf, TableFile
<1>2. BInv /\ [BNext]_vars => [Kept]_vars
  BY <1>1
<1> QED
  BY <1>2, BInvariant, PTL DEF BSafeSpec, TablesImmutable
=============================================================================
