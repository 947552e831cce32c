------------------------ MODULE ReaderTracker_proofs ------------------------
(***************************************************************************)
(* Proofs about tracker/reader.go and the block index for any number of    *)
(* files, blocks and clients: no read ever uses a file that compaction has *)
(* closed, and the index never leads to a freed value.                     *)
(***************************************************************************)
EXTENDS ReaderTracker, SequenceTheorems, WellFoundedInduction, TLAPS

-----------------------------------------------------------------------------
(* What slices.DeleteFunc leaves of a list, for lists of any length: the    *)
(* elements that are not deleted, each as often and in the order they had.  *)
(* An induction over the length is written as a least counterexample.       *)

\* Every nonempty set of numbers has a least one.
LEMMA NatMin ==
    ASSUME NEW T \in SUBSET Nat, T # {}
    PROVE  \E n \in T : \A m \in T : n <= m
<1> DEFINE R == {ss \in Nat \X Nat : ss[1] < ss[2]}
<1>1. IsWellFoundedOn(R, Nat)
  BY NatLessThanWellFounded DEF OpToRel
<1>2. PICK n \in T : \A m \in T : ~ (<<m, n>> \in R)
  BY <1>1, WFMin
<1>3. \A m \in T : ~(m < n)
  BY <1>2
<1> QED
  BY <1>3

\* g is the loop of DeleteFunc over the first n elements of s.
Kept(s, set, g, n) ==
    g = [i \in 0..n |-> IF i = 0 THEN <<>>
                        ELSE IF s[i] \in set THEN g[i - 1]
                        ELSE Append(g[i - 1], s[i])]

\* The loop is well defined.
LEMMA KeptExists ==
    ASSUME NEW S, NEW s \in Seq(S), NEW set, NEW len \in Nat
    PROVE  \E g : Kept(s, set, g, len)
<1> DEFINE Bad == {n \in Nat : ~ \E g : Kept(s, set, g, n)}
<1> SUFFICES ASSUME Bad # {} PROVE FALSE
  OBVIOUS
<1>1. PICK n \in Bad : \A m \in Bad : n <= m
  BY NatMin
<1>2. n # 0
  <2>1. Kept(s, set, [i \in 0..0 |-> <<>>], 0)
    BY DEF Kept
  <2> QED
    BY <2>1
<1>3. n - 1 \in Nat /\ n - 1 \notin Bad
  BY <1>1, <1>2
<1>4. PICK g : Kept(s, set, g, n - 1)
  BY <1>3
<1> DEFINE h == [i \in 0..n |-> IF i = n THEN IF s[n] \in set THEN g[n - 1] ELSE Append(g[n - 1], s[n])
                                ELSE g[i]]
<1>5. Kept(s, set, h, n)
  <2>1. \A i \in 0..(n - 1) : h[i] = g[i]
    BY <1>3
  <2>2. h[n] = IF s[n] \in set THEN h[n - 1] ELSE Append(h[n - 1], s[n])
    BY <1>3, <2>1
  <2>3. \A i \in 0..(n-1) : g[i] = IF i = 0 THEN <<>>
                        ELSE IF s[i] \in set THEN g[i - 1]
                        ELSE Append(g[i - 1], s[i])
    BY <1>3, <1>4 DEF Kept
  <2>4. \A i \in 0..n : h[i] = IF i = 0 THEN <<>>
                        ELSE IF s[i] \in set THEN h[i - 1]
                        ELSE Append(h[i - 1], s[i])
    <3> SUFFICES ASSUME NEW i \in 0..n PROVE h[i] = IF i = 0 THEN <<>>
                        ELSE IF s[i] \in set THEN h[i - 1]
                        ELSE Append(h[i - 1], s[i])
      OBVIOUS
    <3>1. CASE i = n
      BY <2>2, <3>1, <1>2
    <3>2. CASE i # n
      <4>1. i \in 0..(n-1) /\ (i # 0 => i - 1 \in 0..(n-1))
        BY <3>2, <1>3
      <4> HIDE DEF h
      <4> QED
      BY <2>1, <2>3, <4>1
    <3> QED BY <3>1, <3>2
  <2> HIDE DEF h
  <2>5. DOMAIN h = 0..n /\ h = [i \in 0..n |-> h[i]]
    BY DEF h
  <2> QED
    BY <2>4, <2>5 DEF Kept
<1> QED
  BY <1>5

\* d consists of those of the first n elements of s that are not in set, in the
\* order they have in s.
Filtered(s, n, set, d) ==
    /\ \A a \in 1..Len(d) : d[a] \notin set /\ \E j \in 1..n : s[j] = d[a]
    /\ \A j \in 1..n : s[j] \notin set => \E a \in 1..Len(d) : d[a] = s[j]
    /\ \A a, b \in 1..Len(d) : a < b => \E j, k \in 1..n : j < k /\ s[j] = d[a] /\ s[k] = d[b]

\* One turn of the loop.
LEMMA FilteredStep ==
    ASSUME NEW S, NEW s \in Seq(S), NEW set, NEW n \in 1..Len(s),
           NEW e \in Seq(S), Filtered(s, n - 1, set, e),
           NEW d, d = IF s[n] \in set THEN e ELSE Append(e, s[n])
    PROVE  d \in Seq(S) /\ Filtered(s, n, set, d)
<1>1. /\ \A a \in 1..Len(e) : e[a] \notin set /\ \E j \in 1..(n - 1) : s[j] = e[a]
      /\ \A j \in 1..(n - 1) : s[j] \notin set => \E a \in 1..Len(e) : e[a] = s[j]
      /\ \A a, b \in 1..Len(e) : a < b =>
            \E j, k \in 1..(n - 1) : j < k /\ s[j] = e[a] /\ s[k] = e[b]
  BY DEF Filtered
<1>2. Len(e) \in Nat /\ n - 1 \in Nat /\ 1..n = 1..(n - 1) \cup {n} /\ s[n] \in S
  OBVIOUS
<1>3. CASE s[n] \in set
  <2>1. \A a \in 1..Len(e) : e[a] \notin set /\ \E j \in 1..n : s[j] = e[a]
    BY <1>1, <1>2, Zenon
  <2>2. \A j \in 1..n : s[j] \notin set => \E a \in 1..Len(e) : e[a] = s[j]
    BY <1>1, <1>2, <1>3, Zenon
  <2>3. \A a, b \in 1..Len(e) : a < b =>
            \E j, k \in 1..n : j < k /\ s[j] = e[a] /\ s[k] = e[b]
    <3> SUFFICES ASSUME NEW a \in 1..Len(e), NEW b \in 1..Len(e), a < b
                 PROVE  \E j, k \in 1..n : j < k /\ s[j] = e[a] /\ s[k] = e[b]
      OBVIOUS
    <3>1. PICK j \in 1..(n - 1), k \in 1..(n - 1) : j < k /\ s[j] = e[a] /\ s[k] = e[b]
      BY <1>1
    <3>2. j \in 1..n /\ k \in 1..n
      BY <1>2
    <3> QED
      BY <3>1, <3>2
  <2>4. d = e
    BY <1>3
  <2> QED
    BY <2>1, <2>2, <2>3, <2>4 DEF Filtered
<1>4. CASE s[n] \notin set
  <2>1. d = Append(e, s[n])
    BY <1>4
  <2>2. /\ d \in Seq(S)
        /\ Len(d) = Len(e) + 1
        /\ \A a \in 1..Len(e) : d[a] = e[a]
        /\ d[Len(e) + 1] = s[n]
        /\ 1..Len(d) = 1..Len(e) \cup {Len(e) + 1}
    BY <1>2, <2>1
  <2> HIDE <2>1
  <2>3. \A a \in 1..Len(d) : d[a] \notin set /\ \E j \in 1..n : s[j] = d[a]
    <3>1. ASSUME NEW a \in 1..Len(e) PROVE d[a] \notin set /\ \E j \in 1..n : s[j] = d[a]
      <4>1. d[a] = e[a]
        BY <2>2
      <4>2. PICK j \in 1..(n - 1) : s[j] = e[a]
        BY <1>1
      <4>3. j \in 1..n
        BY <1>2
      <4> QED
        BY <1>1, <4>1, <4>2, <4>3
    <3>2. d[Len(e) + 1] \notin set /\ \E j \in 1..n : s[j] = d[Len(e) + 1]
      BY <1>2, <1>4, <2>2, Zenon
    <3> QED
      BY <2>2, <3>1, <3>2, Zenon
  <2>4. \A j \in 1..n : s[j] \notin set => \E a \in 1..Len(d) : d[a] = s[j]
    BY <1>1, <1>2, <2>2
  <2>5. ASSUME NEW a \in 1..Len(d), NEW b \in 1..Len(d), a < b
        PROVE  \E j, k \in 1..n : j < k /\ s[j] = d[a] /\ s[k] = d[b]
    <3>1. a \in 1..Len(e)
      BY <1>2, <2>2, <2>5
    <3>2. CASE b \in 1..Len(e)
      BY <1>1, <1>2, <2>2, <2>5, <3>1, <3>2
    <3>3. CASE b = Len(e) + 1
      <4>1. PICK j \in 1..(n - 1) : s[j] = e[a]
        BY <1>1, <3>1
      <4>2. j < n /\ j \in 1..n /\ n \in 1..n /\ s[j] = d[a] /\ s[n] = d[b]
        BY <1>2, <2>2, <3>1, <3>3, <4>1
      <4> QED
        BY <4>2
    <3> QED
      BY <2>2, <3>2, <3>3
  <2> QED
    BY <2>2, <2>3, <2>4, <2>5 DEF Filtered
<1> QED
  BY <1>3, <1>4

\* The list that MergeDrop leaves is the filtered one.
LEMMA DeleteFuncFilters ==
    ASSUME NEW S, NEW s \in Seq(S), NEW set, NEW d, d = DeleteFunc(s, set)
    PROVE  d \in Seq(S) /\ Filtered(s, Len(s), set, d)
<1> DEFINE len == Len(s)
           keep == CHOOSE g : Kept(s, set, g, len)
<1>1. len \in Nat
  OBVIOUS
<1>2. d = keep[len]
  BY DEF DeleteFunc, Kept
<1>3. Kept(s, set, keep, len)
  BY <1>1, KeptExists
<1> HIDE DEF keep
<1>4. keep[0] = <<>>
  <2>1. 0 \in 0..len
    BY <1>1
  <2> QED
    BY <1>3, <2>1, Zenon DEF Kept
<1>5. ASSUME NEW i \in 1..len
      PROVE  keep[i] = IF s[i] \in set THEN keep[i - 1] ELSE Append(keep[i - 1], s[i])
  <2>1. i \in 0..len /\ i # 0
    BY <1>1
  <2> QED
    BY <1>3, <2>1, Zenon DEF Kept
<1> DEFINE Good(i) == keep[i] \in Seq(S) /\ Filtered(s, i, set, keep[i])
           Bad == {i \in 0..len : ~Good(i)}
<1>6. Good(0)
  BY <1>4 DEF Filtered
<1>7. ASSUME NEW i \in 1..len, Good(i - 1) PROVE Good(i)
  BY <1>5, <1>7, FilteredStep
<1> HIDE DEF Good
<1>8. Bad = {}
  <2> SUFFICES ASSUME Bad # {} PROVE FALSE
    OBVIOUS
  <2>1. Bad \in SUBSET Nat
    BY <1>1
  <2>2. PICK n \in Bad : \A m \in Bad : n <= m
    <3> HIDE DEF Bad
    <3> QED
      BY <2>1, NatMin
  <2>3. n \in 1..len /\ n - 1 \in 0..len /\ ~(n <= n - 1)
    BY <1>1, <1>6, <2>2
  <2>4. Good(n - 1)
    BY <2>2, <2>3
  <2> QED
    BY <1>7, <2>2, <2>3, <2>4
<1>9. Good(len)
  BY <1>1, <1>8
<1> QED
  BY <1>2, <1>9 DEF Good

\* The same in terms of sets, and nothing becomes a duplicate.
LEMMA DeleteFuncResult ==
    ASSUME NEW S, NEW s \in Seq(S), NEW set, NEW d, d = DeleteFunc(s, set)
    PROVE  /\ d \in Seq(S)
           /\ {d[a] : a \in DOMAIN d} = {s[j] : j \in DOMAIN s} \ set
           /\ (\A j, k \in DOMAIN s : s[j] = s[k] => j = k)
                 => \A a, b \in DOMAIN d : d[a] = d[b] => a = b
<1>1. d \in Seq(S) /\ Filtered(s, Len(s), set, d)
  BY DeleteFuncFilters
<1>2. DOMAIN s = 1..Len(s) /\ DOMAIN d = 1..Len(d) /\ Len(d) \in Nat
  BY <1>1
<1>3. /\ \A a \in DOMAIN d : d[a] \notin set /\ \E j \in DOMAIN s : s[j] = d[a]
      /\ \A j \in DOMAIN s : s[j] \notin set => \E a \in DOMAIN d : d[a] = s[j]
      /\ \A a, b \in DOMAIN d : a < b =>
            \E j, k \in DOMAIN s : j < k /\ s[j] = d[a] /\ s[k] = d[b]
  <2>1. /\ \A a \in 1..Len(d) : d[a] \notin set /\ \E j \in 1..Len(s) : s[j] = d[a]
        /\ \A j \in 1..Len(s) : s[j] \notin set => \E a \in 1..Len(d) : d[a] = s[j]
        /\ \A a, b \in 1..Len(d) : a < b =>
              \E j, k \in 1..Len(s) : j < k /\ s[j] = d[a] /\ s[k] = d[b]
    BY <1>1, Zenon DEF Filtered
  <2>2. ASSUME NEW a \in DOMAIN d
        PROVE  d[a] \notin set /\ \E j \in DOMAIN s : s[j] = d[a]
    <3>1. PICK j \in 1..Len(s) : s[j] = d[a]
      BY <1>2, <2>1
    <3> QED
      BY <1>2, <2>1, <3>1
  <2>3. ASSUME NEW j \in DOMAIN s, s[j] \notin set
        PROVE  \E a \in DOMAIN d : d[a] = s[j]
    <3>1. PICK a \in 1..Len(d) : d[a] = s[j]
      BY <1>2, <2>1, <2>3
    <3> QED
      BY <1>2, <3>1
  <2>4. ASSUME NEW a \in DOMAIN d, NEW b \in DOMAIN d, a < b
        PROVE  \E j, k \in DOMAIN s : j < k /\ s[j] = d[a] /\ s[k] = d[b]
    <3>1. a \in 1..Len(d) /\ b \in 1..Len(d)
      BY <1>2
    <3>2. PICK j \in 1..Len(s), k \in 1..Len(s) : j < k /\ s[j] = d[a] /\ s[k] = d[b]
      BY <2>1, <2>4, <3>1
    <3>3. j \in DOMAIN s /\ k \in DOMAIN s
      BY <1>2
    <3> QED
      BY <3>2, <3>3
  <2> QED
    BY <2>2, <2>3, <2>4
<1>4. {d[a] : a \in DOMAIN d} = {s[j] : j \in DOMAIN s} \ set
  <2>1. ASSUME NEW x \in {d[a] : a \in DOMAIN d} PROVE x \in {s[j] : j \in DOMAIN s} \ set
    BY <1>3
  <2>2. ASSUME NEW x \in {s[j] : j \in DOMAIN s} \ set PROVE x \in {d[a] : a \in DOMAIN d}
    BY <1>3
  <2> QED
    BY <2>1, <2>2
<1>5. ASSUME \A j, k \in DOMAIN s : s[j] = s[k] => j = k,
             NEW a \in DOMAIN d, NEW b \in DOMAIN d, a < b
      PROVE  d[a] # d[b]
  <2>1. PICK j \in DOMAIN s, k \in DOMAIN s : j < k /\ s[j] = d[a] /\ s[k] = d[b]
    BY <1>3, <1>5
  <2>2. j # k
    BY <1>2, <2>1
  <2> QED
    BY <1>5, <2>1, <2>2
<1>6. \A a, b \in DOMAIN d : a = b \/ a < b \/ b < a
  BY <1>2
<1> QED
  BY <1>1, <1>4, <1>5, <1>6

-----------------------------------------------------------------------------
(* The inductive invariant *)

InRotation == {"await", "pushReader", "removeWriter"}
InCompaction == {"build", "alloc", "add", "unused", "barrier"}
RunPcs == {"open", "swap", "removeWait", "start", "idle"} \cup InRotation \cup InCompaction
ReadPcs == {"idle", "hole", "data", "read", "find", "fetch", "done"}

\* The types of the records, which RTypeOK says little about, and the room that
\* a write in flight has for its version.
MergeType ==
    mg \in [pc : {"check", "alloc", "add", "wait"}, files : Seq(Files),
           todo : SUBSET Blocks, waitR : SUBSET Clients]
RunType ==
    run \in [pc : RunPcs, file : Files \cup {NoFile}, todo : SUBSET Blocks,
            unused : SUBSET Files, removed : SUBSET Files, waitR : SUBSET Clients]
ReadType ==
    /\ DOMAIN rd = Clients
    /\ \A c \in Clients :
          /\ DOMAIN rd[c] = {"pc", "stack", "pos", "b", "br", "val", "lo"}
          /\ rd[c].pc \in ReadPcs
          /\ rd[c].br \in Files \cup {NoFile}
          /\ rd[c].val \in Nat
          /\ rd[c].lo \in Nat
          /\ rd[c].pc # "idle" => rd[c].b \in Blocks
RoomLeft == \A b \in Blocks : wr[b] # NoFile => cur[b] < MaxVersion
RTypes == MergeType /\ RunType /\ ReadType /\ RoomLeft

PendingFiles == {pendingReaders[i] : i \in DOMAIN pendingReaders}
StackFiles(c) == {rd[c].stack[i] : i \in DOMAIN rd[c].stack}

PendingDistinct ==
    \A i, j \in DOMAIN pendingReaders : pendingReaders[i] = pendingReaders[j] => i = j

\* Which logs are being written, as the rotation goes on.
WritersShape ==
    /\ run.pc = "open" => active = NoFile /\ writers = <<>>
    /\ run.pc = "swap" => /\ run.file \in Logs \ {active}
                          /\ writers = IF active = NoFile THEN <<run.file>>
                                       ELSE <<run.file, active>>
    /\ run.pc \in InRotation => /\ active # NoFile
                                /\ run.file \in Logs \ {active}
                                /\ writers = <<active, run.file>>
    /\ run.pc \notin {"open", "swap"} \cup InRotation => active # NoFile /\ writers = <<active>>

\* A write in flight goes to the active log or to the one that PushNewLog has
\* replaced and waits for.
WritesHeld ==
    \A b \in Blocks : wr[b] # NoFile =>
        wr[b] = active \/ (run.pc = "await" /\ wr[b] = run.file)

\* The files in use are open; a log still being written is neither pending nor
\* indexed.
FilesApart ==
    /\ rs \cup PendingFiles \subseteq opened
    /\ active # NoFile => active \in opened \ (rs \cup PendingFiles)
    /\ run.pc \in {"swap", "await", "pushReader"} => run.file \in opened \ (rs \cup PendingFiles)
    /\ run.pc = "removeWriter" => run.file \in opened
    /\ PendingDistinct

\* The merge loop works through pending readers that are not indexed yet, and
\* not while there is a compaction.
MergeShape ==
    /\ mg.pc \in {"check", "wait"} => PendingFiles \cap rs = {}
    /\ mg.pc \in {"alloc", "add"} =>
          /\ pendingReaders # <<>>
          /\ \A i \in DOMAIN mg.files : mg.files[i] \in PendingFiles
          /\ \A i, j \in DOMAIN mg.files : mg.files[i] = mg.files[j] => i = j
          /\ \A i \in DOMAIN mg.files : mg.files[i] \in rs <=> (mg.pc = "add" /\ i = 1)
    /\ mg.pc = "add" => mg.files # <<>>

\* Index values and the files pushed to the index are one to one.
ValuesExact == \A iv \in 1..MaxIv : valueMap[iv] # NoFile => valueMap[iv] \in rs

\* The compaction goroutine takes out of the index, and then closes, only files
\* without live blocks.
CompactionShape ==
    /\ compaction <=> run.pc \in InCompaction
    /\ run.pc = "alloc" => run.file \in opened \ (rs \cup {active})
    /\ run.pc = "add" => run.file \in rs
    /\ run.pc = "barrier" => run.file \in run.unused
    /\ run.pc \notin {"unused", "barrier"} => run.unused = {} /\ run.removed = {}
    /\ \A f \in run.unused : f \in rs /\ Live(f) = {}
    /\ run.removed \cap (rs \cup {active}) = {}

\* What a read uses or can come to use is neither closed nor about to be, and
\* RemoveUnusedReader waits for those that use its file.
Using(c, f) == f \in StackFiles(c) \/ (rd[c].pc = "fetch" /\ rd[c].br = f)
ReadsHeld ==
    \A c \in ActiveReads : \A f \in Files :
        Using(c, f) => /\ f \in opened \ run.removed
                       /\ (run.pc = "barrier" /\ f = run.file) => c \in run.waitR

RInv ==
    /\ RTypeOK
    /\ RTypes
    /\ WritersShape
    /\ WritesHeld
    /\ FilesApart
    /\ MergeShape
    /\ ValuesExact
    /\ IndexSound
    /\ IndexFrozen
    /\ CompactionShape
    /\ ReadsHeld

\* The abbreviations of the frame conditions.
USE DEF filevars, indexvars, listvars, syncvars

-----------------------------------------------------------------------------
(* The lists as sets *)

\* Reader.PushReader: the new reader joins the pending ones.
LEMMA Pushed ==
    ASSUME pendingReaders \in Seq(Files), NEW f \in Files, PushReaderList(f)
    PROVE  /\ pendingReaders' \in Seq(Files)
           /\ pendingReaders' # <<>>
           /\ PendingFiles' = PendingFiles \cup {f}
           /\ PendingDistinct /\ f \notin PendingFiles => PendingDistinct'
<1> DEFINE len == Len(pendingReaders)
<1>1. pendingReaders' = <<f>> \o pendingReaders
  BY DEF PushReaderList
<1>2. len \in Nat /\ DOMAIN pendingReaders = 1..len
  OBVIOUS
<1>3. /\ pendingReaders' \in Seq(Files)
      /\ DOMAIN pendingReaders' = 1..(len + 1)
      /\ pendingReaders'[1] = f
      /\ \A i \in 2..(len + 1) : pendingReaders'[i] = pendingReaders[i - 1]
  BY <1>1
<1> HIDE <1>1 DEF len
<1>4. \A i \in 1..(len + 1) : i = 1 \/ (i \in 2..(len + 1) /\ i - 1 \in 1..len)
  BY <1>2
<1>5. \A i \in 1..len : i + 1 \in 2..(len + 1) /\ (i + 1) - 1 = i /\ i + 1 \in 1..(len + 1)
  BY <1>2
<1>6. PendingFiles' = PendingFiles \cup {f}
  <2>1. ASSUME NEW x \in PendingFiles' PROVE x \in PendingFiles \cup {f}
    <3>1. PICK i \in 1..(len + 1) : x = pendingReaders'[i]
      BY <1>3 DEF PendingFiles
    <3>2. CASE i = 1
      BY <1>3, <3>1, <3>2
    <3>3. CASE i \in 2..(len + 1) /\ i - 1 \in 1..len
      <4>1. x = pendingReaders[i - 1]
        BY <1>3, <3>1, <3>3
      <4> QED
        BY <1>2, <3>3, <4>1 DEF PendingFiles
    <3> QED
      BY <1>4, <3>2, <3>3
  <2>2. ASSUME NEW x \in PendingFiles PROVE x \in PendingFiles'
    <3>1. PICK i \in 1..len : x = pendingReaders[i]
      BY <1>2 DEF PendingFiles
    <3>2. x = pendingReaders'[i + 1] /\ i + 1 \in 1..(len + 1)
      BY <1>3, <1>5, <3>1
    <3> QED
      BY <1>3, <3>2 DEF PendingFiles
  <2>3. f \in PendingFiles'
    BY <1>2, <1>3 DEF PendingFiles
  <2> QED
    BY <2>1, <2>2, <2>3
<1>7. ASSUME PendingDistinct, f \notin PendingFiles PROVE PendingDistinct'
  <2>1. \A i \in 1..len : pendingReaders[i] # f
    BY <1>2, <1>7 DEF PendingFiles
  <2>2. ASSUME NEW i \in 1..(len + 1), NEW j \in 1..(len + 1),
               pendingReaders'[i] = pendingReaders'[j]
        PROVE  i = j
    <3>1. CASE i = 1 \/ j = 1
      BY <1>3, <1>4, <2>1, <2>2, <3>1
    <3>2. CASE i # 1 /\ j # 1
      <4>1. i - 1 \in 1..len /\ j - 1 \in 1..len
        BY <1>4, <3>2
      <4>2. pendingReaders[i - 1] = pendingReaders[j - 1]
        BY <1>3, <1>4, <2>2, <3>2
      <4>3. i - 1 = j - 1
        BY <1>2, <1>7, <4>1, <4>2 DEF PendingDistinct
      <4> QED
        BY <1>2, <4>3
    <3> QED
      BY <3>1, <3>2
  <2> QED
    BY <1>3, <2>2 DEF PendingDistinct
<1>8. pendingReaders' # <<>>
  BY <1>2, <1>3
<1> QED
  BY <1>3, <1>6, <1>7, <1>8

\* The merge loop drops the pending readers that are in the index.
LEMMA Dropped ==
    ASSUME pendingReaders \in Seq(Files), PendingDistinct, MergeDrop
    PROVE  /\ pendingReaders' \in Seq(Files)
           /\ PendingFiles' = PendingFiles \ rs
           /\ PendingDistinct'
<1> DEFINE d == DeleteFunc(pendingReaders, rs)
<1>1. /\ d \in Seq(Files)
      /\ {d[a] : a \in DOMAIN d} = {pendingReaders[j] : j \in DOMAIN pendingReaders} \ rs
      /\ (\A j, k \in DOMAIN pendingReaders : pendingReaders[j] = pendingReaders[k] => j = k)
             => \A a, b \in DOMAIN d : d[a] = d[b] => a = b
  <2> HIDE DEF d
  <2> QED
    BY DeleteFuncResult, Zenon DEF d
<1>2. pendingReaders' = d
  BY DEF MergeDrop
<1> HIDE DEF d
<1> QED
  BY <1>1, <1>2 DEF PendingFiles, PendingDistinct

\* The merge loop copies the pending readers, oldest first.
LEMMA Copied ==
    ASSUME pendingReaders \in Seq(Files), PendingDistinct, pendingReaders # <<>>,
           NEW s, s = Reverse(pendingReaders)
    PROVE  /\ s \in Seq(Files)
           /\ \A i \in DOMAIN s : s[i] \in PendingFiles
           /\ \A i, j \in DOMAIN s : s[i] = s[j] => i = j
<1> DEFINE len == Len(pendingReaders)
<1>1. len \in Nat /\ DOMAIN pendingReaders = 1..len
  OBVIOUS
<1>2. s = [i \in 1..len |-> pendingReaders[(len - i) + 1]]
  BY DEF Reverse
<1>3. \A i \in 1..len : (len - i) + 1 \in 1..len
  BY <1>1
<1>4. s \in Seq(Files)
  BY <1>1, <1>2, <1>3
<1> HIDE DEF len
<1>5. \A i \in DOMAIN s : s[i] \in PendingFiles
  BY <1>1, <1>2, <1>3 DEF PendingFiles
<1>6. ASSUME NEW i \in DOMAIN s, NEW j \in DOMAIN s, s[i] = s[j] PROVE i = j
  <2>1. (len - i) + 1 = (len - j) + 1
    BY <1>1, <1>2, <1>3, <1>6 DEF PendingDistinct
  <2> QED
    BY <1>1, <1>2, <2>1
<1> QED
  BY <1>4, <1>5, <1>6

\* Most steps leave the list alone.
LEMMA PendingSame ==
    UNCHANGED pendingReaders => PendingFiles' = PendingFiles /\ (PendingDistinct' <=> PendingDistinct)
  BY DEF PendingFiles, PendingDistinct

\* PushWriter: the new log is put before the old one.
LEMMA JoinedTwo ==
    ASSUME NEW S, NEW a \in S, NEW o \in S
    PROVE  <<a>> \o <<o>> = <<a, o>>
<1> DEFINE u == <<a>>
           v == <<o>>
           t == u \o v
<1>1. /\ u \in Seq(S) /\ Len(u) = 1 /\ u[1] = a
      /\ v \in Seq(S) /\ Len(v) = 1 /\ v[1] = o
  OBVIOUS
<1> HIDE DEF u, v
<1>2. /\ t \in Seq(S)
      /\ Len(t) = Len(u) + Len(v)
      /\ \A i \in 1..Len(u) + Len(v) : t[i] = IF i <= Len(u) THEN u[i] ELSE v[i - Len(u)]
  BY <1>1, ConcatProperties
<1> HIDE DEF t
<1>3. Len(t) = 2 /\ t[1] = a
  BY <1>1, <1>2
<1>4. t[2] = o
  BY <1>1, <1>2
<1>5. t = <<a, o>>
  <2> DEFINE w == <<a, o>>
  <2>1. w \in Seq(S) /\ Len(w) = 2 /\ w[1] = a /\ w[2] = o
    OBVIOUS
  <2> HIDE DEF w
  <2>2. \A i \in 1..2 : i = 1 \/ i = 2
    OBVIOUS
  <2>3. t = w
    BY <1>2, <1>3, <1>4, <2>1, <2>2, SeqEqual
  <2> QED
    BY <2>3 DEF w
<1> QED
  BY <1>5 DEF t, u, v

\* RemoveWriter: of the two logs the older one goes.
LEMMA RemovedSecond ==
    ASSUME NEW a, NEW o, a # o
    PROVE  RemoveFirst(<<a, o>>, o) = <<a>>
<1> DEFINE I == {i \in 1..Len(<<a, o>>) : <<a, o>>[i] = o}
<1>1. I = {2}
  OBVIOUS
<1>2. Min(I) = 2
  BY <1>1 DEF Min
<1>3. SelectInSeq(<<a, o>>, LAMBDA v : v = o) = 2
  BY <1>1, <1>2 DEF SelectInSeq
<1>4. RemoveAt(<<a, o>>, 2) = <<a>>
  <2>1. SubSeq(<<a, o>>, 1, 2 - 1) = <<a>>
    <3> DEFINE s == <<a, o>>
               t == SubSeq(s, 1, 1)
    <3>1. s \in Seq({a, o}) /\ Len(s) = 2 /\ s[1] = a
      OBVIOUS
    <3> HIDE DEF s
    <3>2. t \in Seq({a, o}) /\ Len(t) = 1 /\ t[1] = a
      BY <3>1
    <3> HIDE DEF t
    <3>3. t = <<a>>
      BY <3>2
    <3> QED
      BY <3>3 DEF t, s
  <2>2. SubSeq(<<a, o>>, 2 + 1, Len(<<a, o>>)) = <<>>
    OBVIOUS
  <2>3. <<a>> \o <<>> = <<a>>
    OBVIOUS
  <2> QED
    BY <2>1, <2>2, <2>3, Zenon DEF RemoveAt
<1>5. \E i \in 1..Len(<<a, o>>) : <<a, o>>[i] = o
  BY <1>1
<1> QED
  BY <1>3, <1>4, <1>5 DEF RemoveFirst

-----------------------------------------------------------------------------
(* Index values *)

\* A file pushed to the index gets a value that was free.
LEMMA Allocated ==
    ASSUME NEW f, FetchOrAddValueIndex(f)
    PROVE  \E iv \in 1..MaxIv : /\ valueMap[iv] = NoFile
                                /\ valueMap' = [valueMap EXCEPT ![iv] = f]
                                /\ rs' = rs \cup {f}
                                /\ rangeMap' = rangeMap
<1> USE BoundsAssumption
<1> DEFINE iv == CHOOSE iv \in FreeIvs : \A k \in FreeIvs : iv <= k
<1>1. FreeIvs \in SUBSET Nat /\ FreeIvs # {}
  BY DEF FetchOrAddValueIndex, FreeIvs
<1>2. \E n \in FreeIvs : \A k \in FreeIvs : n <= k
  BY <1>1, NatMin
<1>3. iv \in FreeIvs
  BY <1>2
<1>4. /\ valueMap' = [valueMap EXCEPT ![iv] = f]
      /\ rs' = rs \cup {f}
      /\ rangeMap' = rangeMap
  BY DEF FetchOrAddValueIndex
<1> HIDE DEF iv
<1> QED
  BY <1>3, <1>4 DEF FreeIvs

\* The value of a file in the index is its only one.
LEMMA IvOfOnly ==
    ASSUME IndexSound, NEW f \in rs
    PROVE  /\ IvOf(f) \in 1..MaxIv
           /\ valueMap[IvOf(f)] = f
           /\ \A k \in 1..MaxIv : valueMap[k] = f => k = IvOf(f)
<1>1. PICK iv \in 1..MaxIv : \A k \in 1..MaxIv : valueMap[k] = f <=> k = iv
  BY DEF IndexSound
<1>2. IvOf(f) \in 1..MaxIv /\ valueMap[IvOf(f)] = f
  BY <1>1 DEF IvOf
<1> QED
  BY <1>1, <1>2

-----------------------------------------------------------------------------
(* Reads *)

\* The stack that a read captures holds the logs being written and the pending
\* readers.
LEMMA Captured ==
    ASSUME RTypeOK, WritersShape, NEW i \in DOMAIN readerStack
    PROVE  \/ active # NoFile /\ readerStack[i] = active
           \/ run.pc \in {"swap"} \cup InRotation /\ readerStack[i] = run.file
           \/ readerStack[i] \in PendingFiles
<1>1. /\ writers \in Seq(Files) /\ pendingReaders \in Seq(Files)
      /\ readerStack = writers \o pendingReaders
  BY DEF RTypeOK, ListsOK, Files
<1>2. /\ readerStack \in Seq(Files)
      /\ Len(readerStack) = Len(writers) + Len(pendingReaders)
      /\ \A k \in 1..Len(writers) + Len(pendingReaders) :
             readerStack[k] = IF k <= Len(writers) THEN writers[k]
                              ELSE pendingReaders[k - Len(writers)]
  BY <1>1, ConcatProperties
<1> DEFINE m == Len(writers)
           n == Len(pendingReaders)
<1>3. /\ m \in Nat /\ n \in Nat /\ i \in 1..(m + n)
      /\ DOMAIN pendingReaders = 1..n
  BY <1>1, <1>2
<1>4. CASE i <= m
  <2>1. i \in 1..m /\ readerStack[i] = writers[i]
    BY <1>2, <1>3, <1>4
  <2>2. CASE run.pc = "open"
    BY <2>1, <2>2 DEF WritersShape
  <2>3. CASE run.pc = "swap" /\ active = NoFile
    BY <2>1, <2>3 DEF WritersShape
  <2>4. CASE run.pc = "swap" /\ active # NoFile
    <3>1. writers = <<run.file, active>>
      BY <2>4 DEF WritersShape
    <3> QED
      BY <2>1, <2>4, <3>1
  <2>5. CASE run.pc \in InRotation
    <3>1. writers = <<active, run.file>> /\ active # NoFile
      BY <2>5 DEF WritersShape
    <3> QED
      BY <2>1, <2>5, <3>1
  <2>6. CASE run.pc \notin {"open", "swap"} \cup InRotation
    BY <2>1, <2>6 DEF WritersShape
  <2> QED
    BY <2>2, <2>3, <2>4, <2>5, <2>6
<1>5. CASE ~(i <= m)
  <2>1. i - m \in 1..n /\ readerStack[i] = pendingReaders[i - m]
    BY <1>2, <1>3, <1>5
  <2> QED
    BY <1>3, <2>1 DEF PendingFiles
<1> QED
  BY <1>4, <1>5


\* What the steps of a read between its start and its return have in common.
ReadMove(c) ==
    /\ UNCHANGED <<filevars, listvars, indexvars, syncvars, mg, run>>
    /\ DOMAIN rd' = Clients
    /\ \A d \in Clients : d # c => rd'[d] = rd[d]
    /\ DOMAIN rd'[c] = DOMAIN rd[c]
    /\ rd[c].pc # "idle" /\ rd'[c].pc \in ReadPcs \ {"idle"}
    /\ rd'[c].stack = rd[c].stack /\ rd'[c].b = rd[c].b /\ rd'[c].lo = rd[c].lo
    /\ rd'[c].pos >= rd[c].pos
    /\ rd'[c].pos \in 1..(Len(rd[c].stack) + 1)
    /\ rd'[c].pc = "read" => rd'[c].pos <= Len(rd[c].stack)
    /\ rd'[c].br \in Files \cup {NoFile} /\ rd'[c].val \in Nat
    /\ rd'[c].pc = "fetch" => /\ rangeMap[rd[c].b] # 0
                              /\ rd'[c].br = valueMap[rangeMap[rd[c].b]]

\* A record with one, two or three fields changed.
LEMMA ReadMoves ==
    ASSUME RTypeOK, RTypes, NEW c \in Clients,
           ReadHole(c) \/ ReadData(c) \/ ReadLayer(c) \/ ReadFind(c) \/ ReadFetch(c)
    PROVE  ReadMove(c)
<1> DEFINE r == rd[c]
           fields == {"pc", "stack", "pos", "b", "br", "val", "lo"}
<1>1. /\ r.stack \in Seq(Files) /\ r.pos \in 1..(Len(r.stack) + 1)
      /\ r.pc = "read" => r.pos <= Len(r.stack)
      /\ r.pc = "fetch" => r.br \in Files
      /\ r.pc # "idle" => r.b \in Blocks
      /\ r.br \in Files \cup {NoFile} /\ r.val \in Nat
      /\ Len(r.stack) \in Nat
  <2>1. StacksOK
    BY DEF RTypeOK
  <2>2. /\ r.stack \in Seq(Files)
        /\ r.pos \in 1..(Len(r.stack) + 1)
        /\ r.pc = "read" => r.pos <= Len(r.stack)
        /\ r.pc = "fetch" => r.br \in Files
    BY <2>1, Zenon DEF StacksOK
  <2>3. Len(r.stack) \in Nat
    BY <2>2
  <2> QED
    BY <2>2, <2>3 DEF RTypes, ReadType
<1>2. DOMAIN rd = Clients /\ DOMAIN r = fields
  BY DEF RTypes, ReadType
<1>3. /\ content \in [Files -> [Blocks -> 0..MaxVersion]]
      /\ rangeMap \in [Blocks -> 0..MaxIv]
      /\ valueMap \in [1..MaxIv -> Files \cup {NoFile}]
  BY DEF RTypeOK, FilesOK, IndexOK
<1> USE BoundsAssumption
<1>4. ASSUME ReadHole(c) PROVE ReadMove(c)
  <2>1. /\ r.pc = "hole"
        /\ rd' = [rd EXCEPT ![c].pc = IF ~HasData(r) THEN "data"
                                      ELSE IF AtIndex(r) THEN "find" ELSE "read"]
        /\ UNCHANGED <<filevars, listvars, indexvars, syncvars, mg, run>>
    BY <1>4 DEF ReadHole
  <2> QED
    BY <1>1, <1>2, <2>1 DEF ReadMove, ReadPcs, AtIndex
<1>5. ASSUME ReadData(c) PROVE ReadMove(c)
  <2>1. /\ r.pc = "data"
        /\ UNCHANGED <<filevars, listvars, indexvars, syncvars, mg, run>>
    BY <1>5 DEF ReadData
  <2>2. rd' = [rd EXCEPT ![c] = IF HasData(r) THEN [r EXCEPT !.pc = "hole"]
                               ELSE IF AtIndex(r) THEN [r EXCEPT !.pc = "done"]
                               ELSE [r EXCEPT !.pc = "hole", !.pos = @ + 1]]
    BY <1>5 DEF ReadData
  <2>3. CASE HasData(r)
    BY <1>1, <1>2, <2>1, <2>2, <2>3 DEF ReadMove, ReadPcs
  <2>4. CASE ~HasData(r) /\ AtIndex(r)
    BY <1>1, <1>2, <2>1, <2>2, <2>4 DEF ReadMove, ReadPcs
  <2>5. CASE ~HasData(r) /\ ~AtIndex(r)
    <3>1. r.pos + 1 \in 1..(Len(r.stack) + 1) /\ r.pos + 1 >= r.pos
      BY <1>1, <2>5 DEF AtIndex
    <3> QED
      BY <1>1, <1>2, <2>1, <2>2, <2>5, <3>1 DEF ReadMove, ReadPcs
  <2> QED
    BY <2>3, <2>4, <2>5
<1>6. ASSUME ReadLayer(c) PROVE ReadMove(c)
  <2>1. /\ r.pc = "read"
        /\ rd' = [rd EXCEPT ![c].pc = "done", ![c].val = content[r.stack[r.pos]][r.b]]
        /\ UNCHANGED <<filevars, listvars, indexvars, syncvars, mg, run>>
    BY <1>6 DEF ReadLayer
  <2>2. content[r.stack[r.pos]][r.b] \in Nat
    BY <1>1, <1>3, <2>1
  <2> QED
    BY <1>1, <1>2, <2>1, <2>2 DEF ReadMove, ReadPcs
<1>7. ASSUME ReadFind(c) PROVE ReadMove(c)
  <2> DEFINE iv == rangeMap[r.b]
  <2>1. /\ r.pc = "find"
        /\ rd' = [rd EXCEPT ![c] = IF iv = 0 THEN [r EXCEPT !.pc = "done"]
                                   ELSE [r EXCEPT !.pc = "fetch", !.br = valueMap[iv]]]
        /\ UNCHANGED <<filevars, listvars, indexvars, syncvars, mg, run>>
    BY <1>7 DEF ReadFind
  <2>2. iv # 0 => valueMap[iv] \in Files \cup {NoFile}
    BY <1>1, <1>3, <2>1
  <2> QED
    BY <1>1, <1>2, <2>1, <2>2 DEF ReadMove, ReadPcs
<1>8. ASSUME ReadFetch(c) PROVE ReadMove(c)
  <2>1. /\ r.pc = "fetch"
        /\ rd' = [rd EXCEPT ![c].pc = "done", ![c].val = content[r.br][r.b]]
        /\ UNCHANGED <<filevars, listvars, indexvars, syncvars, mg, run>>
    BY <1>8 DEF ReadFetch
  <2>2. content[r.br][r.b] \in Nat
    BY <1>1, <1>3, <2>1
  <2> QED
    BY <1>1, <1>2, <2>1, <2>2 DEF ReadMove, ReadPcs
<1> QED
  BY <1>4, <1>5, <1>6, <1>7, <1>8

-----------------------------------------------------------------------------
(* Every step preserves each part of the invariant *)

\* Types.
LEMMA TypesStep ==
    ASSUME RInv, [RNext]_rvars
    PROVE  RTypes' /\ RTypeOK'
<1> USE FilesAssumption, BoundsAssumption
<1> DEFINE TypesOK == /\ FilesOK /\ ListsOK /\ IndexOK /\ SyncOK /\ StacksOK
                      /\ MergeType /\ RunType /\ ReadType /\ RoomLeft
<1>1. TypesOK /\ ActiveReads \subseteq Clients
  BY DEF RInv, RTypes, RTypeOK, ActiveReads
<1>2. /\ UNCHANGED filevars => FilesOK'
      /\ UNCHANGED listvars => ListsOK'
      /\ UNCHANGED indexvars => IndexOK'
      /\ UNCHANGED rd => StacksOK'
      /\ UNCHANGED mg => MergeType'
      /\ UNCHANGED run => RunType'
      /\ UNCHANGED syncvars => SyncOK'
      /\ UNCHANGED rd => ReadType'
      /\ UNCHANGED <<wr, cur>> => RoomLeft'
  BY <1>1 DEF FilesOK, ListsOK, IndexOK, SyncOK, StacksOK, MergeType, RunType, ReadType,
             RoomLeft
<1>3. ASSUME NEW b \in Blocks, WriteStart(b) PROVE TypesOK'
  <2>1. FilesOK'
    BY <1>1, <1>3 DEF WriteStart, FilesOK
  <2>2. RoomLeft'
    BY <1>1, <1>3 DEF WriteStart, RoomLeft
  <2> QED
    BY <1>2, <1>3, <2>1, <2>2 DEF WriteStart
<1>4. ASSUME NEW b \in Blocks, WriteDo(b) PROVE TypesOK'
  <2>1. FilesOK'
    <3>1. wr[b] \in Files /\ cur[b] + 1 \in 0..MaxVersion
      BY <1>1, <1>4 DEF WriteDo, FilesOK, RoomLeft, Files
    <3>2. [content[wr[b]] EXCEPT ![b] = cur[b] + 1] \in [Blocks -> 0..MaxVersion]
      BY <1>1, <3>1 DEF FilesOK
    <3>3. content' \in [Files -> [Blocks -> 0..MaxVersion]]
      BY <1>1, <1>4, <3>1, <3>2 DEF WriteDo, FilesOK
    <3> QED
      BY <1>1, <1>4, <3>1, <3>3 DEF WriteDo, FilesOK
  <2>2. RoomLeft'
    BY <1>1, <1>4 DEF WriteDo, RoomLeft, FilesOK
  <2> QED
    BY <1>2, <1>4, <2>1, <2>2 DEF WriteDo
<1>5. ASSUME NEW c \in Clients, NEW b \in Blocks, ReadStart(c, b) PROVE TypesOK'
  <2>1. StacksOK'
    <3>1. DOMAIN rd = Clients /\ readerStack \in Seq(Files)
      BY <1>1 DEF ReadType, ListsOK, Files
    <3>2. rd' = [rd EXCEPT ![c] = [IdleRead EXCEPT !.pc = "hole", !.stack = readerStack,
                                                   !.b = b, !.lo = cur[b]]]
      BY <1>5 DEF ReadStart
    <3>3. /\ rd'[c].stack = readerStack /\ rd'[c].pos = 1 /\ rd'[c].pc = "hole"
          /\ \A d \in Clients : d # c => rd'[d] = rd[d]
      BY <3>1, <3>2 DEF IdleRead
    <3>4. 1 \in 1..(Len(readerStack) + 1)
      BY <3>1
    <3> QED
      BY <1>1, <3>1, <3>3, <3>4 DEF StacksOK
  <2>2. ReadType'
    <3>1. rd' = [rd EXCEPT ![c] = [IdleRead EXCEPT !.pc = "hole", !.stack = readerStack,
                                                   !.b = b, !.lo = cur[b]]]
      BY <1>5 DEF ReadStart
    <3>2. cur[b] \in Nat
      BY <1>1 DEF FilesOK
    <3> QED
      BY <1>1, <3>1, <3>2 DEF ReadType, ReadPcs, IdleRead
  <2> QED
    BY <1>2, <1>5, <2>1, <2>2 DEF ReadStart
<1>6. ASSUME NEW c \in Clients, ReadMove(c) PROVE TypesOK'
  <2>1. StacksOK'
    <3>1. /\ rd'[c].stack = rd[c].stack
          /\ rd'[c].pos \in 1..(Len(rd[c].stack) + 1)
          /\ rd'[c].pc = "read" => rd'[c].pos <= Len(rd[c].stack)
          /\ \A d \in Clients : d # c => rd'[d] = rd[d]
      BY <1>6 DEF ReadMove
    <3>2. ASSUME rd'[c].pc = "fetch" PROVE rd'[c].br \in Files
      <4>1. /\ rd[c].b \in Blocks /\ rangeMap[rd[c].b] # 0
            /\ rd'[c].br = valueMap[rangeMap[rd[c].b]]
        BY <1>1, <1>6, <3>2 DEF ReadMove, ReadType
      <4>2. rs \subseteq Files /\ valueMap[rangeMap[rd[c].b]] \in rs
        BY <1>1, <4>1 DEF RInv, IndexSound, IndexOK
      <4> QED
        BY <4>1, <4>2
    <3> QED
      BY <1>1, <3>1, <3>2 DEF StacksOK
  <2>2. ReadType'
    BY <1>1, <1>6 DEF ReadMove, ReadType, ReadPcs
  <2> QED
    BY <1>2, <1>6, <2>1, <2>2 DEF ReadMove
<1>7. ASSUME NEW c \in Clients, ReadReturn(c) PROVE TypesOK'
  <2>1. StacksOK'
    <3>1. DOMAIN rd = Clients /\ rd' = [rd EXCEPT ![c] = IdleRead]
      BY <1>1, <1>7 DEF ReadReturn, ReadType
    <3>2. /\ rd'[c].stack = <<>> /\ rd'[c].pos = 1 /\ rd'[c].pc = "idle"
          /\ \A d \in Clients : d # c => rd'[d] = rd[d]
      BY <3>1 DEF IdleRead
    <3>3. <<>> \in Seq(Files) /\ 1 \in 1..(Len(<<>>) + 1)
      OBVIOUS
    <3> QED
      BY <1>1, <3>2, <3>3 DEF StacksOK
  <2>2. MergeType'
    BY <1>1, <1>7 DEF ReadReturn, MergeType
  <2>3. RunType'
    BY <1>1, <1>7 DEF ReadReturn, RunType, RunPcs, InRotation, InCompaction
  <2>4. ReadType'
    BY <1>1, <1>7 DEF ReadReturn, ReadType, ReadPcs, IdleRead
  <2> QED
    BY <1>2, <1>7, <2>1, <2>2, <2>3, <2>4 DEF ReadReturn
<1>8. ASSUME MergeCheck PROVE TypesOK'
  <2>1. MergeType'
    <3>1. Reverse(pendingReaders) \in Seq(Files)
      BY <1>1 DEF ListsOK, Reverse
    <3> QED
      BY <1>1, <1>8, <3>1 DEF MergeCheck, MergeType
  <2>2. SyncOK'
    BY <1>1, <1>8 DEF MergeCheck, SyncOK
  <2> QED
    BY <1>2, <1>8, <2>1, <2>2 DEF MergeCheck
<1>9. ASSUME MergeAlloc PROVE TypesOK'
  <2>1. IndexOK'
    <3>1. PICK iv \in 1..MaxIv : /\ valueMap' = [valueMap EXCEPT ![iv] = Head(mg.files)]
                                 /\ rs' = rs \cup {Head(mg.files)}
                                 /\ rangeMap' = rangeMap
      BY <1>9, Allocated DEF MergeAlloc
    <3>2. Head(mg.files) \in Files
      BY <1>1, <1>9 DEF MergeAlloc, MergeType
    <3> QED
      BY <1>1, <3>1, <3>2 DEF IndexOK
  <2>2. MergeType'
    <3>1. DataOf(Head(mg.files)) \subseteq Blocks
      BY DEF DataOf
    <3> QED
      BY <1>1, <1>9, <3>1 DEF MergeAlloc, MergeType
  <2> QED
    BY <1>2, <1>9, <2>1, <2>2 DEF MergeAlloc, FetchOrAddValueIndex
<1>10. ASSUME NEW b \in Blocks, MergeAdd(b) PROVE TypesOK'
  <2>1. IndexOK'
    <3>1. mg.files \in Seq(Files) /\ mg.files # <<>> /\ mg.pc = "add"
      BY <1>1, <1>10 DEF MergeAdd, RInv, MergeType, MergeShape
    <3>2. 1 \in DOMAIN mg.files /\ Head(mg.files) = mg.files[1]
      BY <3>1
    <3>3. Head(mg.files) \in rs
      BY <3>1, <3>2 DEF RInv, MergeShape
    <3>4. IvOf(Head(mg.files)) \in 1..MaxIv
      BY <3>3, IvOfOnly DEF RInv
    <3> QED
      BY <1>1, <1>10, <3>4 DEF MergeAdd, AddBlock, IndexOK
  <2>2. MergeType'
    BY <1>1, <1>10 DEF MergeAdd, AddBlock, MergeType
  <2> QED
    BY <1>2, <1>10, <2>1, <2>2 DEF MergeAdd, AddBlock
<1>11. ASSUME MergeNext PROVE TypesOK'
  <2>1. MergeType'
    <3>1. Tail(mg.files) \in Seq(Files)
      BY <1>1, <1>11 DEF MergeNext, RInv, MergeType, MergeShape
    <3> QED
      BY <1>1, <1>11, <3>1 DEF MergeNext, MergeType
  <2> QED
    BY <1>2, <1>11, <2>1 DEF MergeNext
<1>12. ASSUME MergeDrop PROVE TypesOK'
  <2>1. ListsOK'
    <3>1. pendingReaders' \in Seq(Files)
      BY <1>1, <1>12, Dropped DEF ListsOK, RInv, FilesApart
    <3> QED
      BY <1>1, <1>12, <3>1 DEF MergeDrop, BuildReaderStack, ListsOK
  <2>2. MergeType'
    BY <1>1, <1>12 DEF MergeDrop, MergeType
  <2>3. SyncOK'
    BY <1>1, <1>12 DEF MergeDrop, SyncOK
  <2> QED
    BY <1>2, <1>12, <2>1, <2>2, <2>3 DEF MergeDrop
<1>13. ASSUME MergeWaited PROVE TypesOK'
  <2>1. MergeType'
    BY <1>1, <1>13 DEF MergeWaited, IdleMerge, MergeType
  <2> QED
    BY <1>2, <1>13, <2>1 DEF MergeWaited, IdleMerge
<1>14. ASSUME NEW f \in Files, NEW bs \in SUBSET Blocks, OpenPushReader(f, bs) PROVE TypesOK'
  <2>1. FilesOK'
    BY <1>1, <1>14 DEF OpenPushReader, PushReaderList, FilesOK
  <2>2. ListsOK'
    <3>1. pendingReaders' \in Seq(Files)
      BY <1>1, <1>14, Pushed DEF OpenPushReader, ListsOK
    <3> QED
      BY <1>1, <1>14, <3>1 DEF OpenPushReader, PushReaderList, BuildReaderStack, ListsOK
  <2>3. SyncOK'
    BY <1>1, <1>14 DEF OpenPushReader, PushReaderList, SyncOK
  <2>4. RoomLeft'
    <3>1. active = NoFile /\ run.pc = "open"
      BY <1>14 DEF OpenPushReader, RInv, WritersShape
    <3>2. \A b \in Blocks : wr[b] = NoFile
      BY <3>1 DEF RInv, WritesHeld
    <3> QED
      BY <1>14, <3>2 DEF OpenPushReader, RoomLeft
  <2> QED
    BY <1>2, <1>14, <2>1, <2>2, <2>3, <2>4 DEF OpenPushReader, PushReaderList
<1>15. ASSUME NEW l \in Logs, PushWriter(l) PROVE TypesOK'
  <2>1. FilesOK'
    <3>1. l \in Files /\ Hole \in [Blocks -> 0..MaxVersion]
      BY DEF Hole, Files
    <3> QED
      BY <1>1, <1>15, <3>1 DEF PushWriter, FilesOK
  <2>2. ListsOK'
    <3>1. <<l>> \o writers \in Seq(Logs)
      BY <1>1 DEF ListsOK
    <3> QED
      BY <1>1, <1>15, <3>1 DEF PushWriter, BuildReaderStack, ListsOK
  <2>3. RunType'
    <3>1. l \in Files
      BY DEF Files
    <3> QED
      BY <1>1, <1>15, <3>1 DEF PushWriter, RunType, RunPcs
  <2> QED
    BY <1>2, <1>15, <2>1, <2>2, <2>3 DEF PushWriter
<1>16. ASSUME PushNewLog PROVE TypesOK'
  <2>1. FilesOK'
    <3>1. run.file \in Logs
      BY <1>16 DEF PushNewLog, RInv, WritersShape
    <3> QED
      BY <1>1, <1>16, <3>1 DEF PushNewLog, FilesOK
  <2>2. RunType'
    <3>1. active \in Files \cup {NoFile}
      BY <1>1 DEF FilesOK, Files
    <3> QED
      BY <1>1, <1>16, <3>1 DEF PushNewLog, RunType, RunPcs, InRotation
  <2> QED
    BY <1>2, <1>16, <2>1, <2>2 DEF PushNewLog
<1>17. ASSUME WritesDone PROVE TypesOK'
  <2>1. RunType'
    BY <1>1, <1>17 DEF WritesDone, RunType, RunPcs, InRotation, InCompaction
  <2> QED
    BY <1>2, <1>17, <2>1 DEF WritesDone
<1>18. ASSUME PushReader PROVE TypesOK'
  <2>1. ListsOK'
    <3>1. run.file \in Files
      BY <1>18 DEF PushReader, RInv, WritersShape, InRotation, Files
    <3>2. pendingReaders' \in Seq(Files)
      BY <1>1, <1>18, <3>1, Pushed DEF PushReader, ListsOK
    <3> QED
      BY <1>1, <1>18, <3>2 DEF PushReader, PushReaderList, BuildReaderStack, ListsOK
  <2>2. RunType'
    BY <1>1, <1>18 DEF PushReader, PushReaderList, RunType, RunPcs, InRotation, InCompaction
  <2>3. SyncOK'
    BY <1>1, <1>18 DEF PushReader, PushReaderList, SyncOK
  <2> QED
    BY <1>2, <1>18, <2>1, <2>2, <2>3 DEF PushReader, PushReaderList
<1>19. ASSUME RemoveWriter PROVE TypesOK'
  <2>1. ListsOK'
    <3>1. active # NoFile /\ run.file # active /\ writers = <<active, run.file>>
      BY <1>19 DEF RemoveWriter, RInv, WritersShape, InRotation
    <3>2. RemoveFirst(<<active, run.file>>, run.file) = <<active>>
      BY <3>1, RemovedSecond
    <3>3. writers' = <<active>> /\ active \in Logs
      BY <1>1, <1>19, <3>1, <3>2 DEF RemoveWriter, FilesOK
    <3>4. writers' \in Seq(Logs)
      BY <3>3
    <3> QED
      BY <1>1, <1>19, <3>4 DEF RemoveWriter, BuildReaderStack, ListsOK
  <2>2. RunType'
    BY <1>1, <1>19 DEF RemoveWriter, RunType, RunPcs, InRotation, InCompaction
  <2> QED
    BY <1>2, <1>19, <2>1, <2>2 DEF RemoveWriter
<1>20. ASSUME RemoveWriterReturn PROVE TypesOK'
  <2>1. RunType'
    BY <1>1, <1>20 DEF RemoveWriterReturn, RunType, RunPcs, InRotation, InCompaction
  <2> QED
    BY <1>2, <1>20, <2>1 DEF RemoveWriterReturn
<1>21. ASSUME StartCompaction PROVE TypesOK'
  <2>1. RunType'
    BY <1>1, <1>21 DEF StartCompaction, RunType, RunPcs, InRotation, InCompaction
  <2>2. SyncOK'
    BY <1>1, <1>21 DEF StartCompaction, SyncOK
  <2> QED
    BY <1>2, <1>21, <2>1, <2>2 DEF StartCompaction
<1>22. ASSUME NEW t \in Tables, NEW es \in SUBSET Tables, BuildTable(t, es) PROVE TypesOK'
  <2>1. FilesOK'
    <3> DEFINE new == [b \in Blocks |->
                        IF \E f \in (rs \cap Logs) \cup es : b \in Live(f)
                        THEN content[valueMap[rangeMap[b]]][b] ELSE 0]
    <3>1. t \in Files
      BY DEF Files
    <3>2. ASSUME NEW b \in Blocks, NEW f \in (rs \cap Logs) \cup es, b \in Live(f)
          PROVE  content[valueMap[rangeMap[b]]][b] \in 0..MaxVersion
      <4>1. valueMap[rangeMap[b]] = f /\ f \in Files
        BY <1>1, <1>22, <3>2 DEF Live, Files, IndexOK
      <4> QED
        BY <1>1, <4>1 DEF FilesOK
    <3>3. new \in [Blocks -> 0..MaxVersion]
      BY <3>2
    <3>4. content' = [content EXCEPT ![t] = new]
      BY <1>22 DEF BuildTable
    <3> HIDE DEF new
    <3> QED
      BY <1>1, <1>22, <3>1, <3>3, <3>4 DEF BuildTable, FilesOK
  <2>2. RunType'
    <3>1. t \in Files
      BY DEF Files
    <3> QED
      BY <1>1, <1>22, <3>1 DEF BuildTable, RunType, RunPcs, InCompaction
  <2> QED
    BY <1>2, <1>22, <2>1, <2>2 DEF BuildTable
<1>23. ASSUME CompactAlloc PROVE TypesOK'
  <2>1. IndexOK'
    <3>1. PICK iv \in 1..MaxIv : /\ valueMap' = [valueMap EXCEPT ![iv] = run.file]
                                 /\ rs' = rs \cup {run.file}
                                 /\ rangeMap' = rangeMap
      BY <1>23, Allocated DEF CompactAlloc
    <3>2. run.file \in Files
      BY <1>1, <1>23 DEF CompactAlloc, FilesOK, RInv, CompactionShape
    <3> QED
      BY <1>1, <3>1, <3>2 DEF IndexOK
  <2>2. RunType'
    <3>1. DataOf(run.file) \subseteq Blocks
      BY DEF DataOf
    <3> QED
      BY <1>1, <1>23, <3>1 DEF CompactAlloc, RunType, RunPcs, InCompaction
  <2> QED
    BY <1>2, <1>23, <2>1, <2>2 DEF CompactAlloc, FetchOrAddValueIndex
<1>24. ASSUME NEW b \in Blocks, CompactAdd(b) PROVE TypesOK'
  <2>1. IndexOK'
    <3>1. run.file \in rs
      BY <1>24 DEF CompactAdd, RInv, CompactionShape
    <3>2. IvOf(run.file) \in 1..MaxIv
      BY <3>1, IvOfOnly DEF RInv
    <3> QED
      BY <1>1, <1>24, <3>2 DEF CompactAdd, AddBlock, IndexOK
  <2>2. RunType'
    BY <1>1, <1>24 DEF CompactAdd, AddBlock, RunType, RunPcs, InRotation, InCompaction
  <2> QED
    BY <1>2, <1>24, <2>1, <2>2 DEF CompactAdd, AddBlock
<1>25. ASSUME FindUnused PROVE TypesOK'
  <2>1. RunType'
    <3>1. {f \in rs : Live(f) = {}} \subseteq Files
      BY <1>1 DEF IndexOK
    <3> QED
      BY <1>1, <1>25, <3>1 DEF FindUnused, RunType, RunPcs, InCompaction
  <2> QED
    BY <1>2, <1>25, <2>1 DEF FindUnused
<1>26. ASSUME NEW f \in Files, RemoveUnusedBarrier(f) PROVE TypesOK'
  <2>1. RunType'
    BY <1>1, <1>26 DEF RemoveUnusedBarrier, RunType, RunPcs, InRotation, InCompaction
  <2> QED
    BY <1>2, <1>26, <2>1 DEF RemoveUnusedBarrier
<1>27. ASSUME RemoveTable PROVE TypesOK'
  <2>1. IndexOK'
    BY <1>1, <1>27 DEF RemoveTable, IndexOK
  <2>2. RunType'
    <3>1. run.file \in Files
      BY <1>1, <1>27 DEF RemoveTable, RInv, CompactionShape, IndexOK
    <3> QED
      BY <1>1, <1>27, <3>1 DEF RemoveTable, RunType, RunPcs, InCompaction
  <2> QED
    BY <1>2, <1>27, <2>1, <2>2 DEF RemoveTable
<1>28. ASSUME NEW f \in Files, CloseFile(f) PROVE TypesOK'
  <2>1. FilesOK'
    BY <1>1, <1>28 DEF CloseFile, FilesOK
  <2>2. RunType'
    BY <1>1, <1>28 DEF CloseFile, RunType, RunPcs, InRotation, InCompaction
  <2> QED
    BY <1>2, <1>28, <2>1, <2>2 DEF CloseFile
<1>29. ASSUME CompactionDone PROVE TypesOK'
  <2>1. RunType'
    BY <1>1, <1>29 DEF CompactionDone, IdleRun, RunType, RunPcs, InRotation, InCompaction
  <2>2. SyncOK'
    BY <1>1, <1>29 DEF CompactionDone, IdleRun, SyncOK
  <2> QED
    BY <1>2, <1>29, <2>1, <2>2 DEF CompactionDone, IdleRun
<1>30. ASSUME UNCHANGED rvars PROVE TypesOK'
  BY <1>2, <1>30 DEF rvars
<1>31. ASSUME NEW c \in Clients,
              ReadHole(c) \/ ReadData(c) \/ ReadLayer(c) \/ ReadFind(c) \/ ReadFetch(c)
       PROVE  TypesOK'
  <2>1. ReadMove(c)
    BY <1>31, ReadMoves DEF RInv
  <2> QED
    BY <1>6, <2>1
<1>32. TypesOK'
  <2> HIDE DEF TypesOK
  <2> QED
    BY <1>3, <1>4, <1>5, <1>6, <1>7, <1>8, <1>9, <1>10, <1>11, <1>12, <1>13,
       <1>14, <1>15, <1>16, <1>17, <1>18, <1>19, <1>20, <1>21, <1>22, <1>23,
       <1>24, <1>25, <1>26, <1>27, <1>28, <1>29, <1>30, <1>31
    DEF RNext, ReadStep, MergeStep, RunStep
<1>33. WaitsOK'
  BY <1>32 DEF WaitsOK, MergeType, RunType
<1> QED
  BY <1>32, <1>33 DEF RTypes, RTypeOK

\* The rotation keeps the list of writers in step with its own progress.
LEMMA WritersShapeStep ==
    ASSUME RInv, [RNext]_rvars
    PROVE  WritersShape'
<1> USE FilesAssumption, BoundsAssumption
<1>1. /\ run \in [pc : RunPcs, file : Files \cup {NoFile}, todo : SUBSET Blocks,
                unused : SUBSET Files, removed : SUBSET Files, waitR : SUBSET Clients]
      /\ active \in Logs \cup {NoFile}
      /\ WritersShape
      /\ active # NoFile => active \in opened
  BY DEF RInv, RTypeOK, FilesOK, ListsOK, IndexOK, SyncOK, RTypes, RunType, FilesApart
<1>2. UNCHANGED <<active, writers, run>> => WritersShape'
  BY <1>1 DEF WritersShape
<1>3. ASSUME NEW b \in Blocks, WriteStart(b) PROVE WritersShape'
  BY <1>2, <1>3 DEF WriteStart
<1>4. ASSUME NEW b \in Blocks, WriteDo(b) PROVE WritersShape'
  BY <1>2, <1>4 DEF WriteDo
<1>5. ASSUME NEW c \in Clients, NEW b \in Blocks, ReadStart(c, b) PROVE WritersShape'
  BY <1>2, <1>5 DEF ReadStart
<1>6. ASSUME NEW c \in Clients, ReadMove(c) PROVE WritersShape'
  BY <1>2, <1>6 DEF ReadMove
<1>7. ASSUME NEW c \in Clients, ReadReturn(c) PROVE WritersShape'
  BY <1>1, <1>7 DEF ReadReturn, WritersShape, InRotation, RunPcs, InCompaction
<1>8. ASSUME MergeCheck PROVE WritersShape'
  BY <1>2, <1>8 DEF MergeCheck
<1>9. ASSUME MergeAlloc PROVE WritersShape'
  BY <1>2, <1>9 DEF MergeAlloc, FetchOrAddValueIndex
<1>10. ASSUME NEW b \in Blocks, MergeAdd(b) PROVE WritersShape'
  BY <1>2, <1>10 DEF MergeAdd, AddBlock
<1>11. ASSUME MergeNext PROVE WritersShape'
  BY <1>2, <1>11 DEF MergeNext
<1>12. ASSUME MergeDrop PROVE WritersShape'
  BY <1>2, <1>12 DEF MergeDrop
<1>13. ASSUME MergeWaited PROVE WritersShape'
  BY <1>2, <1>13 DEF MergeWaited, IdleMerge
<1>14. ASSUME NEW f \in Files, NEW bs \in SUBSET Blocks, OpenPushReader(f, bs) PROVE WritersShape'
  BY <1>2, <1>14 DEF OpenPushReader, PushReaderList
<1>15. ASSUME NEW l \in Logs, PushWriter(l) PROVE WritersShape'
  <2>1. /\ run'.pc = "swap" /\ run'.file = l /\ active' = active
        /\ writers' = <<l>> \o writers
    BY <1>1, <1>15, Zenon DEF PushWriter
  <2>2. l \in Logs \ {active}
    <3>1. l # NoFile /\ l \notin opened
      BY <1>15 DEF PushWriter, Files
    <3> QED
      BY <1>1, <3>1
  <2>3. CASE run.pc = "open"
    <3>1. active = NoFile /\ writers = <<>>
      BY <1>1, <2>3 DEF WritersShape
    <3>2. writers' = <<l>>
      BY <2>1, <3>1
    <3> QED
      BY <2>1, <2>2, <3>1, <3>2 DEF WritersShape, InRotation
  <2>4. CASE run.pc = "idle"
    <3>1. active # NoFile /\ writers = <<active>>
      BY <1>1, <2>4 DEF WritersShape, InRotation
    <3>2. <<l>> \o <<active>> = <<l, active>>
      <4>1. active \in Logs
        BY <1>1, <3>1
      <4> QED
        BY <4>1, JoinedTwo
    <3>3. writers' = <<l, active>>
      BY <2>1, <3>1, <3>2, Zenon
    <3> QED
      BY <2>1, <2>2, <3>1, <3>3 DEF WritersShape, InRotation
  <2> QED
    BY <2>3, <2>4, <1>15 DEF PushWriter
<1>16. ASSUME PushNewLog PROVE WritersShape'
  <2>1. /\ run.file \in Logs \ {active}
        /\ writers = IF active = NoFile THEN <<run.file>> ELSE <<run.file, active>>
        /\ run'.pc = (IF active = NoFile THEN "idle" ELSE "await") /\ run'.file = active
        /\ active' = run.file /\ writers' = writers
    BY <1>1, <1>16 DEF PushNewLog, WritersShape
  <2>2. run.file # NoFile
    BY <2>1 DEF Files
  <2>3. CASE active = NoFile
    BY <2>1, <2>2, <2>3 DEF WritersShape, InRotation
  <2>4. CASE active # NoFile
    <3>1. active \in Logs
      BY <1>1, <2>4
    <3> QED
      BY <2>1, <2>2, <2>4, <3>1 DEF WritersShape, InRotation
  <2> QED
    BY <2>3, <2>4
<1>17. ASSUME WritesDone PROVE WritersShape'
  BY <1>1, <1>17 DEF WritesDone, WritersShape, InRotation, RunPcs, InCompaction
<1>18. ASSUME PushReader PROVE WritersShape'
  BY <1>1, <1>18 DEF PushReader, PushReaderList, WritersShape, InRotation, RunPcs,
       InCompaction
<1>19. ASSUME RemoveWriter PROVE WritersShape'
  <2>1. /\ active # NoFile /\ run.file \in Logs \ {active} /\ writers = <<active, run.file>>
        /\ writers' = RemoveFirst(writers, run.file)
        /\ run'.pc = "removeWait" /\ active' = active
    BY <1>1, <1>19 DEF RemoveWriter, WritersShape, InRotation
  <2>2. RemoveFirst(<<active, run.file>>, run.file) = <<active>>
    BY <2>1, RemovedSecond
  <2> QED
    BY <2>1, <2>2 DEF WritersShape, InRotation
<1>20. ASSUME RemoveWriterReturn PROVE WritersShape'
  BY <1>1, <1>20 DEF RemoveWriterReturn, WritersShape, InRotation, RunPcs, InCompaction
<1>21. ASSUME StartCompaction PROVE WritersShape'
  BY <1>1, <1>21 DEF StartCompaction, WritersShape, InRotation, RunPcs, InCompaction
<1>22. ASSUME NEW t \in Tables, NEW es \in SUBSET Tables, BuildTable(t, es) PROVE WritersShape'
  BY <1>1, <1>22 DEF BuildTable, WritersShape, InRotation, RunPcs, InCompaction
<1>23. ASSUME CompactAlloc PROVE WritersShape'
  BY <1>1, <1>23 DEF CompactAlloc, FetchOrAddValueIndex, WritersShape, InRotation, RunPcs,
       InCompaction
<1>24. ASSUME NEW b \in Blocks, CompactAdd(b) PROVE WritersShape'
  BY <1>1, <1>24 DEF CompactAdd, AddBlock, WritersShape, InRotation, RunPcs, InCompaction
<1>25. ASSUME FindUnused PROVE WritersShape'
  BY <1>1, <1>25 DEF FindUnused, WritersShape, InRotation, RunPcs, InCompaction
<1>26. ASSUME NEW f \in Files, RemoveUnusedBarrier(f) PROVE WritersShape'
  BY <1>1, <1>26 DEF RemoveUnusedBarrier, WritersShape, InRotation, RunPcs, InCompaction
<1>27. ASSUME RemoveTable PROVE WritersShape'
  BY <1>1, <1>27 DEF RemoveTable, WritersShape, InRotation, RunPcs, InCompaction
<1>28. ASSUME NEW f \in Files, CloseFile(f) PROVE WritersShape'
  BY <1>1, <1>28 DEF CloseFile, WritersShape, InRotation, RunPcs, InCompaction
<1>29. ASSUME CompactionDone PROVE WritersShape'
  BY <1>1, <1>29 DEF CompactionDone, IdleRun, WritersShape, InRotation, RunPcs,
       InCompaction
<1>30. ASSUME UNCHANGED rvars PROVE WritersShape'
  BY <1>2, <1>30 DEF rvars
<1>31. ASSUME NEW c \in Clients,
              ReadHole(c) \/ ReadData(c) \/ ReadLayer(c) \/ ReadFind(c) \/ ReadFetch(c)
       PROVE  WritersShape'
  <2>1. ReadMove(c)
    BY <1>31, ReadMoves DEF RInv
  <2> QED
    BY <1>6, <2>1
<1> QED
  BY <1>3, <1>4, <1>5, <1>6, <1>7, <1>8, <1>9, <1>10, <1>11, <1>12, <1>13,
     <1>14, <1>15, <1>16, <1>17, <1>18, <1>19, <1>20, <1>21, <1>22, <1>23,
     <1>24, <1>25, <1>26, <1>27, <1>28, <1>29, <1>30, <1>31
  DEF RNext, ReadStep, MergeStep, RunStep

\* PushNewLog leaves the old log to the writes it waits for.
LEMMA WritesHeldStep ==
    ASSUME RInv, [RNext]_rvars
    PROVE  WritesHeld'
<1> USE FilesAssumption, BoundsAssumption
<1>1. /\ run \in [pc : RunPcs, file : Files \cup {NoFile}, todo : SUBSET Blocks,
                unused : SUBSET Files, removed : SUBSET Files, waitR : SUBSET Clients]
      /\ wr \in [Blocks -> Logs \cup {NoFile}]
      /\ WritersShape
      /\ WritesHeld
  BY DEF RInv, RTypeOK, FilesOK, ListsOK, IndexOK, SyncOK, RTypes, RunType
<1>2. UNCHANGED <<wr, active, run>> => WritesHeld'
  BY <1>1 DEF WritesHeld
<1>3. ASSUME NEW b \in Blocks, WriteStart(b) PROVE WritesHeld'
  BY <1>1, <1>3 DEF WriteStart, WritesHeld
<1>4. ASSUME NEW b \in Blocks, WriteDo(b) PROVE WritesHeld'
  BY <1>1, <1>4 DEF WriteDo, WritesHeld
<1>5. ASSUME NEW c \in Clients, NEW b \in Blocks, ReadStart(c, b) PROVE WritesHeld'
  BY <1>2, <1>5 DEF ReadStart
<1>6. ASSUME NEW c \in Clients, ReadMove(c) PROVE WritesHeld'
  BY <1>2, <1>6 DEF ReadMove
<1>7. ASSUME NEW c \in Clients, ReadReturn(c) PROVE WritesHeld'
  BY <1>1, <1>7 DEF ReadReturn, WritesHeld
<1>8. ASSUME MergeCheck PROVE WritesHeld'
  BY <1>2, <1>8 DEF MergeCheck
<1>9. ASSUME MergeAlloc PROVE WritesHeld'
  BY <1>2, <1>9 DEF MergeAlloc, FetchOrAddValueIndex
<1>10. ASSUME NEW b \in Blocks, MergeAdd(b) PROVE WritesHeld'
  BY <1>2, <1>10 DEF MergeAdd, AddBlock
<1>11. ASSUME MergeNext PROVE WritesHeld'
  BY <1>2, <1>11 DEF MergeNext
<1>12. ASSUME MergeDrop PROVE WritesHeld'
  BY <1>2, <1>12 DEF MergeDrop
<1>13. ASSUME MergeWaited PROVE WritesHeld'
  BY <1>2, <1>13 DEF MergeWaited, IdleMerge
<1>14. ASSUME NEW f \in Files, NEW bs \in SUBSET Blocks, OpenPushReader(f, bs) PROVE WritesHeld'
  BY <1>2, <1>14 DEF OpenPushReader, PushReaderList
<1>15. ASSUME NEW l \in Logs, PushWriter(l) PROVE WritesHeld'
  BY <1>1, <1>15 DEF PushWriter, WritesHeld
<1>16. ASSUME PushNewLog PROVE WritesHeld'
  BY <1>1, <1>16 DEF PushNewLog, WritesHeld
<1>17. ASSUME WritesDone PROVE WritesHeld'
  BY <1>1, <1>17 DEF WritesDone, WritesHeld
<1>18. ASSUME PushReader PROVE WritesHeld'
  BY <1>1, <1>18 DEF PushReader, PushReaderList, WritesHeld
<1>19. ASSUME RemoveWriter PROVE WritesHeld'
  BY <1>1, <1>19 DEF RemoveWriter, WritesHeld
<1>20. ASSUME RemoveWriterReturn PROVE WritesHeld'
  BY <1>1, <1>20 DEF RemoveWriterReturn, WritesHeld
<1>21. ASSUME StartCompaction PROVE WritesHeld'
  BY <1>1, <1>21 DEF StartCompaction, WritesHeld
<1>22. ASSUME NEW t \in Tables, NEW es \in SUBSET Tables, BuildTable(t, es) PROVE WritesHeld'
  BY <1>1, <1>22 DEF BuildTable, WritesHeld
<1>23. ASSUME CompactAlloc PROVE WritesHeld'
  BY <1>1, <1>23 DEF CompactAlloc, FetchOrAddValueIndex, WritesHeld
<1>24. ASSUME NEW b \in Blocks, CompactAdd(b) PROVE WritesHeld'
  BY <1>1, <1>24 DEF CompactAdd, AddBlock, WritesHeld
<1>25. ASSUME FindUnused PROVE WritesHeld'
  BY <1>1, <1>25 DEF FindUnused, WritesHeld
<1>26. ASSUME NEW f \in Files, RemoveUnusedBarrier(f) PROVE WritesHeld'
  BY <1>1, <1>26 DEF RemoveUnusedBarrier, WritesHeld
<1>27. ASSUME RemoveTable PROVE WritesHeld'
  BY <1>1, <1>27 DEF RemoveTable, WritesHeld
<1>28. ASSUME NEW f \in Files, CloseFile(f) PROVE WritesHeld'
  BY <1>1, <1>28 DEF CloseFile, WritesHeld
<1>29. ASSUME CompactionDone PROVE WritesHeld'
  BY <1>1, <1>29 DEF CompactionDone, IdleRun, WritesHeld
<1>30. ASSUME UNCHANGED rvars PROVE WritesHeld'
  BY <1>2, <1>30 DEF rvars
<1>31. ASSUME NEW c \in Clients,
              ReadHole(c) \/ ReadData(c) \/ ReadLayer(c) \/ ReadFind(c) \/ ReadFetch(c)
       PROVE  WritesHeld'
  <2>1. ReadMove(c)
    BY <1>31, ReadMoves DEF RInv
  <2> QED
    BY <1>6, <2>1
<1> QED
  BY <1>3, <1>4, <1>5, <1>6, <1>7, <1>8, <1>9, <1>10, <1>11, <1>12, <1>13,
     <1>14, <1>15, <1>16, <1>17, <1>18, <1>19, <1>20, <1>21, <1>22, <1>23,
     <1>24, <1>25, <1>26, <1>27, <1>28, <1>29, <1>30, <1>31
  DEF RNext, ReadStep, MergeStep, RunStep

\* A new file is not in any list; a closed one has left them all.
LEMMA FilesApartStep ==
    ASSUME RInv, [RNext]_rvars
    PROVE  FilesApart'
<1> USE FilesAssumption, BoundsAssumption
<1>1. /\ run \in [pc : RunPcs, file : Files \cup {NoFile}, todo : SUBSET Blocks,
                unused : SUBSET Files, removed : SUBSET Files, waitR : SUBSET Clients]
      /\ active \in Logs \cup {NoFile} /\ opened \subseteq Files /\ rs \subseteq Files
      /\ pendingReaders \in Seq(Files)
      /\ WritersShape
      /\ FilesApart
      /\ UNCHANGED pendingReaders =>
            PendingFiles' = PendingFiles /\ (PendingDistinct' <=> PendingDistinct)
  BY PendingSame DEF RInv, RTypeOK, FilesOK, ListsOK, IndexOK, SyncOK, RTypes, RunType, MergeType
<1>2. UNCHANGED <<rs, pendingReaders, opened, active, run>> => FilesApart'
  BY <1>1 DEF FilesApart
<1>3. ASSUME NEW b \in Blocks, WriteStart(b) PROVE FilesApart'
  BY <1>2, <1>3 DEF WriteStart
<1>4. ASSUME NEW b \in Blocks, WriteDo(b) PROVE FilesApart'
  BY <1>2, <1>4 DEF WriteDo
<1>5. ASSUME NEW c \in Clients, NEW b \in Blocks, ReadStart(c, b) PROVE FilesApart'
  BY <1>2, <1>5 DEF ReadStart
<1>6. ASSUME NEW c \in Clients, ReadMove(c) PROVE FilesApart'
  BY <1>2, <1>6 DEF ReadMove
<1>7. ASSUME NEW c \in Clients, ReadReturn(c) PROVE FilesApart'
  BY <1>1, <1>7 DEF ReadReturn, FilesApart
<1>8. ASSUME MergeCheck PROVE FilesApart'
  BY <1>2, <1>8 DEF MergeCheck
<1>9. ASSUME MergeAlloc PROVE FilesApart'
  <2>1. Head(mg.files) \in PendingFiles
    <3>1. mg.files \in Seq(Files) /\ mg.files # <<>> /\ mg.pc = "alloc"
      BY <1>9 DEF MergeAlloc, RInv, RTypes, MergeType, ReadType
    <3>2. 1 \in DOMAIN mg.files /\ Head(mg.files) = mg.files[1]
      BY <3>1
    <3> QED
      BY <3>1, <3>2 DEF RInv, MergeShape
  <2>2. rs' = rs \cup {Head(mg.files)} /\ UNCHANGED <<pendingReaders, opened, active, run>>
    BY <1>9 DEF MergeAlloc, FetchOrAddValueIndex
  <2> QED
    BY <1>1, <2>1, <2>2 DEF FilesApart
<1>10. ASSUME NEW b \in Blocks, MergeAdd(b) PROVE FilesApart'
  BY <1>2, <1>10 DEF MergeAdd, AddBlock
<1>11. ASSUME MergeNext PROVE FilesApart'
  BY <1>2, <1>11 DEF MergeNext
<1>12. ASSUME MergeDrop PROVE FilesApart'
  <2>1. PendingFiles' = PendingFiles \ rs /\ PendingDistinct'
    BY <1>1, <1>12, Dropped DEF FilesApart
  <2>2. UNCHANGED <<rs, opened, active, run>>
    BY <1>12 DEF MergeDrop
  <2> QED
    BY <1>1, <2>1, <2>2 DEF FilesApart
<1>13. ASSUME MergeWaited PROVE FilesApart'
  BY <1>2, <1>13 DEF MergeWaited, IdleMerge
<1>14. ASSUME NEW f \in Files, NEW bs \in SUBSET Blocks, OpenPushReader(f, bs) PROVE FilesApart'
  <2>1. PendingFiles' = PendingFiles \cup {f}
        /\ (PendingDistinct /\ f \notin PendingFiles => PendingDistinct')
    BY <1>1, <1>14, Pushed DEF OpenPushReader
  <2>2. /\ run.pc = "open" /\ f \notin opened /\ opened' = opened \cup {f}
        /\ UNCHANGED <<rs, active, run>>
    BY <1>14 DEF OpenPushReader
  <2>3. active = NoFile
    BY <1>1, <2>2 DEF WritersShape
  <2> QED
    BY <1>1, <2>1, <2>2, <2>3 DEF FilesApart
<1>15. ASSUME NEW l \in Logs, PushWriter(l) PROVE FilesApart'
  BY <1>1, <1>15 DEF PushWriter, FilesApart
<1>16. ASSUME PushNewLog PROVE FilesApart'
  <2>1. /\ run.file \in Logs \ {active}
        /\ run.file \in opened \ (rs \cup PendingFiles)
        /\ run'.pc = (IF active = NoFile THEN "idle" ELSE "await") /\ run'.file = active
        /\ active' = run.file /\ UNCHANGED <<rs, opened, pendingReaders>>
    BY <1>1, <1>16 DEF PushNewLog, WritersShape, FilesApart
  <2> QED
    BY <1>1, <2>1 DEF FilesApart
<1>17. ASSUME WritesDone PROVE FilesApart'
  BY <1>1, <1>17 DEF WritesDone, FilesApart
<1>18. ASSUME PushReader PROVE FilesApart'
  <2>1. run.pc = "pushReader" /\ run.file \in Logs \ {active}
    BY <1>1, <1>18 DEF PushReader, WritersShape, InRotation
  <2>2. /\ run.file \in Files /\ PushReaderList(run.file)
        /\ run'.pc = "removeWriter" /\ run'.file = run.file
        /\ UNCHANGED <<opened, rs, active>>
    BY <1>1, <2>1, <1>18 DEF PushReader, Files
  <2>3. PendingFiles' = PendingFiles \cup {run.file}
        /\ (PendingDistinct /\ run.file \notin PendingFiles => PendingDistinct')
    BY <1>1, <2>2, Pushed
  <2> QED
    BY <1>1, <2>1, <2>2, <2>3 DEF FilesApart
<1>19. ASSUME RemoveWriter PROVE FilesApart'
  BY <1>1, <1>19 DEF RemoveWriter, FilesApart
<1>20. ASSUME RemoveWriterReturn PROVE FilesApart'
  BY <1>1, <1>20 DEF RemoveWriterReturn, FilesApart
<1>21. ASSUME StartCompaction PROVE FilesApart'
  BY <1>1, <1>21 DEF StartCompaction, FilesApart
<1>22. ASSUME NEW t \in Tables, NEW es \in SUBSET Tables, BuildTable(t, es) PROVE FilesApart'
  BY <1>1, <1>22 DEF BuildTable, FilesApart
<1>23. ASSUME CompactAlloc PROVE FilesApart'
  <2>1. run.file \in opened \ (rs \cup {active}) /\ run.pc = "alloc"
    BY <1>23 DEF CompactAlloc, RInv, CompactionShape
  <2>2. /\ run'.pc = "add" /\ rs' = rs \cup {run.file}
        /\ UNCHANGED <<opened, pendingReaders, active>>
    BY <1>1, <1>23 DEF CompactAlloc, FetchOrAddValueIndex
  <2> QED
    BY <1>1, <2>1, <2>2 DEF FilesApart
<1>24. ASSUME NEW b \in Blocks, CompactAdd(b) PROVE FilesApart'
  BY <1>1, <1>24 DEF CompactAdd, AddBlock, FilesApart
<1>25. ASSUME FindUnused PROVE FilesApart'
  BY <1>1, <1>25 DEF FindUnused, FilesApart
<1>26. ASSUME NEW f \in Files, RemoveUnusedBarrier(f) PROVE FilesApart'
  BY <1>1, <1>26 DEF RemoveUnusedBarrier, FilesApart
<1>27. ASSUME RemoveTable PROVE FilesApart'
  <2>1. /\ run'.pc = "unused" /\ rs' \subseteq rs
        /\ UNCHANGED <<opened, pendingReaders, active>>
    BY <1>1, <1>27 DEF RemoveTable
  <2> QED
    BY <1>1, <2>1 DEF FilesApart
<1>28. ASSUME NEW f \in Files, CloseFile(f) PROVE FilesApart'
  <2>1. compaction /\ run.pc = "unused" /\ f \notin rs \cup {active}
    BY <1>28 DEF CloseFile, RInv, CompactionShape, InCompaction
  <2>2. PendingFiles = {}
    BY <2>1 DEF RInv, IndexFrozen, PendingFiles
  <2>3. /\ run'.pc = run.pc /\ opened' = opened \ {f}
        /\ UNCHANGED <<rs, pendingReaders, active>>
    BY <1>1, <1>28 DEF CloseFile
  <2> QED
    BY <1>1, <2>1, <2>2, <2>3 DEF FilesApart
<1>29. ASSUME CompactionDone PROVE FilesApart'
  BY <1>1, <1>29 DEF CompactionDone, IdleRun, FilesApart
<1>30. ASSUME UNCHANGED rvars PROVE FilesApart'
  BY <1>2, <1>30 DEF rvars
<1>31. ASSUME NEW c \in Clients,
              ReadHole(c) \/ ReadData(c) \/ ReadLayer(c) \/ ReadFind(c) \/ ReadFetch(c)
       PROVE  FilesApart'
  <2>1. ReadMove(c)
    BY <1>31, ReadMoves DEF RInv
  <2> QED
    BY <1>6, <2>1
<1> QED
  BY <1>3, <1>4, <1>5, <1>6, <1>7, <1>8, <1>9, <1>10, <1>11, <1>12, <1>13,
     <1>14, <1>15, <1>16, <1>17, <1>18, <1>19, <1>20, <1>21, <1>22, <1>23,
     <1>24, <1>25, <1>26, <1>27, <1>28, <1>29, <1>30, <1>31
  DEF RNext, ReadStep, MergeStep, RunStep

\* The merge loop pushes each pending reader once.
LEMMA MergeShapeStep ==
    ASSUME RInv, [RNext]_rvars
    PROVE  MergeShape'
<1> USE FilesAssumption, BoundsAssumption
<1>1. /\ mg \in [pc : {"check", "alloc", "add", "wait"}, files : Seq(Files),
               todo : SUBSET Blocks, waitR : SUBSET Clients]
      /\ pendingReaders \in Seq(Files)
      /\ MergeShape
      /\ FilesApart
      /\ UNCHANGED pendingReaders =>
            PendingFiles' = PendingFiles /\ (PendingDistinct' <=> PendingDistinct)
  BY PendingSame DEF RInv, RTypeOK, FilesOK, ListsOK, IndexOK, SyncOK, RTypes, RunType, MergeType
<1>2. UNCHANGED <<rs, pendingReaders, mg>> => MergeShape'
  BY <1>1 DEF MergeShape
<1>3. ASSUME NEW b \in Blocks, WriteStart(b) PROVE MergeShape'
  BY <1>2, <1>3 DEF WriteStart
<1>4. ASSUME NEW b \in Blocks, WriteDo(b) PROVE MergeShape'
  BY <1>2, <1>4 DEF WriteDo
<1>5. ASSUME NEW c \in Clients, NEW b \in Blocks, ReadStart(c, b) PROVE MergeShape'
  BY <1>2, <1>5 DEF ReadStart
<1>6. ASSUME NEW c \in Clients, ReadMove(c) PROVE MergeShape'
  BY <1>2, <1>6 DEF ReadMove
<1>7. ASSUME NEW c \in Clients, ReadReturn(c) PROVE MergeShape'
  BY <1>1, <1>7 DEF ReadReturn, MergeShape
<1>8. ASSUME MergeCheck PROVE MergeShape'
  <2>1. CASE pendingReaders = <<>> \/ compaction
    BY <1>1, <1>2, <1>8, <2>1 DEF MergeCheck
  <2>2. CASE ~(pendingReaders = <<>> \/ compaction)
    <3>1. /\ mg.pc = "check" /\ mg'.pc = "alloc" /\ mg'.files = Reverse(pendingReaders)
          /\ UNCHANGED <<pendingReaders, rs>> /\ pendingReaders # <<>>
      BY <1>1, <1>8, <2>2 DEF MergeCheck
    <3>2. /\ \A i \in DOMAIN mg'.files : mg'.files[i] \in PendingFiles
          /\ \A i, j \in DOMAIN mg'.files : mg'.files[i] = mg'.files[j] => i = j
      BY <1>1, <3>1, Copied DEF FilesApart
    <3> QED
      BY <1>1, <3>1, <3>2 DEF MergeShape
  <2> QED
    BY <2>1, <2>2
<1>9. ASSUME MergeAlloc PROVE MergeShape'
  <2>1. mg.files \in Seq(Files) /\ mg.files # <<>> /\ mg.pc = "alloc"
    BY <1>1, <1>9 DEF MergeAlloc
  <2>2. 1 \in DOMAIN mg.files /\ Head(mg.files) = mg.files[1]
    BY <2>1
  <2>3. /\ mg'.pc = "add" /\ mg'.files = mg.files
        /\ rs' = rs \cup {Head(mg.files)} /\ UNCHANGED pendingReaders
    BY <1>1, <1>9 DEF MergeAlloc, FetchOrAddValueIndex
  <2> QED
    BY <1>1, <2>1, <2>2, <2>3 DEF MergeShape
<1>10. ASSUME NEW b \in Blocks, MergeAdd(b) PROVE MergeShape'
  BY <1>1, <1>10 DEF MergeAdd, AddBlock, MergeShape
<1>11. ASSUME MergeNext PROVE MergeShape'
  <2>1. mg.files \in Seq(Files) /\ mg.files # <<>> /\ mg.pc = "add"
    BY <1>1, <1>11 DEF MergeNext, MergeShape
  <2>2. /\ mg'.pc = "alloc" /\ mg'.files = Tail(mg.files)
        /\ UNCHANGED <<rs, pendingReaders>>
    BY <1>1, <1>11 DEF MergeNext
  <2>3. /\ DOMAIN mg.files = 1..Len(mg.files) /\ Len(mg.files) \in Nat
        /\ DOMAIN mg'.files = 1..(Len(mg.files) - 1)
        /\ \A i \in 1..(Len(mg.files) - 1) : mg'.files[i] = mg.files[i + 1]
    BY <2>1, <2>2
  <2>4. \A i \in DOMAIN mg'.files : i + 1 \in DOMAIN mg.files /\ i + 1 # 1
    BY <2>3
  <2>5. ASSUME NEW i \in DOMAIN mg'.files, NEW j \in DOMAIN mg'.files,
               mg'.files[i] = mg'.files[j]
        PROVE  i = j
    <3>1. i + 1 = j + 1
      BY <1>1, <2>1, <2>3, <2>4, <2>5 DEF MergeShape
    <3> QED
      BY <2>3, <3>1
  <2>6. \A i \in DOMAIN mg'.files : mg'.files[i] \in PendingFiles /\ mg'.files[i] \notin rs
    BY <1>1, <2>1, <2>3, <2>4 DEF MergeShape
  <2>7. pendingReaders # <<>>
    BY <1>1, <2>1 DEF MergeShape
  <2> QED
    BY <1>1, <2>2, <2>5, <2>6, <2>7 DEF MergeShape
<1>12. ASSUME MergeDrop PROVE MergeShape'
  <2>1. PendingFiles' = PendingFiles \ rs
    BY <1>1, <1>12, Dropped DEF FilesApart
  <2>2. mg'.pc = "wait" /\ UNCHANGED rs
    BY <1>1, <1>12 DEF MergeDrop
  <2> QED
    BY <2>1, <2>2 DEF MergeShape
<1>13. ASSUME MergeWaited PROVE MergeShape'
  <2>1. mg.pc = "wait" /\ mg'.pc = "check" /\ UNCHANGED <<rs, pendingReaders>>
    BY <1>13 DEF MergeWaited, IdleMerge
  <2> QED
    BY <1>1, <2>1 DEF MergeShape
<1>14. ASSUME NEW f \in Files, NEW bs \in SUBSET Blocks, OpenPushReader(f, bs) PROVE MergeShape'
  <2>1. PendingFiles' = PendingFiles \cup {f} /\ pendingReaders' # <<>>
    BY <1>1, <1>14, Pushed DEF OpenPushReader
  <2>2. f \notin rs /\ UNCHANGED <<rs, mg>>
    BY <1>1, <1>14 DEF OpenPushReader, FilesApart
  <2> QED
    BY <1>1, <2>1, <2>2 DEF MergeShape
<1>15. ASSUME NEW l \in Logs, PushWriter(l) PROVE MergeShape'
  BY <1>2, <1>15 DEF PushWriter
<1>16. ASSUME PushNewLog PROVE MergeShape'
  BY <1>2, <1>16 DEF PushNewLog
<1>17. ASSUME WritesDone PROVE MergeShape'
  BY <1>2, <1>17 DEF WritesDone
<1>18. ASSUME PushReader PROVE MergeShape'
  <2>1. run.file \in Files /\ run.file \notin rs
    BY <1>18 DEF PushReader, RInv, WritersShape, FilesApart, InRotation, Files
  <2>2. PendingFiles' = PendingFiles \cup {run.file} /\ pendingReaders' # <<>>
    BY <1>1, <1>18, <2>1, Pushed DEF PushReader
  <2>3. UNCHANGED <<rs, mg>>
    BY <1>18 DEF PushReader
  <2> QED
    BY <1>1, <2>1, <2>2, <2>3 DEF MergeShape
<1>19. ASSUME RemoveWriter PROVE MergeShape'
  BY <1>2, <1>19 DEF RemoveWriter
<1>20. ASSUME RemoveWriterReturn PROVE MergeShape'
  BY <1>2, <1>20 DEF RemoveWriterReturn
<1>21. ASSUME StartCompaction PROVE MergeShape'
  BY <1>2, <1>21 DEF StartCompaction
<1>22. ASSUME NEW t \in Tables, NEW es \in SUBSET Tables, BuildTable(t, es) PROVE MergeShape'
  BY <1>2, <1>22 DEF BuildTable
<1>23. ASSUME CompactAlloc PROVE MergeShape'
  <2>1. compaction /\ UNCHANGED <<pendingReaders, mg>>
    BY <1>23 DEF CompactAlloc, RInv, CompactionShape, InCompaction
  <2>2. PendingFiles = {} /\ mg.pc \notin {"alloc", "add"}
    BY <2>1 DEF RInv, IndexFrozen, PendingFiles
  <2> QED
    BY <1>1, <2>1, <2>2 DEF MergeShape
<1>24. ASSUME NEW b \in Blocks, CompactAdd(b) PROVE MergeShape'
  BY <1>2, <1>24 DEF CompactAdd, AddBlock
<1>25. ASSUME FindUnused PROVE MergeShape'
  BY <1>2, <1>25 DEF FindUnused
<1>26. ASSUME NEW f \in Files, RemoveUnusedBarrier(f) PROVE MergeShape'
  BY <1>2, <1>26 DEF RemoveUnusedBarrier
<1>27. ASSUME RemoveTable PROVE MergeShape'
  <2>1. compaction /\ UNCHANGED <<pendingReaders, mg>>
    BY <1>27 DEF RemoveTable, RInv, CompactionShape, InCompaction
  <2>2. PendingFiles = {} /\ mg.pc \notin {"alloc", "add"}
    BY <2>1 DEF RInv, IndexFrozen, PendingFiles
  <2> QED
    BY <1>1, <2>1, <2>2 DEF MergeShape
<1>28. ASSUME NEW f \in Files, CloseFile(f) PROVE MergeShape'
  BY <1>2, <1>28 DEF CloseFile
<1>29. ASSUME CompactionDone PROVE MergeShape'
  BY <1>2, <1>29 DEF CompactionDone, IdleRun
<1>30. ASSUME UNCHANGED rvars PROVE MergeShape'
  BY <1>2, <1>30 DEF rvars
<1>31. ASSUME NEW c \in Clients,
              ReadHole(c) \/ ReadData(c) \/ ReadLayer(c) \/ ReadFind(c) \/ ReadFetch(c)
       PROVE  MergeShape'
  <2>1. ReadMove(c)
    BY <1>31, ReadMoves DEF RInv
  <2> QED
    BY <1>6, <2>1
<1> QED
  BY <1>3, <1>4, <1>5, <1>6, <1>7, <1>8, <1>9, <1>10, <1>11, <1>12, <1>13,
     <1>14, <1>15, <1>16, <1>17, <1>18, <1>19, <1>20, <1>21, <1>22, <1>23,
     <1>24, <1>25, <1>26, <1>27, <1>28, <1>29, <1>30, <1>31
  DEF RNext, ReadStep, MergeStep, RunStep

\* A value is given with a file and freed with it.
LEMMA ValuesExactStep ==
    ASSUME RInv, [RNext]_rvars
    PROVE  ValuesExact'
<1> USE FilesAssumption, BoundsAssumption
<1>1. /\ valueMap \in [1..MaxIv -> Files \cup {NoFile}]
      /\ ValuesExact
  BY DEF RInv, RTypeOK, FilesOK, ListsOK, IndexOK, SyncOK
<1>2. UNCHANGED <<valueMap, rs>> => ValuesExact'
  BY <1>1 DEF ValuesExact
<1>3. ASSUME NEW b \in Blocks, WriteStart(b) PROVE ValuesExact'
  BY <1>2, <1>3 DEF WriteStart
<1>4. ASSUME NEW b \in Blocks, WriteDo(b) PROVE ValuesExact'
  BY <1>2, <1>4 DEF WriteDo
<1>5. ASSUME NEW c \in Clients, NEW b \in Blocks, ReadStart(c, b) PROVE ValuesExact'
  BY <1>2, <1>5 DEF ReadStart
<1>6. ASSUME NEW c \in Clients, ReadMove(c) PROVE ValuesExact'
  BY <1>2, <1>6 DEF ReadMove
<1>7. ASSUME NEW c \in Clients, ReadReturn(c) PROVE ValuesExact'
  BY <1>2, <1>7 DEF ReadReturn
<1>8. ASSUME MergeCheck PROVE ValuesExact'
  BY <1>2, <1>8 DEF MergeCheck
<1>9. ASSUME MergeAlloc PROVE ValuesExact'
  <2>1. PICK iv \in 1..MaxIv, f \in {Head(mg.files), run.file} :
            /\ valueMap' = [valueMap EXCEPT ![iv] = f]
            /\ rs' = rs \cup {f}
    BY <1>9, Allocated DEF MergeAlloc
  <2> QED
    BY <1>1, <2>1 DEF ValuesExact
<1>10. ASSUME NEW b \in Blocks, MergeAdd(b) PROVE ValuesExact'
  BY <1>2, <1>10 DEF MergeAdd, AddBlock
<1>11. ASSUME MergeNext PROVE ValuesExact'
  BY <1>2, <1>11 DEF MergeNext
<1>12. ASSUME MergeDrop PROVE ValuesExact'
  BY <1>2, <1>12 DEF MergeDrop
<1>13. ASSUME MergeWaited PROVE ValuesExact'
  BY <1>2, <1>13 DEF MergeWaited, IdleMerge
<1>14. ASSUME NEW f \in Files, NEW bs \in SUBSET Blocks, OpenPushReader(f, bs) PROVE ValuesExact'
  BY <1>2, <1>14 DEF OpenPushReader, PushReaderList
<1>15. ASSUME NEW l \in Logs, PushWriter(l) PROVE ValuesExact'
  BY <1>2, <1>15 DEF PushWriter
<1>16. ASSUME PushNewLog PROVE ValuesExact'
  BY <1>2, <1>16 DEF PushNewLog
<1>17. ASSUME WritesDone PROVE ValuesExact'
  BY <1>2, <1>17 DEF WritesDone
<1>18. ASSUME PushReader PROVE ValuesExact'
  BY <1>2, <1>18 DEF PushReader, PushReaderList
<1>19. ASSUME RemoveWriter PROVE ValuesExact'
  BY <1>2, <1>19 DEF RemoveWriter
<1>20. ASSUME RemoveWriterReturn PROVE ValuesExact'
  BY <1>2, <1>20 DEF RemoveWriterReturn
<1>21. ASSUME StartCompaction PROVE ValuesExact'
  BY <1>2, <1>21 DEF StartCompaction
<1>22. ASSUME NEW t \in Tables, NEW es \in SUBSET Tables, BuildTable(t, es) PROVE ValuesExact'
  BY <1>2, <1>22 DEF BuildTable
<1>23. ASSUME CompactAlloc PROVE ValuesExact'
  <2>1. PICK iv \in 1..MaxIv, f \in {Head(mg.files), run.file} :
            /\ valueMap' = [valueMap EXCEPT ![iv] = f]
            /\ rs' = rs \cup {f}
    BY <1>23, Allocated DEF CompactAlloc
  <2> QED
    BY <1>1, <2>1 DEF ValuesExact
<1>24. ASSUME NEW b \in Blocks, CompactAdd(b) PROVE ValuesExact'
  BY <1>2, <1>24 DEF CompactAdd, AddBlock
<1>25. ASSUME FindUnused PROVE ValuesExact'
  BY <1>2, <1>25 DEF FindUnused
<1>26. ASSUME NEW f \in Files, RemoveUnusedBarrier(f) PROVE ValuesExact'
  BY <1>2, <1>26 DEF RemoveUnusedBarrier
<1>27. ASSUME RemoveTable PROVE ValuesExact'
  <2>1. run.file \in rs
    BY <1>27 DEF RemoveTable, RInv, CompactionShape
  <2>2. /\ IvOf(run.file) \in 1..MaxIv
        /\ \A k \in 1..MaxIv : valueMap[k] = run.file => k = IvOf(run.file)
    BY <2>1, IvOfOnly DEF RInv
  <2>3. /\ valueMap' = [valueMap EXCEPT ![IvOf(run.file)] = NoFile]
        /\ rs' = rs \ {run.file}
    BY <1>27 DEF RemoveTable
  <2> QED
    BY <1>1, <2>2, <2>3 DEF ValuesExact
<1>28. ASSUME NEW f \in Files, CloseFile(f) PROVE ValuesExact'
  BY <1>2, <1>28 DEF CloseFile
<1>29. ASSUME CompactionDone PROVE ValuesExact'
  BY <1>2, <1>29 DEF CompactionDone, IdleRun
<1>30. ASSUME UNCHANGED rvars PROVE ValuesExact'
  BY <1>2, <1>30 DEF rvars
<1>31. ASSUME NEW c \in Clients,
              ReadHole(c) \/ ReadData(c) \/ ReadLayer(c) \/ ReadFind(c) \/ ReadFetch(c)
       PROVE  ValuesExact'
  <2>1. ReadMove(c)
    BY <1>31, ReadMoves DEF RInv
  <2> QED
    BY <1>6, <2>1
<1> QED
  BY <1>3, <1>4, <1>5, <1>6, <1>7, <1>8, <1>9, <1>10, <1>11, <1>12, <1>13,
     <1>14, <1>15, <1>16, <1>17, <1>18, <1>19, <1>20, <1>21, <1>22, <1>23,
     <1>24, <1>25, <1>26, <1>27, <1>28, <1>29, <1>30, <1>31
  DEF RNext, ReadStep, MergeStep, RunStep

\* A value in use is not given away, and freed only when no block leads to it.
LEMMA IndexSoundStep ==
    ASSUME RInv, [RNext]_rvars
    PROVE  IndexSound'
<1> USE FilesAssumption, BoundsAssumption
<1>1. /\ valueMap \in [1..MaxIv -> Files \cup {NoFile}]
      /\ rangeMap \in [Blocks -> 0..MaxIv]
      /\ rs \subseteq opened /\ opened \subseteq Files
      /\ ValuesExact
      /\ IndexSound
  BY DEF RInv, RTypeOK, FilesOK, ListsOK, IndexOK, SyncOK, FilesApart
<1>2. UNCHANGED <<rangeMap, valueMap, rs, opened>> => IndexSound'
  BY <1>1 DEF IndexSound
<1>3. ASSUME NEW b \in Blocks, WriteStart(b) PROVE IndexSound'
  BY <1>2, <1>3 DEF WriteStart
<1>4. ASSUME NEW b \in Blocks, WriteDo(b) PROVE IndexSound'
  BY <1>2, <1>4 DEF WriteDo
<1>5. ASSUME NEW c \in Clients, NEW b \in Blocks, ReadStart(c, b) PROVE IndexSound'
  BY <1>2, <1>5 DEF ReadStart
<1>6. ASSUME NEW c \in Clients, ReadMove(c) PROVE IndexSound'
  BY <1>2, <1>6 DEF ReadMove
<1>7. ASSUME NEW c \in Clients, ReadReturn(c) PROVE IndexSound'
  BY <1>2, <1>7 DEF ReadReturn
<1>8. ASSUME MergeCheck PROVE IndexSound'
  BY <1>2, <1>8 DEF MergeCheck
<1>9. ASSUME MergeAlloc PROVE IndexSound'
  <2>1. PICK iv \in 1..MaxIv :
            /\ valueMap[iv] = NoFile
            /\ valueMap' = [valueMap EXCEPT ![iv] = Head(mg.files)]
            /\ rs' = rs \cup {Head(mg.files)}
            /\ rangeMap' = rangeMap
    BY <1>9, Allocated DEF MergeAlloc
  <2>2. Head(mg.files) \in opened /\ Head(mg.files) \notin rs /\ opened' = opened
    <3>1. mg.files \in Seq(Files) /\ mg.files # <<>> /\ mg.pc = "alloc"
      BY <1>9 DEF MergeAlloc, RInv, RTypes, MergeType, ReadType
    <3>2. 1 \in DOMAIN mg.files /\ Head(mg.files) = mg.files[1]
      BY <3>1
    <3> QED
      BY <1>9, <3>1, <3>2 DEF MergeAlloc, RInv, MergeShape, FilesApart
  <2>3. valueMap'[iv] = Head(mg.files) /\ \A k \in 1..MaxIv : k # iv => valueMap'[k] = valueMap[k]
    BY <1>1, <2>1
  <2>4. \A k \in 1..MaxIv : valueMap[k] # Head(mg.files)
    BY <1>1, <2>2 DEF ValuesExact
  <2>5. ASSUME NEW f \in rs'
        PROVE  \E j \in 1..MaxIv : \A k \in 1..MaxIv : valueMap'[k] = f <=> k = j
    <3>1. CASE f = Head(mg.files)
      BY <2>3, <2>4, <3>1
    <3>2. CASE f # Head(mg.files)
      <4>1. f \in rs
        BY <2>1, <3>2
      <4>2. PICK j \in 1..MaxIv : \A k \in 1..MaxIv : valueMap[k] = f <=> k = j
        BY <1>1, <4>1 DEF IndexSound
      <4>3. j # iv
        BY <1>1, <2>1, <4>1, <4>2
      <4> QED
        BY <2>3, <3>2, <4>2, <4>3
    <3> QED
      BY <3>1, <3>2
  <2>6. ASSUME NEW b \in Blocks, rangeMap'[b] # 0 PROVE valueMap'[rangeMap'[b]] \in rs' \cap opened'
    <3>1. rangeMap[b] \in 1..MaxIv /\ valueMap[rangeMap[b]] \in rs \cap opened
      BY <1>1, <2>1, <2>6 DEF IndexSound
    <3>2. rangeMap[b] # iv
      BY <1>1, <2>1, <3>1
    <3> QED
      BY <2>1, <2>2, <2>3, <3>1, <3>2
  <2> QED
    BY <2>5, <2>6 DEF IndexSound
<1>10. ASSUME NEW b \in Blocks, MergeAdd(b) PROVE IndexSound'
  <2>1. Head(mg.files) \in rs
    <3>1. mg.files \in Seq(Files) /\ mg.files # <<>> /\ mg.pc = "add"
      BY <1>10 DEF MergeAdd, RInv, RTypes, MergeType, MergeShape
    <3>2. 1 \in DOMAIN mg.files /\ Head(mg.files) = mg.files[1]
      BY <3>1
    <3> QED
      BY <3>1, <3>2 DEF RInv, MergeShape
  <2>2. IvOf(Head(mg.files)) \in 1..MaxIv /\ valueMap[IvOf(Head(mg.files))] = Head(mg.files)
    BY <2>1, IvOfOnly DEF RInv
  <2>3. rangeMap' = [rangeMap EXCEPT ![b] = IvOf(Head(mg.files))] /\ UNCHANGED <<valueMap, rs, opened>>
    BY <1>10 DEF MergeAdd, AddBlock
  <2> QED
    BY <1>1, <2>1, <2>2, <2>3 DEF IndexSound
<1>11. ASSUME MergeNext PROVE IndexSound'
  BY <1>2, <1>11 DEF MergeNext
<1>12. ASSUME MergeDrop PROVE IndexSound'
  BY <1>2, <1>12 DEF MergeDrop
<1>13. ASSUME MergeWaited PROVE IndexSound'
  BY <1>2, <1>13 DEF MergeWaited, IdleMerge
<1>14. ASSUME NEW f \in Files, NEW bs \in SUBSET Blocks, OpenPushReader(f, bs) PROVE IndexSound'
  <2>1. opened \subseteq opened' /\ UNCHANGED <<rangeMap, valueMap, rs>>
    BY <1>14 DEF OpenPushReader
  <2> QED
    BY <1>1, <2>1 DEF IndexSound
<1>15. ASSUME NEW l \in Logs, PushWriter(l) PROVE IndexSound'
  <2>1. opened \subseteq opened' /\ UNCHANGED <<rangeMap, valueMap, rs>>
    BY <1>15 DEF PushWriter
  <2> QED
    BY <1>1, <2>1 DEF IndexSound
<1>16. ASSUME PushNewLog PROVE IndexSound'
  BY <1>2, <1>16 DEF PushNewLog
<1>17. ASSUME WritesDone PROVE IndexSound'
  BY <1>2, <1>17 DEF WritesDone
<1>18. ASSUME PushReader PROVE IndexSound'
  BY <1>2, <1>18 DEF PushReader, PushReaderList
<1>19. ASSUME RemoveWriter PROVE IndexSound'
  BY <1>2, <1>19 DEF RemoveWriter
<1>20. ASSUME RemoveWriterReturn PROVE IndexSound'
  BY <1>2, <1>20 DEF RemoveWriterReturn
<1>21. ASSUME StartCompaction PROVE IndexSound'
  BY <1>2, <1>21 DEF StartCompaction
<1>22. ASSUME NEW t \in Tables, NEW es \in SUBSET Tables, BuildTable(t, es) PROVE IndexSound'
  <2>1. opened \subseteq opened' /\ UNCHANGED <<rangeMap, valueMap, rs>>
    BY <1>22 DEF BuildTable
  <2> QED
    BY <1>1, <2>1 DEF IndexSound
<1>23. ASSUME CompactAlloc PROVE IndexSound'
  <2>1. PICK iv \in 1..MaxIv :
            /\ valueMap[iv] = NoFile
            /\ valueMap' = [valueMap EXCEPT ![iv] = run.file]
            /\ rs' = rs \cup {run.file}
            /\ rangeMap' = rangeMap
    BY <1>23, Allocated DEF CompactAlloc
  <2>2. run.file \in opened /\ run.file \notin rs /\ opened' = opened
    BY <1>23 DEF CompactAlloc, RInv, CompactionShape
  <2>3. valueMap'[iv] = run.file /\ \A k \in 1..MaxIv : k # iv => valueMap'[k] = valueMap[k]
    BY <1>1, <2>1
  <2>4. \A k \in 1..MaxIv : valueMap[k] # run.file
    BY <1>1, <2>2 DEF ValuesExact
  <2>5. ASSUME NEW f \in rs'
        PROVE  \E j \in 1..MaxIv : \A k \in 1..MaxIv : valueMap'[k] = f <=> k = j
    <3>1. CASE f = run.file
      BY <2>3, <2>4, <3>1
    <3>2. CASE f # run.file
      <4>1. f \in rs
        BY <2>1, <3>2
      <4>2. PICK j \in 1..MaxIv : \A k \in 1..MaxIv : valueMap[k] = f <=> k = j
        BY <1>1, <4>1 DEF IndexSound
      <4>3. j # iv
        BY <1>1, <2>1, <4>1, <4>2
      <4> QED
        BY <2>3, <3>2, <4>2, <4>3
    <3> QED
      BY <3>1, <3>2
  <2>6. ASSUME NEW b \in Blocks, rangeMap'[b] # 0 PROVE valueMap'[rangeMap'[b]] \in rs' \cap opened'
    <3>1. rangeMap[b] \in 1..MaxIv /\ valueMap[rangeMap[b]] \in rs \cap opened
      BY <1>1, <2>1, <2>6 DEF IndexSound
    <3>2. rangeMap[b] # iv
      BY <1>1, <2>1, <3>1
    <3> QED
      BY <2>1, <2>2, <2>3, <3>1, <3>2
  <2> QED
    BY <2>5, <2>6 DEF IndexSound
<1>24. ASSUME NEW b \in Blocks, CompactAdd(b) PROVE IndexSound'
  <2>1. run.file \in rs
    BY <1>24 DEF CompactAdd, RInv, CompactionShape
  <2>2. IvOf(run.file) \in 1..MaxIv /\ valueMap[IvOf(run.file)] = run.file
    BY <2>1, IvOfOnly DEF RInv
  <2>3. rangeMap' = [rangeMap EXCEPT ![b] = IvOf(run.file)] /\ UNCHANGED <<valueMap, rs, opened>>
    BY <1>24 DEF CompactAdd, AddBlock
  <2> QED
    BY <1>1, <2>1, <2>2, <2>3 DEF IndexSound
<1>25. ASSUME FindUnused PROVE IndexSound'
  BY <1>2, <1>25 DEF FindUnused
<1>26. ASSUME NEW f \in Files, RemoveUnusedBarrier(f) PROVE IndexSound'
  BY <1>2, <1>26 DEF RemoveUnusedBarrier
<1>27. ASSUME RemoveTable PROVE IndexSound'
  <2>1. run.file \in rs /\ Live(run.file) = {}
    BY <1>27 DEF RemoveTable, RInv, CompactionShape
  <2>2. /\ IvOf(run.file) \in 1..MaxIv /\ valueMap[IvOf(run.file)] = run.file
        /\ \A k \in 1..MaxIv : valueMap[k] = run.file => k = IvOf(run.file)
    BY <2>1, IvOfOnly DEF RInv
  <2>3. /\ valueMap' = [valueMap EXCEPT ![IvOf(run.file)] = NoFile]
        /\ rs' = rs \ {run.file} /\ UNCHANGED <<rangeMap, opened>>
    BY <1>27 DEF RemoveTable
  <2>4. \A k \in 1..MaxIv : valueMap'[k] = IF k = IvOf(run.file) THEN NoFile ELSE valueMap[k]
    BY <1>1, <2>3
  <2>5. ASSUME NEW b \in Blocks, rangeMap'[b] # 0 PROVE valueMap'[rangeMap'[b]] \in rs' \cap opened'
    <3>1. rangeMap[b] \in 1..MaxIv /\ valueMap[rangeMap[b]] \in rs \cap opened
      BY <1>1, <2>3, <2>5 DEF IndexSound
    <3>2. valueMap[rangeMap[b]] # run.file
      BY <2>1, <2>3, <2>5 DEF Live
    <3> QED
      BY <2>2, <2>3, <2>4, <3>1, <3>2
  <2>6. ASSUME NEW f \in rs'
        PROVE  \E j \in 1..MaxIv : \A k \in 1..MaxIv : valueMap'[k] = f <=> k = j
    <3>1. f \in rs /\ f # run.file /\ f # NoFile
      BY <1>1, <2>3
    <3>2. PICK j \in 1..MaxIv : \A k \in 1..MaxIv : valueMap[k] = f <=> k = j
      BY <1>1, <3>1 DEF IndexSound
    <3> QED
      BY <2>2, <2>4, <3>1, <3>2
  <2> QED
    BY <2>5, <2>6 DEF IndexSound
<1>28. ASSUME NEW f \in Files, CloseFile(f) PROVE IndexSound'
  <2>1. opened' = opened \ {f} /\ f \notin rs /\ UNCHANGED <<rangeMap, valueMap, rs>>
    BY <1>28 DEF CloseFile, RInv, CompactionShape
  <2> QED
    BY <1>1, <2>1 DEF IndexSound
<1>29. ASSUME CompactionDone PROVE IndexSound'
  BY <1>2, <1>29 DEF CompactionDone, IdleRun
<1>30. ASSUME UNCHANGED rvars PROVE IndexSound'
  BY <1>2, <1>30 DEF rvars
<1>31. ASSUME NEW c \in Clients,
              ReadHole(c) \/ ReadData(c) \/ ReadLayer(c) \/ ReadFind(c) \/ ReadFetch(c)
       PROVE  IndexSound'
  <2>1. ReadMove(c)
    BY <1>31, ReadMoves DEF RInv
  <2> QED
    BY <1>6, <2>1
<1> QED
  BY <1>3, <1>4, <1>5, <1>6, <1>7, <1>8, <1>9, <1>10, <1>11, <1>12, <1>13,
     <1>14, <1>15, <1>16, <1>17, <1>18, <1>19, <1>20, <1>21, <1>22, <1>23,
     <1>24, <1>25, <1>26, <1>27, <1>28, <1>29, <1>30, <1>31
  DEF RNext, ReadStep, MergeStep, RunStep

\* Readers are not pushed during a compaction, and it does not start before the
\* merge loop is through.
LEMMA IndexFrozenStep ==
    ASSUME RInv, [RNext]_rvars
    PROVE  IndexFrozen'
<1> USE FilesAssumption, BoundsAssumption
<1>1. /\ mg \in [pc : {"check", "alloc", "add", "wait"}, files : Seq(Files),
               todo : SUBSET Blocks, waitR : SUBSET Clients]
      /\ compaction \in BOOLEAN
      /\ IndexFrozen
      /\ MergeShape
      /\ compaction <=> run.pc \in InCompaction
      /\ run \in [pc : RunPcs, file : Files \cup {NoFile}, todo : SUBSET Blocks,
                unused : SUBSET Files, removed : SUBSET Files, waitR : SUBSET Clients]
  BY DEF RInv, RTypeOK, FilesOK, ListsOK, IndexOK, SyncOK, RTypes, RunType, MergeType, CompactionShape
<1>2. UNCHANGED <<compaction, pendingReaders, mg>> => IndexFrozen'
  BY <1>1 DEF IndexFrozen
<1>3. ASSUME NEW b \in Blocks, WriteStart(b) PROVE IndexFrozen'
  BY <1>2, <1>3 DEF WriteStart
<1>4. ASSUME NEW b \in Blocks, WriteDo(b) PROVE IndexFrozen'
  BY <1>2, <1>4 DEF WriteDo
<1>5. ASSUME NEW c \in Clients, NEW b \in Blocks, ReadStart(c, b) PROVE IndexFrozen'
  BY <1>2, <1>5 DEF ReadStart
<1>6. ASSUME NEW c \in Clients, ReadMove(c) PROVE IndexFrozen'
  BY <1>2, <1>6 DEF ReadMove
<1>7. ASSUME NEW c \in Clients, ReadReturn(c) PROVE IndexFrozen'
  BY <1>1, <1>7 DEF ReadReturn, IndexFrozen, MergeShape
<1>8. ASSUME MergeCheck PROVE IndexFrozen'
  BY <1>1, <1>8 DEF MergeCheck, IndexFrozen, MergeShape
<1>9. ASSUME MergeAlloc PROVE IndexFrozen'
  BY <1>1, <1>9 DEF MergeAlloc, FetchOrAddValueIndex, IndexFrozen, MergeShape
<1>10. ASSUME NEW b \in Blocks, MergeAdd(b) PROVE IndexFrozen'
  BY <1>1, <1>10 DEF MergeAdd, AddBlock, IndexFrozen, MergeShape
<1>11. ASSUME MergeNext PROVE IndexFrozen'
  BY <1>1, <1>11 DEF MergeNext, IndexFrozen, MergeShape
<1>12. ASSUME MergeDrop PROVE IndexFrozen'
  BY <1>1, <1>12 DEF MergeDrop, IndexFrozen, MergeShape
<1>13. ASSUME MergeWaited PROVE IndexFrozen'
  BY <1>1, <1>13 DEF MergeWaited, IdleMerge, IndexFrozen, MergeShape
<1>14. ASSUME NEW f \in Files, NEW bs \in SUBSET Blocks, OpenPushReader(f, bs) PROVE IndexFrozen'
  <2>1. ~compaction /\ UNCHANGED compaction
    BY <1>1, <1>14 DEF OpenPushReader, InCompaction
  <2> QED
    BY <2>1 DEF IndexFrozen
<1>15. ASSUME NEW l \in Logs, PushWriter(l) PROVE IndexFrozen'
  BY <1>2, <1>15 DEF PushWriter
<1>16. ASSUME PushNewLog PROVE IndexFrozen'
  BY <1>2, <1>16 DEF PushNewLog
<1>17. ASSUME WritesDone PROVE IndexFrozen'
  BY <1>2, <1>17 DEF WritesDone
<1>18. ASSUME PushReader PROVE IndexFrozen'
  <2>1. ~compaction /\ UNCHANGED compaction
    BY <1>1, <1>18 DEF PushReader, InCompaction
  <2> QED
    BY <2>1 DEF IndexFrozen
<1>19. ASSUME RemoveWriter PROVE IndexFrozen'
  BY <1>2, <1>19 DEF RemoveWriter
<1>20. ASSUME RemoveWriterReturn PROVE IndexFrozen'
  BY <1>2, <1>20 DEF RemoveWriterReturn
<1>21. ASSUME StartCompaction PROVE IndexFrozen'
  BY <1>1, <1>21 DEF StartCompaction, IndexFrozen, MergeShape
<1>22. ASSUME NEW t \in Tables, NEW es \in SUBSET Tables, BuildTable(t, es) PROVE IndexFrozen'
  BY <1>2, <1>22 DEF BuildTable
<1>23. ASSUME CompactAlloc PROVE IndexFrozen'
  BY <1>2, <1>23 DEF CompactAlloc, FetchOrAddValueIndex
<1>24. ASSUME NEW b \in Blocks, CompactAdd(b) PROVE IndexFrozen'
  BY <1>2, <1>24 DEF CompactAdd, AddBlock
<1>25. ASSUME FindUnused PROVE IndexFrozen'
  BY <1>2, <1>25 DEF FindUnused
<1>26. ASSUME NEW f \in Files, RemoveUnusedBarrier(f) PROVE IndexFrozen'
  BY <1>2, <1>26 DEF RemoveUnusedBarrier
<1>27. ASSUME RemoveTable PROVE IndexFrozen'
  BY <1>2, <1>27 DEF RemoveTable
<1>28. ASSUME NEW f \in Files, CloseFile(f) PROVE IndexFrozen'
  BY <1>2, <1>28 DEF CloseFile
<1>29. ASSUME CompactionDone PROVE IndexFrozen'
  BY <1>1, <1>29 DEF CompactionDone, IdleRun, IndexFrozen, MergeShape
<1>30. ASSUME UNCHANGED rvars PROVE IndexFrozen'
  BY <1>2, <1>30 DEF rvars
<1>31. ASSUME NEW c \in Clients,
              ReadHole(c) \/ ReadData(c) \/ ReadLayer(c) \/ ReadFind(c) \/ ReadFetch(c)
       PROVE  IndexFrozen'
  <2>1. ReadMove(c)
    BY <1>31, ReadMoves DEF RInv
  <2> QED
    BY <1>6, <2>1
<1> QED
  BY <1>3, <1>4, <1>5, <1>6, <1>7, <1>8, <1>9, <1>10, <1>11, <1>12, <1>13,
     <1>14, <1>15, <1>16, <1>17, <1>18, <1>19, <1>20, <1>21, <1>22, <1>23,
     <1>24, <1>25, <1>26, <1>27, <1>28, <1>29, <1>30, <1>31
  DEF RNext, ReadStep, MergeStep, RunStep

\* The files found unused stay so: nothing is added to the index any more.
LEMMA CompactionShapeStep ==
    ASSUME RInv, [RNext]_rvars
    PROVE  CompactionShape'
<1> USE FilesAssumption, BoundsAssumption
<1>1. /\ run \in [pc : RunPcs, file : Files \cup {NoFile}, todo : SUBSET Blocks,
                unused : SUBSET Files, removed : SUBSET Files, waitR : SUBSET Clients]
      /\ compaction \in BOOLEAN
      /\ rs \subseteq opened /\ opened \subseteq Files
      /\ active # NoFile => active \in opened \ rs
      /\ rangeMap \in [Blocks -> 0..MaxIv]
      /\ valueMap \in [1..MaxIv -> Files \cup {NoFile}]
      /\ CompactionShape
  BY DEF RInv, RTypeOK, FilesOK, ListsOK, IndexOK, SyncOK, RTypes, RunType, MergeType, FilesApart
<1>2. UNCHANGED <<compaction, run, opened, rs, active, rangeMap, valueMap>> => CompactionShape'
  BY <1>1 DEF CompactionShape, Live
<1>3. ASSUME NEW b \in Blocks, WriteStart(b) PROVE CompactionShape'
  BY <1>2, <1>3 DEF WriteStart
<1>4. ASSUME NEW b \in Blocks, WriteDo(b) PROVE CompactionShape'
  BY <1>2, <1>4 DEF WriteDo
<1>5. ASSUME NEW c \in Clients, NEW b \in Blocks, ReadStart(c, b) PROVE CompactionShape'
  BY <1>2, <1>5 DEF ReadStart
<1>6. ASSUME NEW c \in Clients, ReadMove(c) PROVE CompactionShape'
  BY <1>2, <1>6 DEF ReadMove
<1>7. ASSUME NEW c \in Clients, ReadReturn(c) PROVE CompactionShape'
  <2>1. /\ run'.pc = run.pc /\ run'.file = run.file
        /\ run'.unused = run.unused /\ run'.removed = run.removed
        /\ UNCHANGED <<compaction, opened, rs, active, rangeMap, valueMap>>
    BY <1>1, <1>7 DEF ReadReturn
  <2> QED
    BY <1>1, <2>1 DEF CompactionShape, Live
<1>8. ASSUME MergeCheck PROVE CompactionShape'
  BY <1>2, <1>8 DEF MergeCheck
<1>9. ASSUME MergeAlloc PROVE CompactionShape'
  <2>1. ~compaction /\ UNCHANGED <<compaction, run, opened, active>>
    BY <1>9 DEF MergeAlloc, RInv, IndexFrozen
  <2>2. run.unused = {} /\ run.removed = {}
    BY <1>1, <2>1 DEF CompactionShape, InCompaction
  <2> QED
    BY <1>1, <2>1, <2>2 DEF CompactionShape, InCompaction
<1>10. ASSUME NEW b \in Blocks, MergeAdd(b) PROVE CompactionShape'
  <2>1. ~compaction /\ UNCHANGED <<compaction, run, opened, active>>
    BY <1>10 DEF MergeAdd, RInv, IndexFrozen
  <2>2. run.unused = {} /\ run.removed = {}
    BY <1>1, <2>1 DEF CompactionShape, InCompaction
  <2> QED
    BY <1>1, <2>1, <2>2 DEF CompactionShape, InCompaction
<1>11. ASSUME MergeNext PROVE CompactionShape'
  BY <1>2, <1>11 DEF MergeNext
<1>12. ASSUME MergeDrop PROVE CompactionShape'
  BY <1>2, <1>12 DEF MergeDrop
<1>13. ASSUME MergeWaited PROVE CompactionShape'
  BY <1>2, <1>13 DEF MergeWaited, IdleMerge
<1>14. ASSUME NEW f \in Files, NEW bs \in SUBSET Blocks, OpenPushReader(f, bs) PROVE CompactionShape'
  <2>1. run.pc = "open" /\ UNCHANGED <<compaction, run>>
    BY <1>1, <1>14 DEF OpenPushReader
  <2>2. run.unused = {} /\ run.removed = {}
    BY <1>1, <2>1 DEF CompactionShape
  <2> QED
    BY <1>1, <2>1, <2>2 DEF CompactionShape, InCompaction
<1>15. ASSUME NEW l \in Logs, PushWriter(l) PROVE CompactionShape'
  <2>1. /\ run.pc \in {"open", "idle"}
        /\ run'.pc = "swap" /\ run'.unused = run.unused /\ run'.removed = run.removed
        /\ UNCHANGED compaction
    BY <1>1, <1>15 DEF PushWriter
  <2>2. run.unused = {} /\ run.removed = {}
    BY <1>1, <2>1 DEF CompactionShape
  <2> QED
    BY <1>1, <2>1, <2>2 DEF CompactionShape, InCompaction
<1>16. ASSUME PushNewLog PROVE CompactionShape'
  <2>1. /\ run.pc = "swap"
        /\ run'.pc \in {"idle", "await"} /\ run'.unused = run.unused /\ run'.removed = run.removed
        /\ UNCHANGED compaction
    BY <1>1, <1>16 DEF PushNewLog
  <2>2. run.unused = {} /\ run.removed = {}
    BY <1>1, <2>1 DEF CompactionShape
  <2> QED
    BY <1>1, <2>1, <2>2 DEF CompactionShape, InCompaction
<1>17. ASSUME WritesDone PROVE CompactionShape'
  <2>1. /\ run.pc = "await"
        /\ run'.pc = "pushReader" /\ run'.unused = run.unused /\ run'.removed = run.removed
        /\ UNCHANGED compaction
    BY <1>1, <1>17 DEF WritesDone
  <2>2. run.unused = {} /\ run.removed = {}
    BY <1>1, <2>1 DEF CompactionShape
  <2> QED
    BY <1>1, <2>1, <2>2 DEF CompactionShape, InCompaction
<1>18. ASSUME PushReader PROVE CompactionShape'
  <2>1. /\ run.pc = "pushReader"
        /\ run'.pc = "removeWriter" /\ run'.unused = run.unused /\ run'.removed = run.removed
        /\ UNCHANGED compaction
    BY <1>1, <1>18 DEF PushReader, PushReaderList
  <2>2. run.unused = {} /\ run.removed = {}
    BY <1>1, <2>1 DEF CompactionShape
  <2> QED
    BY <1>1, <2>1, <2>2 DEF CompactionShape, InCompaction
<1>19. ASSUME RemoveWriter PROVE CompactionShape'
  <2>1. /\ run.pc = "removeWriter"
        /\ run'.pc = "removeWait" /\ run'.unused = run.unused /\ run'.removed = run.removed
        /\ UNCHANGED compaction
    BY <1>1, <1>19 DEF RemoveWriter
  <2>2. run.unused = {} /\ run.removed = {}
    BY <1>1, <2>1 DEF CompactionShape
  <2> QED
    BY <1>1, <2>1, <2>2 DEF CompactionShape, InCompaction
<1>20. ASSUME RemoveWriterReturn PROVE CompactionShape'
  <2>1. /\ run.pc = "removeWait"
        /\ run'.pc = "start" /\ run'.unused = run.unused /\ run'.removed = run.removed
        /\ UNCHANGED compaction
    BY <1>1, <1>20 DEF RemoveWriterReturn
  <2>2. run.unused = {} /\ run.removed = {}
    BY <1>1, <2>1 DEF CompactionShape
  <2> QED
    BY <1>1, <2>1, <2>2 DEF CompactionShape, InCompaction
<1>21. ASSUME StartCompaction PROVE CompactionShape'
  <2>1. run.pc = "start" /\ run.unused = {} /\ run.removed = {}
    BY <1>1, <1>21 DEF StartCompaction, CompactionShape
  <2>2. CASE pendingReaders # <<>>
    <3>1. UNCHANGED <<compaction, run, opened, rs, active, rangeMap, valueMap>>
      BY <1>21, <2>2, Zenon DEF StartCompaction
    <3> QED
      BY <1>2, <3>1
  <2>3. CASE pendingReaders = <<>>
    <3>1. compaction' = TRUE /\ run' = [run EXCEPT !.pc = "build"]
      BY <1>21, <2>3, Zenon DEF StartCompaction
    <3>2. run'.pc = "build" /\ run'.unused = {} /\ run'.removed = {}
      BY <1>1, <2>1, <3>1
    <3> QED
      BY <3>1, <3>2 DEF CompactionShape, InCompaction
  <2> QED
    BY <2>2, <2>3
<1>22. ASSUME NEW t \in Tables, NEW es \in SUBSET Tables, BuildTable(t, es) PROVE CompactionShape'
  <2>1. run.pc = "build" /\ compaction /\ run.unused = {} /\ run.removed = {}
    BY <1>1, <1>22 DEF BuildTable, CompactionShape, InCompaction
  <2>2. /\ run'.pc = "alloc" /\ run'.file = t /\ run'.unused = run.unused
        /\ run'.removed = run.removed /\ opened' = opened \cup {t} /\ t \notin opened
        /\ UNCHANGED <<compaction, rs, active>>
    BY <1>1, <1>22 DEF BuildTable
  <2>3. t # active
    <3>1. t # NoFile
      BY DEF Files
    <3> QED
      BY <1>1, <2>2, <3>1
  <2> QED
    BY <1>1, <2>1, <2>2, <2>3 DEF CompactionShape, InCompaction
<1>23. ASSUME CompactAlloc PROVE CompactionShape'
  <2>1. run.pc = "alloc" /\ compaction /\ run.unused = {} /\ run.removed = {}
    BY <1>1, <1>23 DEF CompactAlloc, CompactionShape, InCompaction
  <2>2. /\ run'.pc = "add" /\ run'.file = run.file /\ run'.unused = run.unused
        /\ run'.removed = run.removed /\ rs' = rs \cup {run.file}
        /\ UNCHANGED compaction
    BY <1>1, <1>23 DEF CompactAlloc, FetchOrAddValueIndex
  <2> QED
    BY <1>1, <2>1, <2>2 DEF CompactionShape, InCompaction
<1>24. ASSUME NEW b \in Blocks, CompactAdd(b) PROVE CompactionShape'
  <2>1. run.pc = "add" /\ run.unused = {} /\ run.removed = {}
    BY <1>1, <1>24 DEF CompactAdd, CompactionShape, InCompaction
  <2>2. /\ run'.pc = run.pc /\ run'.file = run.file /\ run'.unused = run.unused
        /\ run'.removed = run.removed /\ UNCHANGED <<compaction, rs>>
    BY <1>1, <1>24 DEF CompactAdd, AddBlock
  <2> QED
    BY <1>1, <2>1, <2>2 DEF CompactionShape, InCompaction
<1>25. ASSUME FindUnused PROVE CompactionShape'
  <2>1. run.pc = "add" /\ compaction /\ run.removed = {}
    BY <1>1, <1>25 DEF FindUnused, CompactionShape, InCompaction
  <2>2. /\ run'.pc = "unused" /\ run'.unused = {f \in rs : Live(f) = {}}
        /\ run'.removed = run.removed
        /\ UNCHANGED <<compaction, rs, active, rangeMap, valueMap>>
    BY <1>1, <1>25 DEF FindUnused
  <2>3. \A f : Live(f)' = Live(f)
    BY <2>2 DEF Live
  <2> QED
    BY <1>1, <2>1, <2>2, <2>3 DEF CompactionShape, InCompaction
<1>26. ASSUME NEW f \in Files, RemoveUnusedBarrier(f) PROVE CompactionShape'
  <2>1. run.pc = "unused" /\ compaction /\ f \in run.unused
    BY <1>1, <1>26 DEF RemoveUnusedBarrier, CompactionShape, InCompaction
  <2>2. /\ run'.pc = "barrier" /\ run'.file = f /\ run'.unused = run.unused
        /\ run'.removed = run.removed
        /\ UNCHANGED <<compaction, rs, active, rangeMap, valueMap>>
    BY <1>1, <1>26 DEF RemoveUnusedBarrier
  <2>3. \A g : Live(g)' = Live(g)
    BY <2>2 DEF Live
  <2> QED
    BY <1>1, <2>1, <2>2, <2>3 DEF CompactionShape, InCompaction
<1>27. ASSUME RemoveTable PROVE CompactionShape'
  <2>1. run.pc = "barrier" /\ compaction /\ run.file \in run.unused /\ run.file \in rs
    BY <1>1, <1>27 DEF RemoveTable, CompactionShape, InCompaction
  <2>2. /\ run'.pc = "unused" /\ run'.unused = run.unused \ {run.file}
        /\ run'.removed = run.removed \cup {run.file} /\ rs' = rs \ {run.file}
        /\ valueMap' = [valueMap EXCEPT ![IvOf(run.file)] = NoFile]
        /\ UNCHANGED <<compaction, active, rangeMap>>
    BY <1>1, <1>27 DEF RemoveTable
  <2>3. \A k \in 1..MaxIv : valueMap'[k] = valueMap[k] \/ valueMap'[k] = NoFile
    BY <1>1, <2>2
  <2>4. ASSUME NEW f \in run.unused PROVE Live(f)' = {}
    <3>1. f \in Files /\ f # NoFile /\ Live(f) = {}
      BY <1>1 DEF CompactionShape
    <3> QED
      BY <1>1, <2>2, <2>3, <3>1 DEF Live
  <2>5. run.file # active
    BY <1>1, <2>1
  <2> QED
    BY <1>1, <2>1, <2>2, <2>4, <2>5 DEF CompactionShape, InCompaction
<1>28. ASSUME NEW f \in Files, CloseFile(f) PROVE CompactionShape'
  <2>1. run.pc = "unused" /\ compaction
    BY <1>1, <1>28 DEF CloseFile, CompactionShape, InCompaction
  <2>2. /\ run'.pc = "unused" /\ run'.unused = run.unused /\ run'.removed \subseteq run.removed
        /\ UNCHANGED <<compaction, rs, active, rangeMap, valueMap>>
    BY <1>1, <1>28 DEF CloseFile
  <2>3. \A g : Live(g)' = Live(g)
    BY <2>2 DEF Live
  <2> QED
    BY <1>1, <2>1, <2>2, <2>3 DEF CompactionShape, InCompaction
<1>29. ASSUME CompactionDone PROVE CompactionShape'
  <2>1. /\ run'.pc = "idle" /\ run'.unused = {} /\ run'.removed = {}
        /\ compaction' = FALSE
    BY <1>29 DEF CompactionDone, IdleRun
  <2> QED
    BY <2>1 DEF CompactionShape, InCompaction
<1>30. ASSUME UNCHANGED rvars PROVE CompactionShape'
  BY <1>2, <1>30 DEF rvars
<1>31. ASSUME NEW c \in Clients,
              ReadHole(c) \/ ReadData(c) \/ ReadLayer(c) \/ ReadFind(c) \/ ReadFetch(c)
       PROVE  CompactionShape'
  <2>1. ReadMove(c)
    BY <1>31, ReadMoves DEF RInv
  <2> QED
    BY <1>6, <2>1
<1> QED
  BY <1>3, <1>4, <1>5, <1>6, <1>7, <1>8, <1>9, <1>10, <1>11, <1>12, <1>13,
     <1>14, <1>15, <1>16, <1>17, <1>18, <1>19, <1>20, <1>21, <1>22, <1>23,
     <1>24, <1>25, <1>26, <1>27, <1>28, <1>29, <1>30, <1>31
  DEF RNext, ReadStep, MergeStep, RunStep

\* A new read captures open files only; a read that finds a file in the index
\* finds a live one; the barrier lets the others end first.
LEMMA ReadsHeldStep ==
    ASSUME RInv, [RNext]_rvars
    PROVE  ReadsHeld'
<1> USE FilesAssumption, BoundsAssumption
<1>1. /\ run \in [pc : RunPcs, file : Files \cup {NoFile}, todo : SUBSET Blocks,
                unused : SUBSET Files, removed : SUBSET Files, waitR : SUBSET Clients]
      /\ rs \subseteq opened /\ opened \subseteq Files
      /\ ReadsHeld
      /\ UNCHANGED rd => /\ ActiveReads' = ActiveReads
                         /\ \A c \in Clients, f \in Files : Using(c, f)' = Using(c, f)
      /\ ActiveReads \subseteq Clients
  BY DEF RInv, RTypeOK, FilesOK, ListsOK, IndexOK, SyncOK, RTypes, RunType, MergeType, FilesApart, ActiveReads, Using, StackFiles
<1>2. UNCHANGED <<opened, run, rd>> => ReadsHeld'
  BY <1>1 DEF ReadsHeld
<1>3. ASSUME NEW b \in Blocks, WriteStart(b) PROVE ReadsHeld'
  BY <1>2, <1>3 DEF WriteStart
<1>4. ASSUME NEW b \in Blocks, WriteDo(b) PROVE ReadsHeld'
  BY <1>2, <1>4 DEF WriteDo
<1>5. ASSUME NEW c \in Clients, NEW b \in Blocks, ReadStart(c, b) PROVE ReadsHeld'
  <2>1. /\ rd[c].pc = "idle" /\ UNCHANGED <<opened, run>>
        /\ DOMAIN rd = Clients
        /\ rd' = [rd EXCEPT ![c] = [IdleRead EXCEPT !.pc = "hole", !.stack = readerStack, !.b = b,
                                                    !.lo = cur[b]]]
    BY <1>5 DEF ReadStart, RInv, RTypes, MergeType, ReadType
  <2>2. /\ rd'[c].pc = "hole" /\ rd'[c].stack = readerStack
        /\ \A d \in Clients : d # c => rd'[d] = rd[d]
    BY <2>1 DEF IdleRead
  <2>3. ASSUME NEW d \in ActiveReads', NEW f \in Files, Using(d, f)', d # c
        PROVE  d \in ActiveReads /\ Using(d, f)
    BY <2>2, <2>3 DEF ActiveReads, Using, StackFiles
  <2>4. ASSUME NEW f \in Files, Using(c, f)'
        PROVE  f \in opened \ run.removed /\ ~(run.pc = "barrier" /\ f = run.file)
    <3>1. PICK i \in DOMAIN readerStack : f = readerStack[i]
      BY <2>2, <2>4 DEF Using, StackFiles
    <3>2. \/ active # NoFile /\ f = active
          \/ run.pc \in {"swap"} \cup InRotation /\ f = run.file
          \/ f \in PendingFiles
      BY <3>1, Captured DEF RInv
    <3>3. f \in opened
      BY <3>2 DEF RInv, FilesApart, InRotation
    <3>4. CASE compaction
      <4>1. PendingFiles = {} /\ run.pc \notin {"swap"} \cup InRotation
        BY <3>4 DEF RInv, IndexFrozen, PendingFiles, CompactionShape, InCompaction, InRotation
      <4>2. f = active /\ active # NoFile
        BY <3>2, <4>1
      <4>3. f \notin rs /\ f \notin run.removed
        BY <4>2 DEF RInv, FilesApart, CompactionShape
      <4> QED
        BY <3>3, <4>3 DEF RInv, CompactionShape
    <3>5. CASE ~compaction
      <4>1. run.removed = {} /\ run.pc # "barrier"
        BY <3>5 DEF RInv, CompactionShape, InCompaction
      <4> QED
        BY <3>3, <4>1
    <3> QED
      BY <3>4, <3>5
  <2> QED
    BY <1>1, <2>1, <2>3, <2>4 DEF ReadsHeld
<1>6. ASSUME NEW c \in Clients, ReadMove(c) PROVE ReadsHeld'
  <2>1. /\ rd[c].pc # "idle" /\ rd'[c].stack = rd[c].stack /\ UNCHANGED <<opened, run>>
        /\ rd'[c].pc = "fetch" => /\ rangeMap[rd[c].b] # 0
                                  /\ rd'[c].br = valueMap[rangeMap[rd[c].b]]
        /\ \A d \in Clients : d # c => rd'[d] = rd[d]
    BY <1>6 DEF ReadMove
  <2>2. ASSUME NEW d \in ActiveReads', NEW f \in Files, Using(d, f)', d # c
        PROVE  d \in ActiveReads /\ Using(d, f)
    BY <2>1, <2>2 DEF ActiveReads, Using, StackFiles
  <2>3. ASSUME NEW f \in Files, Using(c, f)'
        PROVE  /\ f \in opened \ run.removed
               /\ (run.pc = "barrier" /\ f = run.file) => c \in run.waitR
    <3>1. CASE f \in StackFiles(c)
      BY <1>1, <2>1, <3>1 DEF ReadsHeld, Using, ActiveReads
    <3>2. CASE rd'[c].pc = "fetch" /\ rd'[c].br = f
      <4>1. rd[c].b \in Blocks /\ rangeMap[rd[c].b] # 0 /\ f = valueMap[rangeMap[rd[c].b]]
        BY <2>1, <3>2 DEF RInv, RTypes, MergeType, ReadType
      <4>2. f \in rs \cap opened /\ Live(f) # {}
        BY <4>1 DEF RInv, IndexSound, Live
      <4>3. f \notin run.removed /\ f \notin run.unused
        BY <4>2 DEF RInv, CompactionShape
      <4> QED
        BY <4>2, <4>3 DEF RInv, CompactionShape
    <3> QED
      BY <2>1, <2>3, <3>1, <3>2 DEF Using, StackFiles
  <2> QED
    BY <1>1, <2>1, <2>2, <2>3 DEF ReadsHeld
<1>7. ASSUME NEW c \in Clients, ReadReturn(c) PROVE ReadsHeld'
  <2>1. DOMAIN rd = Clients /\ rd' = [rd EXCEPT ![c] = IdleRead] /\ UNCHANGED opened
    BY <1>7 DEF ReadReturn, RInv, RTypes, MergeType, ReadType
  <2>2. /\ run'.pc = run.pc /\ run'.file = run.file /\ run'.removed = run.removed
        /\ run'.waitR = run.waitR \ {c}
    BY <1>1, <1>7 DEF ReadReturn
  <2>3. rd'[c].pc = "idle" /\ \A d \in Clients : d # c => rd'[d] = rd[d]
    BY <2>1 DEF IdleRead
  <2>4. ASSUME NEW d \in ActiveReads', NEW f \in Files, Using(d, f)'
        PROVE  d # c /\ d \in ActiveReads /\ Using(d, f)
    BY <2>3, <2>4 DEF ActiveReads, Using, StackFiles
  <2> QED
    BY <1>1, <2>1, <2>2, <2>4 DEF ReadsHeld
<1>8. ASSUME MergeCheck PROVE ReadsHeld'
  BY <1>2, <1>8 DEF MergeCheck
<1>9. ASSUME MergeAlloc PROVE ReadsHeld'
  BY <1>2, <1>9 DEF MergeAlloc, FetchOrAddValueIndex
<1>10. ASSUME NEW b \in Blocks, MergeAdd(b) PROVE ReadsHeld'
  BY <1>2, <1>10 DEF MergeAdd, AddBlock
<1>11. ASSUME MergeNext PROVE ReadsHeld'
  BY <1>2, <1>11 DEF MergeNext
<1>12. ASSUME MergeDrop PROVE ReadsHeld'
  BY <1>2, <1>12 DEF MergeDrop
<1>13. ASSUME MergeWaited PROVE ReadsHeld'
  BY <1>2, <1>13 DEF MergeWaited, IdleMerge
<1>14. ASSUME NEW f \in Files, NEW bs \in SUBSET Blocks, OpenPushReader(f, bs) PROVE ReadsHeld'
  <2>1. opened \subseteq opened' /\ UNCHANGED <<run, rd>>
    BY <1>14 DEF OpenPushReader
  <2> QED
    BY <1>1, <2>1 DEF ReadsHeld
<1>15. ASSUME NEW l \in Logs, PushWriter(l) PROVE ReadsHeld'
  <2>1. /\ run'.pc = "swap" /\ run'.removed = run.removed
        /\ opened \subseteq opened' /\ UNCHANGED rd
    BY <1>1, <1>15 DEF PushWriter
  <2> QED
    BY <1>1, <2>1 DEF ReadsHeld
<1>16. ASSUME PushNewLog PROVE ReadsHeld'
  <2>1. /\ run'.pc \in {"idle", "await"} /\ run'.removed = run.removed
        /\ opened \subseteq opened' /\ UNCHANGED rd
    BY <1>1, <1>16 DEF PushNewLog
  <2> QED
    BY <1>1, <2>1 DEF ReadsHeld
<1>17. ASSUME WritesDone PROVE ReadsHeld'
  <2>1. /\ run'.pc = "pushReader" /\ run'.removed = run.removed
        /\ opened \subseteq opened' /\ UNCHANGED rd
    BY <1>1, <1>17 DEF WritesDone
  <2> QED
    BY <1>1, <2>1 DEF ReadsHeld
<1>18. ASSUME PushReader PROVE ReadsHeld'
  <2>1. /\ run'.pc = "removeWriter" /\ run'.removed = run.removed
        /\ opened \subseteq opened' /\ UNCHANGED rd
    BY <1>1, <1>18 DEF PushReader, PushReaderList
  <2> QED
    BY <1>1, <2>1 DEF ReadsHeld
<1>19. ASSUME RemoveWriter PROVE ReadsHeld'
  <2>1. /\ run'.pc = "removeWait" /\ run'.removed = run.removed
        /\ opened \subseteq opened' /\ UNCHANGED rd
    BY <1>1, <1>19 DEF RemoveWriter
  <2> QED
    BY <1>1, <2>1 DEF ReadsHeld
<1>20. ASSUME RemoveWriterReturn PROVE ReadsHeld'
  <2>1. /\ run'.pc = "start" /\ run'.removed = run.removed
        /\ opened \subseteq opened' /\ UNCHANGED rd
    BY <1>1, <1>20 DEF RemoveWriterReturn
  <2> QED
    BY <1>1, <2>1 DEF ReadsHeld
<1>21. ASSUME StartCompaction PROVE ReadsHeld'
  <2>1. run.pc = "start" /\ (UNCHANGED run \/ run' = [run EXCEPT !.pc = "build"])
        /\ UNCHANGED <<opened, rd>>
    BY <1>21, Zenon DEF StartCompaction
  <2>2. run'.pc # "barrier" /\ run'.removed = run.removed
    BY <1>1, <2>1
  <2> QED
    BY <1>1, <2>1, <2>2 DEF ReadsHeld
<1>22. ASSUME NEW t \in Tables, NEW es \in SUBSET Tables, BuildTable(t, es) PROVE ReadsHeld'
  <2>1. /\ run'.pc = "alloc" /\ run'.removed = run.removed
        /\ opened \subseteq opened' /\ UNCHANGED rd
    BY <1>1, <1>22 DEF BuildTable
  <2> QED
    BY <1>1, <2>1 DEF ReadsHeld
<1>23. ASSUME CompactAlloc PROVE ReadsHeld'
  <2>1. /\ run'.pc = "add" /\ run'.removed = run.removed
        /\ opened \subseteq opened' /\ UNCHANGED rd
    BY <1>1, <1>23 DEF CompactAlloc, FetchOrAddValueIndex
  <2> QED
    BY <1>1, <2>1 DEF ReadsHeld
<1>24. ASSUME NEW b \in Blocks, CompactAdd(b) PROVE ReadsHeld'
  <2>1. /\ run'.pc # "barrier" /\ run'.removed = run.removed
        /\ opened \subseteq opened' /\ UNCHANGED rd
    BY <1>1, <1>24 DEF CompactAdd, AddBlock
  <2> QED
    BY <1>1, <2>1 DEF ReadsHeld
<1>25. ASSUME FindUnused PROVE ReadsHeld'
  <2>1. /\ run'.pc = "unused" /\ run'.removed = run.removed
        /\ opened \subseteq opened' /\ UNCHANGED rd
    BY <1>1, <1>25 DEF FindUnused
  <2> QED
    BY <1>1, <2>1 DEF ReadsHeld
<1>26. ASSUME NEW f \in Files, RemoveUnusedBarrier(f) PROVE ReadsHeld'
  <2>1. run'.removed = run.removed /\ run'.waitR = ActiveReads /\ UNCHANGED <<opened, rd>>
    BY <1>1, <1>26 DEF RemoveUnusedBarrier
  <2> QED
    BY <1>1, <2>1 DEF ReadsHeld
<1>27. ASSUME RemoveTable PROVE ReadsHeld'
  <2>1. /\ run.pc = "barrier" /\ run.waitR = {} /\ run'.pc = "unused"
        /\ run'.removed = run.removed \cup {run.file} /\ UNCHANGED <<opened, rd>>
    BY <1>1, <1>27 DEF RemoveTable
  <2> QED
    BY <1>1, <2>1 DEF ReadsHeld
<1>28. ASSUME NEW f \in Files, CloseFile(f) PROVE ReadsHeld'
  <2>1. /\ f \in run.removed /\ run'.pc = "unused"
        /\ run'.removed = run.removed \ {f} /\ opened' = opened \ {f} /\ UNCHANGED rd
    BY <1>1, <1>28 DEF CloseFile
  <2> QED
    BY <1>1, <2>1 DEF ReadsHeld
<1>29. ASSUME CompactionDone PROVE ReadsHeld'
  <2>1. run'.pc = "idle" /\ run'.removed = {} /\ UNCHANGED <<opened, rd>>
    BY <1>29 DEF CompactionDone, IdleRun
  <2> QED
    BY <1>1, <2>1 DEF ReadsHeld
<1>30. ASSUME UNCHANGED rvars PROVE ReadsHeld'
  BY <1>2, <1>30 DEF rvars
<1>31. ASSUME NEW c \in Clients,
              ReadHole(c) \/ ReadData(c) \/ ReadLayer(c) \/ ReadFind(c) \/ ReadFetch(c)
       PROVE  ReadsHeld'
  <2>1. ReadMove(c)
    BY <1>31, ReadMoves DEF RInv
  <2> QED
    BY <1>6, <2>1
<1> QED
  BY <1>3, <1>4, <1>5, <1>6, <1>7, <1>8, <1>9, <1>10, <1>11, <1>12, <1>13,
     <1>14, <1>15, <1>16, <1>17, <1>18, <1>19, <1>20, <1>21, <1>22, <1>23,
     <1>24, <1>25, <1>26, <1>27, <1>28, <1>29, <1>30, <1>31
  DEF RNext, ReadStep, MergeStep, RunStep

\* The invariant holds initially.
LEMMA RInitInv == RInit => RInv
<1> SUFFICES ASSUME RInit PROVE RInv
  OBVIOUS
<1> USE FilesAssumption, BoundsAssumption
<1>1. PendingFiles = {} /\ PendingDistinct
  BY DEF RInit, PendingFiles, PendingDistinct
<1>2. ActiveReads = {}
  BY DEF RInit, ActiveReads, IdleRead
<1>3. Hole \in [Blocks -> 0..MaxVersion] /\ Hole \in [Blocks -> 0..MaxIv]
  BY DEF Hole
<1>4. FilesOK /\ IndexOK /\ SyncOK
  BY <1>3 DEF RInit, FilesOK, IndexOK, SyncOK
<1>5. ListsOK
  <2>1. <<>> \in Seq(Logs) /\ <<>> \in Seq(Files) /\ <<>> = <<>> \o <<>>
    OBVIOUS
  <2> QED
    BY <2>1 DEF RInit, ListsOK
<1>6. MergeType
  BY DEF RInit, IdleMerge, MergeType
<1>7. RunType /\ run.pc = "open" /\ run.unused = {} /\ run.removed = {}
  BY DEF RInit, IdleRun, RunType, RunPcs
<1>8. ReadType /\ StacksOK
  <2>1. <<>> \in Seq(Files) /\ 1 \in 1..(Len(<<>>) + 1)
    OBVIOUS
  <2> QED
    BY <2>1 DEF RInit, IdleRead, ReadType, StacksOK, ReadPcs
<1>9. WaitsOK
  BY <1>6, <1>7 DEF WaitsOK, MergeType, RunType
<1>10. RoomLeft /\ WritesHeld
  BY DEF RInit, RoomLeft, WritesHeld
<1>11. WritersShape
  BY <1>7 DEF RInit, WritersShape, InRotation
<1>12. FilesApart
  BY <1>1, <1>7 DEF RInit, FilesApart
<1>13. MergeShape
  BY <1>1 DEF RInit, IdleMerge, MergeShape
<1>14. ValuesExact
  BY DEF RInit, ValuesExact
<1>15. IndexSound
  BY DEF RInit, Hole, IndexSound
<1>16. IndexFrozen
  BY DEF RInit, IndexFrozen
<1>17. CompactionShape
  BY <1>7 DEF RInit, CompactionShape, InCompaction
<1>18. ReadsHeld
  BY <1>2 DEF ReadsHeld
<1> QED
  BY <1>4, <1>5, <1>6, <1>7, <1>8, <1>9, <1>10, <1>11, <1>12, <1>13, <1>14, <1>15, <1>16,
     <1>17, <1>18 DEF RInv, RTypeOK, RTypes

\* Every step preserves it.
LEMMA RStepInv == RInv /\ [RNext]_rvars => RInv'
  BY TypesStep, WritersShapeStep, WritesHeldStep, FilesApartStep, MergeShapeStep,
     ValuesExactStep, IndexSoundStep, IndexFrozenStep, CompactionShapeStep, ReadsHeldStep
  DEF RInv

\* The invariant holds in every reachable state.
THEOREM RInvariant == RSafeSpec => []RInv
  BY RInitInv, RStepInv, PTL DEF RSafeSpec

-----------------------------------------------------------------------------
(* What it is for *)

\* The tracker, the index and the goroutines keep their types; a read stays
\* within the stack that ReadBlocks captured.
THEOREM RTypeCorrect == RSafeSpec => []RTypeOK
<1>1. RInv => RTypeOK
  BY DEF RInv
<1> QED
  BY <1>1, RInvariant, PTL

\* No read uses, or can still come to use, a file that removeUnusedTables has
\* closed, however many reads, merges, rotations and compactions overlap.
THEOREM ClosedUnread == RSafeSpec => []NoReadOfClosed
<1>1. RInv => NoReadOfClosed
  <2> SUFFICES ASSUME RInv, NEW c \in ActiveReads
               PROVE  /\ \A i \in rd[c].pos..Len(rd[c].stack) : rd[c].stack[i] \in opened
                      /\ rd[c].pc = "fetch" => rd[c].br \in opened
    BY DEF NoReadOfClosed
  <2>1. c \in Clients /\ StacksOK /\ ReadsHeld
    BY DEF RInv, RTypeOK, ActiveReads
  <2>2. ASSUME NEW i \in rd[c].pos..Len(rd[c].stack) PROVE rd[c].stack[i] \in opened
    <3>1. i \in DOMAIN rd[c].stack /\ rd[c].stack[i] \in Files
      BY <2>1 DEF StacksOK
    <3>2. Using(c, rd[c].stack[i])
      BY <3>1 DEF Using, StackFiles
    <3> QED
      BY <2>1, <3>1, <3>2 DEF ReadsHeld
  <2>3. ASSUME rd[c].pc = "fetch" PROVE rd[c].br \in opened
    BY <2>1, <2>3 DEF ReadsHeld, Using, StacksOK
  <2> QED
    BY <2>2, <2>3
<1> QED
  BY <1>1, RInvariant, PTL

\* No block of the index leads to a value that PopValue has freed or to a closed
\* file, and the values of the pushed files are one to one.
THEOREM IndexCorrect == RSafeSpec => []IndexSound
<1>1. RInv => IndexSound
  BY DEF RInv
<1> QED
  BY <1>1, RInvariant, PTL

\* While a compaction runs nothing is pending and the merge loop adds nothing.
THEOREM FrozenCorrect == RSafeSpec => []IndexFrozen
<1>1. RInv => IndexFrozen
  BY DEF RInv
<1> QED
  BY <1>1, RInvariant, PTL
=============================================================================
