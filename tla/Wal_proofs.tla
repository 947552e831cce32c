----------------------------- MODULE Wal_proofs -----------------------------
(***************************************************************************)
(* Proofs about wal/writer.go and wal/reader.go, for any number of         *)
(* writers, addresses, writes, failed writes and reads: the running log    *)
(* reads back what was written, in the order of the file; a reader that    *)
(* overlaps writes returns values the addresses had; and a log that was    *)
(* cut off or damaged anywhere recovers to exactly the entries before the  *)
(* damage.                                                                 *)
(*                                                                         *)
(* The inductive invariant says where in the file the entries lie (Layout, *)
(* up to the first half-written one they are contiguous, so that the loop  *)
(* of NewReader finds each), which of them the index has (Matches), and    *)
(* which entry a WriteAt between its two locks has written (Calls).  After *)
(* a crash the file is a damaged form of such a file (Damaged).            *)
(***************************************************************************)
EXTENDS Wal, SequenceTheorems, FiniteSetTheorems, WellFoundedInduction, TLAPS

-----------------------------------------------------------------------------
(* The inductive invariant *)

Lens == 1..(MaxAddr + 1)
Bytes == Nat \X Nat
Entries == {e \in [id : Nat, off : Addrs, len : Lens, at : Nat] : e.off + e.len - 1 <= MaxAddr}
End(e) == e.at + entryHeaderSize + e.len
Pos(i) == IF i = 0 THEN entryHeaderSize ELSE End(hist[i])

PayCells == [k : {"offset"}, off : Addrs] \cup [k : {"data"}, id : Nat, addr : Addrs]
IndexCells == [k : {"index"}, off : Addrs, len : Lens, logOffset : Nat]
BaseCells == [k : {"base"}, type : {"data", "footer"}, len : Nat, crc : Seq(PayCells)]
EndCells == [k : {"end"}, size : Nat, crc : Seq(IndexCells)]
Cells == [k : {"magic", "header", "torn", "lost"}] \cup PayCells \cup IndexCells
           \cup BaseCells \cup EndCells
BodyKinds == {"magic", "header", "base", "offset", "data"}

\* Entry e is in the file g at its place.
Base(e) == [k |-> "base", type |-> "data", len |-> e.len, crc |-> Payload(e.id, e)]
DataCell(id, a) == [k |-> "data", id |-> id, addr |-> a]
Placed(g, e) ==
    /\ g[e.at + 1] = Base(e)
    /\ g[e.at + 2] = [k |-> "offset", off |-> e.off]
    /\ \A a \in Addrs : Covers(e, a) => g[e.at + 3 + (a - e.off)] = DataCell(e.id, a)

\* Entry i was written before any write failed half-way.
Sound(i) == broken = 0 \/ hist[i].at < broken

\* These are the first s entries, which follow each other from the header on,
\* up to the first half-written one or to the end, z.
SoundTo(s, z) ==
    /\ \A i \in DOMAIN hist : i <= s <=> Sound(i)
    /\ \A i \in 1..s : hist[i].at = Pos(i - 1)
    /\ broken # 0 => broken = Pos(s) + 1 /\ broken <= z
    /\ broken = 0 /\ header = "ok" => z = Pos(s)

\* A half-written entry: the base of one whose last cells are missing.
Partial(g, z) ==
    \E e \in Entries : \E j \in 1..(e.len + 1) :
        /\ g[broken] = Base(e)
        /\ broken + j <= z + 1
        /\ broken + j <= z => g[broken + j].k = "base"

\* The first z cells of g are the header and the entries.
Layout(g, z) ==
    /\ g \in Seq(Cells) /\ z \in 0..Len(g)
    /\ \A j \in 1..z : g[j].k \in BodyKinds
    /\ header = "ok" => z >= 2 /\ g[1] = Header[1] /\ g[2] = Header[2]
    /\ header = "failed" => z <= 1 /\ (z = 1 => g[1] = Header[1])
    /\ header = "none" => z = 0
    /\ header # "ok" => hist = <<>> /\ broken = 0
    /\ \A i \in DOMAIN hist : End(hist[i]) <= z /\ Placed(g, hist[i])
    /\ \E s \in 0..Len(hist) : SoundTo(s, z)
    /\ broken # 0 => Partial(g, z)

\* What follows them, if anything, is the footer for idx.
Footed(g, z, idx) ==
    z < Len(g) =>
        /\ Len(g) = z + Len(Footer(idx))
        /\ \A j \in 1..Len(Footer(idx)) : g[z + j] = Footer(idx)[j]

\* Entry i is the last of the first n that covers a.
LastOf(i, n, a) ==
    /\ i \in 1..n /\ Covers(hist[i], a)
    /\ \A j \in (i + 1)..n : ~Covers(hist[j], a)

\* idx is the index of the first n entries (with the wrong place in the file
\* for those after a half-written one).
Matches(idx, n) ==
    /\ idx \in [Addrs -> Records \cup {NoRec}]
    /\ \A a \in Addrs :
          /\ (\A i \in 1..n : ~Covers(hist[i], a)) => idx[a] = NoRec
          /\ \A i \in 1..n : LastOf(i, n, a) =>
                /\ idx[a] \in Records
                /\ idx[a].off = hist[i].off /\ idx[a].len = hist[i].len
                /\ Sound(i) => idx[a].logOffset = hist[i].at + entryHeaderSize

Held(lock) == IF lock = NoThread THEN 0 ELSE 1
Done == Len(hist) - Held(writeLock) - Held(indexLock)
EntryOf(t) == IF wr[t].pc = "logged" THEN Len(hist) ELSE Len(hist) - Held(writeLock)

\* A WriteAt that has written, and not yet updated the index, wrote the last
\* entry; or the last but one, if another has written since.
Calls ==
    \A t \in Writers :
        /\ wr[t].pc # "idle" => /\ header = "ok"
                                /\ wr[t].len >= 1 /\ wr[t].off + wr[t].len - 1 <= MaxAddr
        /\ wr[t].pc \in {"logged", "indexing"} =>
              /\ EntryOf(t) \in DOMAIN hist
              /\ hist[EntryOf(t)].id = wr[t].id
              /\ hist[EntryOf(t)].off = wr[t].off /\ hist[EntryOf(t)].len = wr[t].len
              /\ Sound(EntryOf(t)) => wr[t].logOffset = hist[EntryOf(t)].at + entryHeaderSize

WrType ==
    wr \in [Writers -> [pc : {"idle", "start", "logged", "indexing"}, id : Nat, off : Addrs,
                        len : 0..(MaxAddr + 1), logOffset : Nat]]

\* Nobody is writing once the log is closing, nor updating the index once it
\* is closed.
CloseOrder ==
    /\ closing # "open" => writeLock = NoThread
    /\ closing = "closed" => indexLock = NoThread
    /\ header = "none" => closing = "open"

RunningFile ==
    \E z \in 0..Len(file) :
        /\ Layout(file, z) /\ Footed(file, z, index)
        /\ closing = "closed" <=> z < Len(file)
        /\ broken = 0 /\ closing # "closed" => offset = z

\* A read: what it has so far, and what it is about to read without the lock,
\* are values the addresses had since it began.
ReadCalls ==
    [pc : {"idle", "lookup", "io", "done"}, first : Nat, end : 0..(MaxAddr + 1), off : Nat,
     rec : Records \cup {NoRec}, n : Nat, buf : Seq(Bytes), seen : [Addrs -> SUBSET Bytes]]
RdType == rd \in ReadCalls
Reading ==
    broken = 0 =>
        /\ \A i \in 1..Len(rd.buf) : /\ rd.first + i - 1 \in Addrs
                                     /\ rd.buf[i] \in rd.seen[rd.first + i - 1]
        /\ rd.pc \in {"lookup", "io"} =>
              /\ rd.off = rd.first + Len(rd.buf)
              /\ rd.off <= rd.end
              /\ \A a \in Addrs : Expected(a, Done) \in rd.seen[a]
        /\ rd.pc = "io" =>
              /\ rd.off + rd.n <= rd.end
              /\ \A i \in 1..rd.n :
                    /\ LogOff(rd.rec, rd.off + i - 1) + 1 \in DOMAIN file
                    /\ ReadCell(rd.rec, rd.off + i - 1) \in rd.seen[rd.off + i - 1]

\* What a crash leaves of g.
CutAt(g, f, n, torn, lost) ==
    /\ n \in 0..Len(g) /\ torn \in BOOLEAN /\ lost \in 0..Len(g)
    /\ torn => n < Len(g)
    /\ lost <= n /\ lost # 2 /\ (lost > 0 => broken = 0)
    /\ f \in Seq(Cells)
    /\ Len(f) = n + (IF torn THEN 1 ELSE 0)
    /\ \A i \in 1..n : f[i] = IF i = lost THEN [k |-> "lost"] ELSE g[i]
    /\ torn => f[n + 1] = [k |-> "torn"]
Wreck(g, z, idx, n, torn, lost) ==
    /\ Layout(g, z) /\ Footed(g, z, idx)
    /\ z < Len(g) => Matches(idx, Len(hist))
    /\ header = "none" => z = Len(g)
    /\ CutAt(g, file, n, torn, lost)
Damaged == \E g, z, idx, n, torn, lost : Wreck(g, z, idx, n, torn, lost)

Types ==
    /\ offset \in Nat /\ closing \in {"open", "closing", "closed"}
    /\ header \in {"none", "ok", "failed"}
    /\ hist \in Seq(Entries) /\ broken \in Nat
    /\ WrType /\ RdType
    /\ writeLock \in Writers \cup {NoThread} /\ indexLock \in Writers \cup {NoThread}
    /\ \A t \in Writers : /\ writeLock = t <=> wr[t].pc = "logged"
                          /\ indexLock = t <=> wr[t].pc = "indexing"
    /\ tries \in 0..MaxWrites /\ failures \in 0..MaxFailures /\ reads \in 0..MaxReads

\* The running log.
RunInv ==
    /\ reader = NotOpened
    /\ Calls /\ CloseOrder /\ RunningFile /\ Matches(index, Done) /\ Reading

WalInv ==
    /\ Types
    /\ Running => RunInv
    /\ ~Running => /\ rd = NoRead /\ index = EmptyIndex
                   /\ Damaged
                   /\ \/ reader = [NotOpened EXCEPT !.state = "down"]
                      \/ reader = NewWriteLogFromReader(file)

-----------------------------------------------------------------------------
(* Least and greatest numbers *)

\* Every nonempty set of numbers has a least one.
LEMMA LeastNat ==
    ASSUME NEW T \in SUBSET Nat, T # {}
    PROVE  \E n \in T : \A m \in T : n <= m
<1> DEFINE R == {ss \in Nat \X Nat : ss[1] < ss[2]}
<1>1. IsWellFoundedOn(R, Nat)
  BY NatLessThanWellFounded DEF OpToRel
<1>2. PICK n \in T : \A m \in T : ~ (<<m, n>> \in R)
  BY <1>1, WFMin
<1>3. \A m \in T : ~(m < n)
  BY <1>2
<1> QED
  BY <1>3

LEMMA MinOfSet ==
    ASSUME NEW T \in SUBSET Nat, T # {}
    PROVE  Min(T) \in T /\ \A m \in T : Min(T) <= m
<1>1. \E n \in T : \A m \in T : n <= m
  BY LeastNat
<1> QED
  BY <1>1 DEF Min

LEMMA MaxOfBounded ==
    ASSUME NEW T \in SUBSET Nat, T # {}, NEW n \in Nat, \A m \in T : m <= n
    PROVE  Max(T) \in T /\ \A m \in T : m <= Max(T)
<1> DEFINE U == {n - m : m \in T}
<1>1. U \in SUBSET Nat /\ U # {}
  <2>1. \A m \in T : n - m \in Nat
    OBVIOUS
  <2> QED
    BY <2>1
<1>2. PICK k \in U : \A m \in U : k <= m
  BY <1>1, LeastNat
<1>3. PICK x \in T : k = n - x
  OBVIOUS
<1>4. \A m \in T : x >= m
  <2> SUFFICES ASSUME NEW m \in T PROVE x >= m
    OBVIOUS
  <2>1. n - m \in U
    OBVIOUS
  <2>2. n - x <= n - m
    BY <1>2, <1>3, <2>1
  <2> QED
    BY <2>2
<1>5. \E y \in T : \A m \in T : y >= m
  BY <1>4
<1>6. Max(T) \in T /\ \A m \in T : Max(T) >= m
  BY <1>5 DEF Max
<1> QED
  BY <1>6

\* The greatest element, when it is known.
LEMMA MaxIs ==
    ASSUME NEW T \in SUBSET Nat, NEW x \in T, \A m \in T : m <= x
    PROVE  Max(T) = x
<1>1. Max(T) \in T /\ \A m \in T : m <= Max(T)
  BY MaxOfBounded
<1>2. x <= Max(T) /\ Max(T) <= x /\ x \in Nat /\ Max(T) \in Nat
  BY <1>1
<1> QED
  BY <1>2

-----------------------------------------------------------------------------
(* Adding records to an index *)

\* it is the fold behind AddAll.
Folded(recs, it) ==
    it = [s \in SUBSET DOMAIN recs |->
            IF s = {} THEN EmptyIndex ELSE Add(it[s \ {Max(s)}], recs[Max(s)])]

LEMMA AddAllUnfold ==
    ASSUME NEW recs
    PROVE  AddAll(recs) = (CHOOSE it : Folded(recs, it))[DOMAIN recs]
  BY DEF AddAll, FoldLeft, MapThenFoldSet, Folded

\* The fold is well defined: what it gives for sets of numbers up to n it gives
\* from smaller sets.
FoldedTo(recs, it, n) ==
    \A s \in SUBSET (1..n) :
        it[s] = IF s = {} THEN EmptyIndex ELSE Add(it[s \ {Max(s)}], recs[Max(s)])

LEMMA MaxOfPart ==
    ASSUME NEW n \in Nat, NEW s \in SUBSET (1..n), s # {}
    PROVE  Max(s) \in s /\ \A m \in s : m <= Max(s)
  BY MaxOfBounded

LEMMA FoldedExists ==
    ASSUME NEW S, NEW recs \in Seq(S)
    PROVE  \E it : Folded(recs, it)
<1> DEFINE Bad == {n \in Nat : ~ \E it : FoldedTo(recs, it, n)}
<1>1. Bad = {}
  <2> SUFFICES ASSUME Bad # {} PROVE FALSE
    OBVIOUS
  <2>1. PICK n \in Bad : \A m \in Bad : n <= m
    BY LeastNat
  <2>2. n # 0
    <3>1. FoldedTo(recs, [s \in {{}} |-> EmptyIndex], 0)
      BY DEF FoldedTo
    <3> QED
      BY <3>1
  <2>3. n - 1 \in Nat /\ n - 1 \notin Bad
    BY <2>1, <2>2
  <2>4. PICK it : FoldedTo(recs, it, n - 1)
    BY <2>3
  <2> DEFINE jt == [s \in SUBSET (1..n) |->
                     IF n \in s THEN Add(it[s \ {n}], recs[n]) ELSE it[s]]
  <2>5. ASSUME NEW s \in SUBSET (1..n)
        PROVE  jt[s] = IF s = {} THEN EmptyIndex ELSE Add(jt[s \ {Max(s)}], recs[Max(s)])
    <3>1. jt[s] = IF n \in s THEN Add(it[s \ {n}], recs[n]) ELSE it[s]
      OBVIOUS
    <3>2. CASE n \in s
      <4>1. Max(s) = n
        BY <3>2, MaxIs
      <4>2. s \ {n} \in SUBSET (1..n) /\ n \notin s \ {n}
        OBVIOUS
      <4>3. jt[s \ {n}] = it[s \ {n}]
        BY <4>2
      <4> HIDE DEF jt
      <4> QED
        BY <3>1, <3>2, <4>1, <4>3
    <3>3. CASE n \notin s
      <4>1. s \in SUBSET (1..(n - 1))
        BY <3>3, <2>3
      <4>2. CASE s = {}
        BY <2>4, <3>1, <3>3, <4>1, <4>2 DEF FoldedTo
      <4>3. CASE s # {}
        <5>1. s \ {Max(s)} \in SUBSET (1..n) /\ n \notin s \ {Max(s)}
          BY <3>3
        <5>2. jt[s \ {Max(s)}] = it[s \ {Max(s)}]
          BY <5>1
        <5>3. it[s] = Add(it[s \ {Max(s)}], recs[Max(s)])
          BY <2>4, <4>1, <4>3 DEF FoldedTo
        <5> HIDE DEF jt
        <5> QED
          BY <3>1, <3>3, <4>3, <5>2, <5>3
      <4> QED
        BY <4>2, <4>3
    <3> QED
      BY <3>2, <3>3
  <2>6. FoldedTo(recs, jt, n)
    <3> HIDE DEF jt
    <3> QED
      BY <2>5 DEF FoldedTo
  <2> QED
    BY <2>6
<1>2. Len(recs) \in Nat /\ DOMAIN recs = 1..Len(recs)
  OBVIOUS
<1>3. PICK it : FoldedTo(recs, it, Len(recs))
  BY <1>1, <1>2
<1> DEFINE jt == [s \in SUBSET DOMAIN recs |-> it[s]]
<1>4. ASSUME NEW s \in SUBSET DOMAIN recs
      PROVE  jt[s] = IF s = {} THEN EmptyIndex ELSE Add(jt[s \ {Max(s)}], recs[Max(s)])
  <2>1. jt[s] = it[s] /\ jt[s \ {Max(s)}] = it[s \ {Max(s)}]
    OBVIOUS
  <2> QED
    BY <1>2, <1>3, <2>1 DEF FoldedTo
<1>5. Folded(recs, jt)
  <2>1. jt = [s \in SUBSET DOMAIN recs |-> jt[s]]
    OBVIOUS
  <2> HIDE DEF jt
  <2> QED
    BY <1>4, <2>1 DEF Folded
<1> QED
  BY <1>5

\* AddAll step by step: the index after the first m records, for each m.
LEMMA AddAllSteps ==
    ASSUME NEW S, NEW recs \in Seq(S)
    PROVE  \E h : /\ h[0] = EmptyIndex
                  /\ \A m \in 1..Len(recs) : h[m] = Add(h[m - 1], recs[m])
                  /\ AddAll(recs) = h[Len(recs)]
<1> DEFINE it == CHOOSE it : Folded(recs, it)
<1>1. Folded(recs, it)
  BY FoldedExists
<1>2. AddAll(recs) = it[DOMAIN recs]
  BY AddAllUnfold
<1> HIDE DEF it
<1> DEFINE h == [m \in 0..Len(recs) |-> it[1..m]]
<1>3. Len(recs) \in Nat /\ DOMAIN recs = 1..Len(recs)
  OBVIOUS
<1>4. h[0] = EmptyIndex
  <2>1. 1..0 = {} /\ {} \in SUBSET DOMAIN recs
    OBVIOUS
  <2> QED
    BY <1>1, <1>3, <2>1 DEF Folded
<1>5. ASSUME NEW m \in 1..Len(recs) PROVE h[m] = Add(h[m - 1], recs[m])
  <2>1. m \in 1..m /\ 1..m \in SUBSET DOMAIN recs
    BY <1>3
  <2>2. Max(1..m) = m
    BY <2>1, MaxIs
  <2>3. (1..m) \ {m} = 1..(m - 1)
    OBVIOUS
  <2>4. it[1..m] = Add(it[(1..m) \ {Max(1..m)}], recs[Max(1..m)])
    BY <1>1, <2>1 DEF Folded
  <2> QED
    BY <2>2, <2>3, <2>4
<1>6. AddAll(recs) = h[Len(recs)]
  BY <1>2, <1>3
<1> HIDE DEF h
<1> QED
  BY <1>4, <1>5, <1>6

\* After adding records in turn, an address has the last one that covers it.
LEMMA AddAllIs ==
    ASSUME NEW S, NEW recs \in Seq(S)
    PROVE  /\ AddAll(recs) = [a \in Addrs |-> AddAll(recs)[a]]
           /\ \A a \in Addrs :
                /\ (\A i \in 1..Len(recs) : ~Covers(recs[i], a)) => AddAll(recs)[a] = NoRec
                /\ \A i \in 1..Len(recs) :
                      Covers(recs[i], a) /\ (\A j \in (i + 1)..Len(recs) : ~Covers(recs[j], a))
                        => AddAll(recs)[a] = recs[i]
<1>1. PICK h : /\ h[0] = EmptyIndex
               /\ \A m \in 1..Len(recs) : h[m] = Add(h[m - 1], recs[m])
               /\ AddAll(recs) = h[Len(recs)]
  BY AddAllSteps
<1>2. Len(recs) \in Nat
  OBVIOUS
<1>3. \A m \in 0..Len(recs) : h[m] = [a \in Addrs |-> h[m][a]]
  <2> SUFFICES ASSUME NEW m \in 0..Len(recs) PROVE h[m] = [a \in Addrs |-> h[m][a]]
    OBVIOUS
  <2>1. CASE m = 0
    BY <1>1, <2>1 DEF EmptyIndex
  <2>2. CASE m # 0
    <3>1. h[m] = Add(h[m - 1], recs[m])
      BY <1>1, <1>2, <2>2
    <3> QED
      BY <3>1 DEF Add
  <2> QED
    BY <2>1, <2>2
<1>4. ASSUME NEW a \in Addrs, NEW i \in 0..Len(recs), NEW v,
             i = 0 => v = NoRec,
             i # 0 => Covers(recs[i], a) /\ v = recs[i],
             \A j \in (i + 1)..Len(recs) : ~Covers(recs[j], a)
      PROVE  h[Len(recs)][a] = v
  <2> DEFINE Bad == {m \in Nat : m \in i..Len(recs) /\ h[m][a] # v}
  <2>1. Bad = {}
    <3> SUFFICES ASSUME Bad # {} PROVE FALSE
      OBVIOUS
    <3>1. PICK m \in Bad : \A l \in Bad : m <= l
      BY LeastNat
    <3>2. m # i
      <4>1. CASE i = 0
        BY <1>1, <1>4, <4>1, <3>1 DEF EmptyIndex
      <4>2. CASE i # 0
        <5>1. h[i] = Add(h[i - 1], recs[i])
          BY <1>1, <1>2, <4>2
        <5> QED
          BY <1>4, <3>1, <4>2, <5>1 DEF Add
      <4> QED
        BY <4>1, <4>2
    <3>3. m - 1 \in i..Len(recs) /\ m - 1 \in Nat /\ m \in (i + 1)..Len(recs) /\ m \in 1..Len(recs)
      BY <1>2, <3>1, <3>2
    <3>4. h[m - 1][a] = v
      BY <3>1, <3>3
    <3>5. h[m] = Add(h[m - 1], recs[m]) /\ ~Covers(recs[m], a)
      BY <1>1, <1>4, <3>3
    <3>6. h[m][a] = v
      BY <3>4, <3>5 DEF Add
    <3> QED
      BY <3>1, <3>6
  <2>2. Len(recs) \in i..Len(recs)
    BY <1>2
  <2> QED
    BY <1>2, <2>1, <2>2
<1>5. ASSUME NEW a \in Addrs, \A i \in 1..Len(recs) : ~Covers(recs[i], a)
      PROVE  h[Len(recs)][a] = NoRec
  <2>1. 0 \in 0..Len(recs) /\ 0 + 1 = 1
    BY <1>2
  <2> QED
    BY <1>4, <1>5, <2>1
<1>6. ASSUME NEW a \in Addrs, NEW i \in 1..Len(recs), Covers(recs[i], a),
             \A j \in (i + 1)..Len(recs) : ~Covers(recs[j], a)
      PROVE  h[Len(recs)][a] = recs[i]
  <2>1. i \in 0..Len(recs) /\ i # 0
    BY <1>2
  <2> QED
    BY <1>4, <1>6, <2>1
<1> QED
  BY <1>1, <1>2, <1>3, <1>5, <1>6

-----------------------------------------------------------------------------
(* The loop of NewReader *)

\* An entry the loop accepts lies in the file as a whole.
LEMMA Accepted ==
    ASSUME NEW f \in Seq(Cells), NEW p \in 1..(Len(f) + 1), readEntry(f, p) = "more"
    PROVE  /\ p \in 1..Len(f) /\ f[p].k = "base" /\ f[p].type # "footer" /\ f[p].len \in Nat
           /\ p + 1 + f[p].len <= Len(f)
           /\ Whole(f, p + 1 + f[p].len)
           /\ SubSeq(f, p + 1, p + 1 + f[p].len) = f[p].crc
<1>1. p \in 1..Len(f) /\ p <= Len(f)
  BY DEF readEntry
<1>2. /\ f[p].k = "base" /\ f[p].type # "footer"
      /\ Whole(f, p + 1 + f[p].len)
      /\ SubSeq(f, p + 1, p + 1 + f[p].len) = f[p].crc
  BY <1>1 DEF readEntry
<1>3. f[p] \in Cells
  BY <1>1
<1>4. f[p].len \in Nat
  BY <1>2, <1>3 DEF Cells, PayCells, IndexCells, BaseCells, EndCells
<1> QED
  BY <1>1, <1>2, <1>4 DEF Whole

Loaded(f, start, ld) ==
    ld = [p \in start..(Len(f) + 1) |->
            IF readEntry(f, p) # "more"
            THEN [err |-> readEntry(f, p), at |-> <<>>]
            ELSE [err |-> ld[p + 2 + f[p].len].err,
                  at |-> <<p>> \o ld[p + 2 + f[p].len].at]]

LEMMA LoadLoopUnfold ==
    ASSUME NEW f, NEW start
    PROVE  LoadLoop(f, start) = (CHOOSE ld : Loaded(f, start, ld))[start]
  BY DEF LoadLoop, Loaded

\* The entry after the one at p starts further on, and not beyond the end of
\* the file.
LEMMA PositionAfter ==
    ASSUME NEW lo \in Nat, NEW p \in Nat, NEW l \in Nat, NEW end \in Nat,
           lo <= p, p + 1 + l <= end
    PROVE  p + 2 + l \in lo..(end + 1) /\ p + 2 + l # lo
  OBVIOUS

\* The loop ends.
LEMMA LoadedExists ==
    ASSUME NEW f \in Seq(Cells), NEW start \in 1..(Len(f) + 1)
    PROVE  \E ld : Loaded(f, start, ld)
<1> DEFINE N == Len(f) + 1
           Bad == {n \in Nat : n <= N - start /\ ~ \E ld : Loaded(f, N - n, ld)}
<1>1. N \in Nat /\ start \in 1..N
  OBVIOUS
<1> SUFFICES ASSUME Bad # {} PROVE FALSE
  <2> SUFFICES ASSUME Bad = {} PROVE \E ld : Loaded(f, start, ld)
    OBVIOUS
  <2>1. N - start \in Nat /\ N - (N - start) = start
    BY <1>1
  <2>2. \E ld : Loaded(f, N - (N - start), ld)
    <3> HIDE DEF N
    <3> QED
      BY <2>1
  <2> HIDE DEF N
  <2> QED
    BY <2>1, <2>2
<1>2. PICK n \in Bad : \A m \in Bad : n <= m
  BY LeastNat
<1>3. PICK ld : n # 0 => Loaded(f, N - (n - 1), ld)
  <2>1. CASE n = 0
    BY <2>1
  <2>2. CASE n # 0
    <3>1. n \in Nat /\ n <= N - start
      BY <1>2
    <3>2. n - 1 \in Nat /\ n - 1 <= N - start /\ ~(n <= n - 1)
      BY <1>1, <2>2, <3>1
    <3>3. n - 1 \notin Bad
      <4> HIDE DEF Bad
      <4> QED
        BY <1>2, <3>2
    <3> QED
      BY <3>2, <3>3
  <2> QED
    BY <2>1, <2>2
<1> DEFINE lo == N - n
           Turn(p, g) == IF readEntry(f, p) # "more"
                         THEN [err |-> readEntry(f, p), at |-> <<>>]
                         ELSE [err |-> g[p + 2 + f[p].len].err,
                               at |-> <<p>> \o g[p + 2 + f[p].len].at]
           ne == [p \in lo..N |-> IF p = lo THEN Turn(p, ld) ELSE ld[p]]
<1>4. lo \in 1..N /\ lo - 1 \in Nat
  BY <1>1, <1>2
<1>5. ASSUME NEW p \in lo..N PROVE ne[p] = Turn(p, ne)
  <2>1. p \in 1..(Len(f) + 1) /\ p \in Nat
    BY <1>1, <1>4
  <2>2. ne[p] = Turn(p, ld)
    <3>1. CASE p = lo
      BY <3>1
    <3>2. CASE p # lo
      <4>1. n # 0 /\ p \in (N - (n - 1))..N
        BY <1>1, <1>2, <1>4, <2>1, <3>2
      <4>2. ld = [q \in (N - (n - 1))..N |-> Turn(q, ld)]
        BY <1>3, <4>1 DEF Loaded
      <4>3. ld[p] = Turn(p, ld)
        <5> HIDE DEF Turn, N
        <5> QED
          BY <4>1, <4>2
      <4>4. ne[p] = ld[p]
        BY <3>2
      <4> QED
        BY <4>3, <4>4
    <3> QED
      BY <3>1, <3>2
  <2>3. CASE readEntry(f, p) # "more"
    BY <2>2, <2>3
  <2>4. CASE readEntry(f, p) = "more"
    <3>1. f[p].len \in Nat /\ p + 1 + f[p].len <= Len(f)
      BY <2>1, <2>4, Accepted
    <3>2. p + 2 + f[p].len \in lo..N /\ p + 2 + f[p].len # lo
      <4>1. lo \in Nat /\ lo <= p /\ p \in Nat /\ Len(f) \in Nat
        BY <1>1, <1>4, <2>1
      <4> HIDE DEF lo
      <4> QED
        BY <3>1, <4>1, PositionAfter
    <3>3. ne[p + 2 + f[p].len] = ld[p + 2 + f[p].len]
      <4> HIDE DEF lo, N, Turn
      <4> QED
        BY <3>2
    <3> HIDE DEF ne
    <3> QED
      BY <2>2, <3>3
  <2> QED
    BY <2>3, <2>4
<1>6. Loaded(f, N - n, ne)
  <2>1. ne = [p \in lo..N |-> ne[p]]
    OBVIOUS
  <2> HIDE DEF ne
  <2>2. ne = [p \in lo..N |-> Turn(p, ne)]
    BY <1>5, <2>1
  <2> QED
    BY <2>2 DEF Loaded
<1> QED
  BY <1>2, <1>6

\* Where the entries at P[0], ..., P[n - 1] are accepted, each followed by the
\* next, and the one at P[n] is not, these are the entries the loop returns.
LEMMA LoopIs ==
    ASSUME NEW f \in Seq(Cells), NEW start \in 1..(Len(f) + 1), NEW n \in Nat,
           NEW P \in [0..n -> start..(Len(f) + 1)], P[0] = start,
           \A i \in 0..(n - 1) : readEntry(f, P[i]) = "more" /\ P[i + 1] = P[i] + 2 + f[P[i]].len,
           readEntry(f, P[n]) # "more"
    PROVE  LoadLoop(f, start) = [err |-> readEntry(f, P[n]), at |-> [j \in 1..n |-> P[j - 1]]]
<1> DEFINE ld == CHOOSE ld : Loaded(f, start, ld)
<1>1. Loaded(f, start, ld)
  BY LoadedExists
<1>2. LoadLoop(f, start) = ld[start]
  BY LoadLoopUnfold
<1> HIDE DEF ld
<1> DEFINE At(m) == [j \in 1..m |-> P[n - m + j - 1]]
           Bad == {m \in Nat : m <= n /\ ld[P[n - m]] # [err |-> readEntry(f, P[n]), at |-> At(m)]}
<1>3. Bad = {}
  <2> SUFFICES ASSUME Bad # {} PROVE FALSE
    OBVIOUS
  <2>1. PICK m \in Bad : \A l \in Bad : m <= l
    BY LeastNat
  <2>2. n - m \in 0..n /\ P[n - m] \in start..(Len(f) + 1)
    BY <2>1
  <2> DEFINE p == P[n - m]
  <2>3. ld[p] = IF readEntry(f, p) # "more"
                THEN [err |-> readEntry(f, p), at |-> <<>>]
                ELSE [err |-> ld[p + 2 + f[p].len].err,
                      at |-> <<p>> \o ld[p + 2 + f[p].len].at]
    BY <1>1, <2>2 DEF Loaded
  <2>4. CASE m = 0
    <3>1. n - m = n /\ At(m) = <<>>
      BY <2>4
    <3> QED
      BY <2>1, <2>3, <3>1
  <2>5. CASE m # 0
    <3>1. n - m \in 0..(n - 1) /\ m - 1 \in Nat /\ m - 1 <= n /\ n - (m - 1) = n - m + 1
      BY <2>1, <2>5
    <3>2. readEntry(f, p) = "more" /\ P[n - (m - 1)] = p + 2 + f[p].len
      <4>1. \A i \in 0..(n - 1) : readEntry(f, P[i]) = "more" /\ P[i + 1] = P[i] + 2 + f[P[i]].len
        OBVIOUS
      <4>2. readEntry(f, P[n - m]) = "more" /\ P[n - m + 1] = P[n - m] + 2 + f[P[n - m]].len
        BY <3>1, <4>1
      <4> QED
        BY <3>1, <4>2
    <3>3. ld[P[n - (m - 1)]] = [err |-> readEntry(f, P[n]), at |-> At(m - 1)]
      <4>1. m \in Nat /\ ~(m <= m - 1)
        BY <2>1
      <4>2. m - 1 \notin Bad
        <5> HIDE DEF Bad
        <5> QED
          BY <2>1, <4>1
      <4> QED
        BY <3>1, <4>2
    <3>4. ld[p] = [err |-> readEntry(f, P[n]), at |-> <<p>> \o At(m - 1)]
      <4> HIDE DEF p, At
      <4> QED
        BY <2>3, <3>2, <3>3
    <3>5. <<p>> \o At(m - 1) = At(m)
      <4>1. start..(Len(f) + 1) \in SUBSET Nat
        OBVIOUS
      <4>2. At(m - 1) \in Seq(Nat) /\ Len(At(m - 1)) = m - 1
        <5>1. \A j \in 1..(m - 1) : P[n - (m - 1) + j - 1] \in Nat
          BY <2>1, <3>1, <4>1
        <5> QED
          BY <3>1, <5>1
      <4>3. At(m) \in Seq(Nat) /\ Len(At(m)) = m
        <5>1. \A j \in 1..m : n - m + j - 1 \in 0..n
          BY <2>1, <3>1
        <5>2. \A j \in 1..m : P[n - m + j - 1] \in Nat
          <6>1. \A i \in 0..n : P[i] \in Nat
            BY <4>1
          <6> QED
            BY <5>1, <6>1
        <5>3. m \in Nat
          BY <2>1
        <5>4. At(m) \in Seq(Nat)
          <6>1. At(m) \in [1..m -> Nat]
            BY <5>2
          <6> HIDE DEF At
          <6> QED
            BY <5>3, <6>1, SeqDef
        <5>5. Len(At(m)) = m
          BY <5>3
        <5> QED
          BY <5>4, <5>5
      <4>4. <<p>> \in Seq(Nat) /\ Len(<<p>>) = 1 /\ <<p>>[1] = p
        BY <2>2, <4>1
      <4>5. ASSUME NEW j \in 1..m PROVE (<<p>> \o At(m - 1))[j] = At(m)[j]
        <5>1. CASE j = 1
          BY <3>1, <4>2, <4>4, <5>1
        <5>2. CASE j # 1
          <6>1. (<<p>> \o At(m - 1))[j] = At(m - 1)[j - 1]
            <7> HIDE DEF At, p
            <7> QED
              BY <3>1, <4>2, <4>4, <5>2
          <6>2. j - 1 \in 1..(m - 1) /\ n - (m - 1) + (j - 1) - 1 = n - m + j - 1
            BY <3>1, <5>2
          <6> QED
            BY <6>1, <6>2
        <5> QED
          BY <5>1, <5>2
      <4>6. <<p>> \o At(m - 1) \in Seq(Nat) /\ Len(<<p>> \o At(m - 1)) = m
        <5> HIDE DEF At, p
        <5>1. <<p>> \o At(m - 1) \in Seq(Nat)
          BY <4>2, <4>4, ConcatProperties
        <5>2. Len(<<p>> \o At(m - 1)) = Len(<<p>>) + Len(At(m - 1))
          BY <4>2, <4>4, ConcatProperties
        <5>3. 1 + (m - 1) = m
          BY <2>1
        <5>4. Len(<<p>> \o At(m - 1)) = 1 + (m - 1)
          BY <4>2, <4>4, <5>2, Zenon
        <5> QED
          BY <5>1, <5>3, <5>4, Zenon
      <4> HIDE DEF At, p
      <4> QED
        BY <4>3, <4>5, <4>6, SeqEqual
    <3> QED
      BY <2>1, <3>4, <3>5
  <2> QED
    BY <2>4, <2>5
<1>4. ld[P[n - n]] = [err |-> readEntry(f, P[n]), at |-> At(n)]
  <2>1. n \in Nat /\ n <= n
    OBVIOUS
  <2>2. n \notin Bad
    <3> HIDE DEF Bad
    <3> QED
      BY <1>3
  <2> HIDE DEF At
  <2> QED
    BY <2>1, <2>2
<1>5. n - n = 0 /\ At(n) = [j \in 1..n |-> P[j - 1]]
  <2>1. \A j \in 1..n : n - n + j - 1 = j - 1
    OBVIOUS
  <2> QED
    BY <2>1
<1> QED
  BY <1>2, <1>4, <1>5

-----------------------------------------------------------------------------
(* The footer *)

Ascending(s) == \A i, j \in DOMAIN s : i < j => s[i] < s[j]

LEMMA SortedExists ==
    ASSUME NEW n \in Nat, NEW T \in SUBSET (0..n)
    PROVE  \E s \in SetToSeqs(T) : Ascending(s)
<1> DEFINE U(m) == T \cap (0..(m - 1))
           Bad == {m \in Nat : ~ \E s \in SetToSeqs(U(m)) : Ascending(s)}
<1>1. Bad = {}
  <2> SUFFICES ASSUME Bad # {} PROVE FALSE
    OBVIOUS
  <2>1. PICK m \in Bad : \A l \in Bad : m <= l
    BY LeastNat
  <2>2. m # 0
    <3> SUFFICES ASSUME m = 0 PROVE FALSE
      OBVIOUS
    <3>1. U(m) = {}
      OBVIOUS
    <3>2. Cardinality(U(m)) = 0
      BY <3>1, FS_EmptySet
    <3> DEFINE s == [i \in 1..0 |-> 0]
    <3>3. s \in [1..0 -> U(m)] /\ Ascending(s) /\ 1..0 = {}
      BY DEF Ascending
    <3>4. s \in SetToSeqs(U(m))
      <4> HIDE DEF s
      <4> QED
        BY <3>2, <3>3 DEF SetToSeqs
    <3> QED
      BY <2>1, <3>3, <3>4
  <2>3. m - 1 \in Nat /\ m - 1 \notin Bad
    <3>1. m \in Nat /\ m - 1 \in Nat /\ ~(m <= m - 1)
      BY <2>1, <2>2
    <3> HIDE DEF Bad
    <3> QED
      BY <2>1, <3>1
  <2>4. PICK s \in SetToSeqs(U(m - 1)) : Ascending(s)
    BY <2>3
  <2> DEFINE c == Cardinality(U(m - 1))
  <2>5. IsFiniteSet(U(m - 1)) /\ c \in Nat
    <3>1. U(m - 1) \in SUBSET (0..n) /\ IsFiniteSet(0..n)
      BY FS_Interval
    <3>2. IsFiniteSet(U(m - 1))
      BY <3>1, FS_Subset
    <3> QED
      BY <3>2, FS_CardinalityType
  <2>6. s \in [1..c -> U(m - 1)] /\ DOMAIN s = 1..c /\ \A i, j \in 1..c : i # j => s[i] # s[j]
    BY <2>4 DEF SetToSeqs
  <2>7. CASE m - 1 \notin T
    <3>1. U(m) = U(m - 1)
      BY <2>3, <2>7
    <3> QED
      BY <2>1, <2>4, <3>1
  <2>8. CASE m - 1 \in T
    <3>1. U(m) = U(m - 1) \cup {m - 1} /\ m - 1 \notin U(m - 1)
      BY <2>3, <2>8
    <3>2. Cardinality(U(m)) = c + 1
      BY <2>5, <3>1, FS_AddElement
    <3> DEFINE t == [i \in 1..(c + 1) |-> IF i = c + 1 THEN m - 1 ELSE s[i]]
    <3>3. \A i \in 1..c : s[i] \in U(m - 1) /\ s[i] < m - 1 /\ i \in 1..(c + 1) /\ t[i] = s[i]
      <4> SUFFICES ASSUME NEW i \in 1..c
                   PROVE  s[i] \in U(m - 1) /\ s[i] < m - 1 /\ i \in 1..(c + 1) /\ t[i] = s[i]
        OBVIOUS
      <4>1. s[i] \in U(m - 1)
        <5> HIDE DEF U, c
        <5> QED
          BY <2>6
      <4>2. s[i] < m - 1
        BY <2>3, <4>1
      <4>3. i \in 1..(c + 1) /\ i # c + 1
        <5> HIDE DEF c
        <5> QED
          BY <2>5
      <4> HIDE DEF U, c
      <4> QED
        BY <4>1, <4>2, <4>3
    <3>4. t[c + 1] = m - 1 /\ c + 1 \in 1..(c + 1)
      BY <2>5
    <3>5. DOMAIN t = 1..(c + 1) /\ 1..(c + 1) = 1..c \cup {c + 1}
      BY <2>5
    <3>6. t \in [1..(c + 1) -> U(m)]
      <4>1. \A i \in 1..(c + 1) : t[i] \in U(m)
        <5> HIDE DEF U, t, c
        <5> QED
          BY <3>1, <3>3, <3>4, <3>5, Zenon
      <4> QED
        BY <4>1
    <3> HIDE DEF t
    <3>7. Ascending(t)
      <4> SUFFICES ASSUME NEW i \in 1..(c + 1), NEW j \in 1..(c + 1), i < j PROVE t[i] < t[j]
        BY <3>5 DEF Ascending
      <4>1. i \in 1..c /\ t[i] = s[i] /\ s[i] < m - 1
        BY <2>5, <3>3
      <4>2. CASE j = c + 1
        BY <3>4, <4>1, <4>2
      <4>3. CASE j # c + 1
        <5>1. j \in 1..c /\ t[j] = s[j]
          BY <2>5, <3>3, <4>3
        <5> QED
          BY <2>4, <2>6, <4>1, <5>1 DEF Ascending
      <4> QED
        BY <4>2, <4>3
    <3>8. \A i, j \in 1..(c + 1) : i # j => t[i] # t[j]
      <4> SUFFICES ASSUME NEW i \in 1..(c + 1), NEW j \in 1..(c + 1), i # j PROVE t[i] # t[j]
        OBVIOUS
      <4>1. t[i] \in U(m) /\ t[j] \in U(m)
        BY <3>6
      <4>2. t[i] \in Nat /\ t[j] \in Nat
        BY <4>1
      <4>3. i < j => t[i] < t[j]
        BY <3>5, <3>7 DEF Ascending
      <4>4. j < i => t[j] < t[i]
        BY <3>5, <3>7 DEF Ascending
      <4> QED
        BY <2>5, <4>3, <4>4, <4>2
    <3>9. t \in SetToSeqs(U(m))
      <4> HIDE DEF U, c
      <4> QED
        BY <3>2, <3>6, <3>8 DEF SetToSeqs
    <3> QED
      BY <2>1, <3>7, <3>9
  <2> QED
    BY <2>7, <2>8
<1>2. U(n + 1) = T
  <2>1. 0..n = 0..(n + 1 - 1)
    OBVIOUS
  <2>2. T \cap (0..n) = T
    OBVIOUS
  <2> QED
    BY <2>1, <2>2
<1>3. n + 1 \in Nat
  OBVIOUS
<1> HIDE DEF U
<1>4. \E s \in SetToSeqs(U(n + 1)) : Ascending(s)
  BY <1>1, <1>3
<1> QED
  BY <1>2, <1>4

\* A sequence of all elements of a set has all of them.
LEMMA AllOfThem ==
    ASSUME NEW n \in Nat, NEW T \in SUBSET (0..n), NEW s \in SetToSeqs(T)
    PROVE  /\ s \in Seq(T) /\ Len(s) = Cardinality(T) /\ Cardinality(T) \in Nat
           /\ \A x \in T : \E i \in 1..Len(s) : s[i] = x
<1> DEFINE c == Cardinality(T)
<1>1. IsFiniteSet(T) /\ c \in Nat
  <2>1. IsFiniteSet(0..n)
    BY FS_Interval
  <2>2. IsFiniteSet(T)
    BY <2>1, FS_Subset
  <2> QED
    BY <2>2, FS_CardinalityType
<1>2. s \in [1..c -> T] /\ DOMAIN s = 1..c /\ \A i, j \in 1..c : i # j => s[i] # s[j]
  BY DEF SetToSeqs
<1>3. s \in Injection(1..c, T)
  BY <1>2 DEF Injection, IsInjective
<1>4. Cardinality(1..c) = c
  BY <1>1, FS_Interval
<1>5. s \in Surjection(1..c, T)
  BY <1>1, <1>3, <1>4, FS_Injection
<1>6. \A x \in T : \E i \in 1..c : s[i] = x
  BY <1>5 DEF Surjection
<1>7. s \in Seq(T) /\ Len(s) = c
  BY <1>1, <1>2
<1> QED
  BY <1>1, <1>6, <1>7

\* Records that cover the addresses they are for.
IndexOK(idx) ==
    /\ idx \in [Addrs -> Records \cup {NoRec}]
    /\ \A a \in Addrs : idx[a] # NoRec => Covers(idx[a], a)

LEMMA NoRecApart == NoRec \notin Records
  BY DEF NoRec, Records

LEMMA ExtentEndIs ==
    ASSUME NEW idx, NEW a \in Addrs
    PROVE  /\ ExtentEnd(idx, a) \in a..MaxAddr
           /\ \A c \in a..ExtentEnd(idx, a) : idx[c] = idx[a]
           /\ \A b \in a..MaxAddr : (\A c \in a..b : idx[c] = idx[a]) => b <= ExtentEnd(idx, a)
<1> DEFINE T == {b \in a..MaxAddr : \A c \in a..b : idx[c] = idx[a]}
<1>1. a \in Nat /\ a <= MaxAddr /\ MaxAddr \in Nat
  BY MaxAddrAssumption DEF Addrs
<1>2. a \in T
  <2>1. a..a = {a}
    BY <1>1
  <2> QED
    BY <1>1, <2>1
<1>3. T \in SUBSET Nat /\ \A b \in T : b <= MaxAddr
  BY <1>1
<1>4. Max(T) \in T /\ \A b \in T : b <= Max(T)
  BY <1>1, <1>2, <1>3, MaxOfBounded
<1>5. ExtentEnd(idx, a) = Max(T)
  BY DEF ExtentEnd
<1> QED
  BY <1>4, <1>5

LEMMA IndexEntryType ==
    ASSUME NEW idx, IndexOK(idx), NEW a \in ExtentStarts(idx)
    PROVE  IndexEntry(idx, a) \in IndexCells
<1>1. a \in Addrs /\ idx[a] # NoRec
  BY DEF ExtentStarts
<1>2. idx[a] \in Records /\ Covers(idx[a], a)
  BY <1>1 DEF IndexOK
<1>3. ExtentEnd(idx, a) \in a..MaxAddr
  BY <1>1, ExtentEndIs
<1>4. ExtentEnd(idx, a) - a + 1 \in Lens
  BY <1>1, <1>3, MaxAddrAssumption DEF Lens, Addrs
<1>5. idx[a].logOffset + (a - idx[a].off) \in Nat
  BY <1>1, <1>2 DEF Records, Covers, Addrs
<1> QED
  BY <1>1, <1>4, <1>5 DEF IndexEntry, IndexCells

\* The entries of the footer are those of the extents.
LEMMA IndexEntriesAre ==
    ASSUME NEW idx, IndexOK(idx)
    PROVE  /\ IndexEntries(idx) \in Seq(IndexCells)
           /\ \A i \in 1..Len(IndexEntries(idx)) :
                 \E a \in ExtentStarts(idx) : IndexEntries(idx)[i] = IndexEntry(idx, a)
           /\ \A a \in ExtentStarts(idx) :
                 \E i \in 1..Len(IndexEntries(idx)) : IndexEntries(idx)[i] = IndexEntry(idx, a)
<1> DEFINE T == ExtentStarts(idx)
           s == CHOOSE s \in SetToSeqs(T) : Ascending(s)
           es == [i \in DOMAIN s |-> IndexEntry(idx, s[i])]
<1>1. IndexEntries(idx) = es
  BY DEF IndexEntries, Ascending
<1>2. T \in SUBSET (0..MaxAddr)
  BY DEF ExtentStarts, Addrs
<1>3. s \in SetToSeqs(T)
  BY <1>2, SortedExists, MaxAddrAssumption
<1> HIDE DEF s
<1>4. /\ s \in Seq(T) /\ Len(s) \in Nat
      /\ \A x \in T : \E i \in 1..Len(s) : s[i] = x
  BY <1>2, <1>3, AllOfThem, MaxAddrAssumption
<1>5. DOMAIN s = 1..Len(s) /\ \A i \in 1..Len(s) : s[i] \in T
  BY <1>4
<1>6. \A i \in 1..Len(s) : IndexEntry(idx, s[i]) \in IndexCells
  BY <1>5, IndexEntryType
<1>7. es \in Seq(IndexCells) /\ Len(es) = Len(s)
  BY <1>4, <1>5, <1>6
<1> QED
  BY <1>1, <1>4, <1>5, <1>7

IndexRecord(x) == [logOffset |-> x.logOffset, off |-> x.off, len |-> x.len]
IndexRecords(es) == [i \in DOMAIN es |-> IndexRecord(es[i])]

\* The index read from a footer leads to the same cells as the one it was
\* written from.
LEMMA FooterIndex ==
    ASSUME NEW idx, IndexOK(idx),
           NEW new, new = AddAll(IndexRecords(IndexEntries(idx)))
    PROVE  /\ new \in [Addrs -> Records \cup {NoRec}]
           /\ \A a \in Addrs :
                 /\ new[a] = NoRec <=> idx[a] = NoRec
                 /\ idx[a] # NoRec => LogOff(new[a], a) = LogOff(idx[a], a)
<1> DEFINE es == IndexEntries(idx)
           recs == IndexRecords(es)
<1>1. /\ es \in Seq(IndexCells) /\ Len(es) \in Nat /\ DOMAIN es = 1..Len(es)
      /\ \A i \in 1..Len(es) : \E a \in ExtentStarts(idx) : es[i] = IndexEntry(idx, a)
      /\ \A a \in ExtentStarts(idx) : \E i \in 1..Len(es) : es[i] = IndexEntry(idx, a)
  BY IndexEntriesAre
<1> HIDE DEF es
<1>2. \A i \in 1..Len(es) : es[i] \in IndexCells /\ IndexRecord(es[i]) \in Records
  <2> SUFFICES ASSUME NEW i \in 1..Len(es)
               PROVE  es[i] \in IndexCells /\ IndexRecord(es[i]) \in Records
    OBVIOUS
  <2>1. es[i] \in IndexCells
    BY <1>1
  <2> QED
    BY <2>1 DEF IndexCells, IndexRecord, Records, Lens
<1>3. recs \in Seq(Records) /\ Len(recs) = Len(es) /\ \A i \in 1..Len(es) : recs[i] = IndexRecord(es[i])
  BY <1>1, <1>2 DEF IndexRecords
<1> HIDE DEF recs
<1>4. /\ new = [a \in Addrs |-> new[a]]
      /\ \A a \in Addrs :
           /\ (\A i \in 1..Len(recs) : ~Covers(recs[i], a)) => new[a] = NoRec
           /\ \A i \in 1..Len(recs) :
                 Covers(recs[i], a) /\ (\A j \in (i + 1)..Len(recs) : ~Covers(recs[j], a))
                   => new[a] = recs[i]
  BY <1>3, AddAllIs DEF recs, es
<1>5. ASSUME NEW a \in Addrs, NEW i \in 1..Len(recs), Covers(recs[i], a)
      PROVE  idx[a] # NoRec /\ LogOff(recs[i], a) = LogOff(idx[a], a)
  <2>1. PICK b \in ExtentStarts(idx) : es[i] = IndexEntry(idx, b)
    BY <1>1, <1>3
  <2>2. b \in Addrs /\ idx[b] # NoRec
    BY DEF ExtentStarts
  <2>3. ExtentEnd(idx, b) \in b..MaxAddr /\ \A c \in b..ExtentEnd(idx, b) : idx[c] = idx[b]
    BY <2>2, ExtentEndIs
  <2>4. recs[i] = [logOffset |-> idx[b].logOffset + (b - idx[b].off), off |-> b,
                   len |-> ExtentEnd(idx, b) - b + 1]
    BY <1>3, <2>1 DEF IndexRecord, IndexEntry
  <2>5. a \in b..ExtentEnd(idx, b)
    BY <1>5, <2>2, <2>3, <2>4, MaxAddrAssumption DEF Covers, Addrs
  <2>6. idx[a] = idx[b] /\ idx[b] \in Records
    BY <2>2, <2>3, <2>5 DEF IndexOK
  <2>7. idx[b].logOffset \in Nat /\ idx[b].off \in Nat /\ a \in Nat /\ b \in Nat
    BY <2>2, <2>6 DEF Records, Addrs
  <2>8. (idx[b].logOffset + (b - idx[b].off)) + (a - b) = idx[b].logOffset + (a - idx[b].off)
    BY <2>7
  <2> QED
    BY <2>2, <2>4, <2>6, <2>8 DEF LogOff
<1>6. ASSUME NEW a \in Addrs, idx[a] # NoRec
      PROVE  \E i \in 1..Len(recs) : Covers(recs[i], a)
  <2> DEFINE T == {b \in Nat : b <= a /\ \A c \in b..a : idx[c] = idx[a]}
  <2>1. a \in Nat /\ a <= MaxAddr /\ a \in T
    BY MaxAddrAssumption DEF Addrs
  <2>2. PICK b \in T : \A c \in T : b <= c
    BY <2>1, LeastNat
  <2>3. b \in Addrs /\ b <= a /\ idx[b] = idx[a]
    <3>1. b \in Nat /\ b <= a /\ b \in b..a /\ \A c \in b..a : idx[c] = idx[a]
      BY <2>1, <2>2
    <3>2. idx[b] = idx[a]
      BY <3>1
    <3>3. b \in Addrs
      BY <2>1, <3>1, MaxAddrAssumption DEF Addrs
    <3> QED
      BY <3>1, <3>2, <3>3
  <2>4. b = 0 \/ idx[b - 1] # idx[b]
    <3> SUFFICES ASSUME b # 0, idx[b - 1] = idx[b] PROVE FALSE
      OBVIOUS
    <3>1. b - 1 \in Nat /\ b - 1 <= a /\ (b - 1)..a = b..a \cup {b - 1}
      BY <2>1, <2>3
    <3>2. \A c \in (b - 1)..a : idx[c] = idx[a]
      BY <2>2, <2>3, <3>1
    <3>3. b - 1 \in T
      BY <3>1, <3>2
    <3> QED
      BY <2>2, <3>3
  <2>5. b \in ExtentStarts(idx)
    BY <1>6, <2>3, <2>4 DEF ExtentStarts
  <2>6. PICK i \in 1..Len(es) : es[i] = IndexEntry(idx, b)
    BY <1>1, <2>5
  <2>7. a <= ExtentEnd(idx, b) /\ ExtentEnd(idx, b) \in Nat
    <3>1. \A c \in b..a : idx[c] = idx[b]
      BY <2>2, <2>3
    <3>2. a \in b..MaxAddr
      BY <2>1, <2>3 DEF Addrs
    <3>3. ExtentEnd(idx, b) \in b..MaxAddr /\ a <= ExtentEnd(idx, b)
      BY <2>3, <3>1, <3>2, ExtentEndIs
    <3> QED
      BY <2>3, <3>3 DEF Addrs
  <2>8. recs[i].off = b /\ recs[i].len = ExtentEnd(idx, b) - b + 1
    <3>1. recs[i] = IndexRecord(IndexEntry(idx, b))
      BY <1>3, <2>6
    <3> QED
      BY <3>1 DEF IndexRecord, IndexEntry
  <2>9. Covers(recs[i], a)
    BY <2>1, <2>3, <2>7, <2>8 DEF Covers, Addrs
  <2> QED
    BY <1>3, <2>9
<1>7. ASSUME NEW a \in Addrs, NEW l \in 1..Len(recs), Covers(recs[l], a)
      PROVE  \E i \in 1..Len(recs) : Covers(recs[i], a) /\ new[a] = recs[i]
  <2> DEFINE T == {i \in 1..Len(recs) : Covers(recs[i], a)}
  <2>1. T \in SUBSET Nat /\ l \in T /\ Len(recs) \in Nat /\ \A m \in T : m <= Len(recs)
    BY <1>1, <1>3, <1>7
  <2>2. Max(T) \in T /\ \A m \in T : m <= Max(T)
    BY <2>1, MaxOfBounded
  <2> DEFINE i == Max(T)
  <2> HIDE DEF i
  <2>3. i \in 1..Len(recs) /\ Covers(recs[i], a)
    BY <2>2 DEF i
  <2>4. \A j \in (i + 1)..Len(recs) : ~Covers(recs[j], a)
    BY <2>1, <2>2, <2>3 DEF i
  <2> QED
    BY <1>4, <2>3, <2>4
<1>8. ASSUME NEW a \in Addrs
      PROVE  /\ new[a] \in Records \cup {NoRec}
             /\ new[a] = NoRec <=> idx[a] = NoRec
             /\ idx[a] # NoRec => LogOff(new[a], a) = LogOff(idx[a], a)
  <2>1. CASE \A i \in 1..Len(recs) : ~Covers(recs[i], a)
    BY <1>4, <1>6, <2>1
  <2>2. CASE \E i \in 1..Len(recs) : Covers(recs[i], a)
    <3>1. PICK i \in 1..Len(recs) : Covers(recs[i], a) /\ new[a] = recs[i]
      BY <1>7, <2>2
    <3>2. new[a] \in Records /\ new[a] # NoRec
      BY <1>3, <3>1, NoRecApart
    <3> QED
      BY <1>5, <3>1, <3>2
  <2> QED
    BY <2>1, <2>2
<1> QED
  BY <1>4, <1>8

-----------------------------------------------------------------------------
(* Cells and entries *)

\* A write: what a thread writes, or an entry of the history.
IsWrite(e) == e.id \in Nat /\ e.off \in Addrs /\ e.len \in Lens /\ e.off + e.len - 1 <= MaxAddr

LEMMA EntryIsWrite == \A e \in Entries : IsWrite(e) /\ e.at \in Nat
  BY DEF Entries, IsWrite

LEMMA NoOtherKind ==
    ASSUME NEW c \in Cells
    PROVE  /\ c.k \in CellKinds
           /\ c.k = "base" => c \in BaseCells
           /\ c.k = "end" => c \in EndCells
           /\ c.k = "data" => c.id \in Nat /\ c.addr \in Addrs
           /\ c.k = "magic" => c = Header[1]
           /\ c.k = "header" => c = Header[2]
           /\ c.k = "lost" => c = [k |-> "lost"]
<1>1. CASE c \in [k : {"magic", "header", "torn", "lost"}]
  BY <1>1 DEF CellKinds, Header
<1>2. CASE c \in PayCells
  BY <1>2 DEF CellKinds, PayCells
<1>3. CASE c \in IndexCells
  BY <1>3 DEF CellKinds, IndexCells
<1>4. CASE c \in BaseCells
  BY <1>4 DEF CellKinds, BaseCells
<1>5. CASE c \in EndCells
  BY <1>5 DEF CellKinds, EndCells
<1> QED
  BY <1>1, <1>2, <1>3, <1>4, <1>5 DEF Cells

\* g is f with the cells of m behind it.
LEMMA Appended ==
    ASSUME NEW S, NEW f \in Seq(S), NEW m \in Seq(S), NEW g, g = f \o m
    PROVE  /\ g \in Seq(S) /\ Len(g) = Len(f) + Len(m) /\ Len(f) \in Nat /\ Len(m) \in Nat
           /\ \A j \in 1..Len(f) : g[j] = f[j]
           /\ \A j \in 1..Len(m) : g[Len(f) + j] = m[j]
<1>1. Len(f) \in Nat /\ Len(m) \in Nat
  OBVIOUS
<1>2. g \in Seq(S) /\ Len(g) = Len(f) + Len(m)
  BY <1>1
<1>3. ASSUME NEW j \in 1..Len(f) PROVE g[j] = f[j]
  <2>1. j \in 1..(Len(f) + Len(m)) /\ j <= Len(f)
    BY <1>1
  <2> QED
    BY <2>1, ConcatProperties
<1>4. ASSUME NEW j \in 1..Len(m) PROVE g[Len(f) + j] = m[j]
  <2>1. Len(f) + j \in 1..(Len(f) + Len(m)) /\ ~(Len(f) + j <= Len(f)) /\ Len(f) + j - Len(f) = j
    BY <1>1
  <2>2. g[Len(f) + j] = m[Len(f) + j - Len(f)]
    BY <2>1, ConcatProperties
  <2> QED
    BY <2>1, <2>2
<1> QED
  BY <1>1, <1>2, <1>3, <1>4

LEMMA PayloadIs ==
    ASSUME NEW e, IsWrite(e), NEW p, p = Payload(e.id, e)
    PROVE  /\ p \in Seq(PayCells) /\ Len(p) = e.len + 1
           /\ p[1] = [k |-> "offset", off |-> e.off]
           /\ \A i \in 1..e.len : p[i + 1] = DataCell(e.id, e.off + i - 1)
<1> DEFINE o == <<[k |-> "offset", off |-> e.off]>>
           d == [i \in 1..e.len |-> [k |-> "data", id |-> e.id, addr |-> e.off + i - 1]]
<1>1. e.len \in Nat /\ e.off \in Nat /\ e.len >= 1 /\ MaxAddr \in Nat
  BY MaxAddrAssumption DEF IsWrite, Lens, Addrs
<1>2. o \in Seq(PayCells)
  BY DEF PayCells, IsWrite
<1>3. Len(o) = 1 /\ o[1] = [k |-> "offset", off |-> e.off]
  OBVIOUS
<1>4. \A i \in 1..e.len : [k |-> "data", id |-> e.id, addr |-> e.off + i - 1] \in PayCells
  BY <1>1 DEF PayCells, IsWrite, Addrs
<1>5. d \in Seq(PayCells)
  BY <1>1, <1>4
<1>6. Len(d) = e.len /\ \A i \in 1..e.len : d[i] = DataCell(e.id, e.off + i - 1)
  BY <1>1 DEF DataCell
<1>7. p = o \o d
  BY DEF Payload
<1> HIDE DEF o, d
<1>8. p \in Seq(PayCells)
  BY <1>2, <1>5, <1>7, Appended
<1>9. Len(p) = Len(o) + Len(d)
  BY <1>2, <1>5, <1>7, Appended
<1>10. \A j \in 1..Len(o) : p[j] = o[j]
  BY <1>2, <1>5, <1>7, Appended
<1>11. \A j \in 1..Len(d) : p[Len(o) + j] = d[j]
  BY <1>2, <1>5, <1>7, Appended
<1>12. Len(p) = e.len + 1
  BY <1>1, <1>3, <1>6, <1>9
<1>13. p[1] = o[1]
  BY <1>3, <1>10
<1>14. ASSUME NEW i \in 1..e.len PROVE p[i + 1] = d[i]
  <2>1. p[1 + i] = d[i]
    BY <1>3, <1>6, <1>11
  <2>2. 1 + i = i + 1
    BY <1>1
  <2> QED
    BY <2>1, <2>2
<1> QED
  BY <1>3, <1>6, <1>8, <1>12, <1>13, <1>14

LEMMA EntryIs ==
    ASSUME NEW e, IsWrite(e), NEW m, m = makeLogEntry(e.id, e)
    PROVE  /\ m \in Seq(Cells) /\ Len(m) = e.len + 2
           /\ m[1] = Base(e)
           /\ m[2] = [k |-> "offset", off |-> e.off]
           /\ \A a \in Addrs : Covers(e, a) => /\ m[3 + (a - e.off)] = DataCell(e.id, a)
                                               /\ 3 + (a - e.off) \in 3..(e.len + 2)
           /\ \A j \in 3..(e.len + 2) : \E a \in Addrs : Covers(e, a) /\ j = 3 + (a - e.off)
           /\ \A j \in 1..Len(m) : m[j].k \in BodyKinds
<1> DEFINE p == Payload(e.id, e)
           b == <<Base(e)>>
<1>1. e.len \in Nat /\ e.off \in Nat /\ e.len >= 1 /\ MaxAddr \in Nat
  BY MaxAddrAssumption DEF IsWrite, Lens, Addrs
<1>2. /\ p \in Seq(PayCells) /\ Len(p) = e.len + 1
      /\ p[1] = [k |-> "offset", off |-> e.off]
      /\ \A i \in 1..e.len : p[i + 1] = DataCell(e.id, e.off + i - 1)
  BY PayloadIs
<1>3. m = b \o p
  BY DEF makeLogEntry, Base
<1>4. Base(e) \in BaseCells /\ Base(e).k = "base"
  BY <1>1, <1>2 DEF Base, BaseCells
<1> HIDE DEF p
<1>5. b \in Seq(Cells)
  BY <1>4 DEF Cells
<1>6. Len(b) = 1 /\ b[1] = Base(e)
  OBVIOUS
<1>7. p \in Seq(Cells)
  BY <1>2, SeqMonotonic DEF Cells
<1> HIDE DEF b
<1>8. m \in Seq(Cells) /\ Len(m) = e.len + 2 /\ m[1] = Base(e)
  <2>1. m \in Seq(Cells)
    BY <1>3, <1>5, <1>7, Appended
  <2>2. Len(m) = Len(b) + Len(p)
    BY <1>3, <1>5, <1>7, Appended
  <2>3. \A j \in 1..Len(b) : m[j] = b[j]
    BY <1>3, <1>5, <1>7, Appended
  <2> QED
    BY <1>1, <1>2, <1>6, <2>1, <2>2, <2>3
<1>9. ASSUME NEW j \in 2..(e.len + 2) PROVE m[j] = p[j - 1]
  <2>1. \A i \in 1..Len(p) : m[Len(b) + i] = p[i]
    BY <1>3, <1>5, <1>7, Appended
  <2>2. j - 1 \in 1..Len(p) /\ Len(b) + (j - 1) = j
    BY <1>1, <1>2, <1>6
  <2> QED
    BY <2>1, <2>2
<1>10. m[2] = [k |-> "offset", off |-> e.off]
  <2>1. 2 \in 2..(e.len + 2) /\ 2 - 1 = 1
    BY <1>1
  <2> QED
    BY <1>2, <1>9, <2>1
<1>11. ASSUME NEW a \in Addrs, Covers(e, a)
       PROVE  /\ m[3 + (a - e.off)] = DataCell(e.id, a)
              /\ 3 + (a - e.off) \in 3..(e.len + 2)
  <2>1. a \in Nat /\ e.off <= a /\ a < e.off + e.len
    BY <1>11 DEF Addrs, Covers
  <2> DEFINE i == a - e.off + 1
             j == 3 + (a - e.off)
  <2>2. /\ i \in 1..e.len /\ e.off + i - 1 = a
        /\ j \in 2..(e.len + 2) /\ j - 1 = i + 1 /\ j \in 3..(e.len + 2)
    BY <1>1, <2>1
  <2> HIDE DEF i, j
  <2>3. m[j] = p[i + 1]
    BY <1>9, <2>2
  <2>4. p[i + 1] = DataCell(e.id, e.off + i - 1)
    BY <1>2, <2>2
  <2>5. m[j] = DataCell(e.id, a) /\ j \in 3..(e.len + 2)
    BY <2>2, <2>3, <2>4
  <2> QED
    BY <2>5 DEF j
<1>12. ASSUME NEW j \in 3..(e.len + 2)
       PROVE  \E a \in Addrs : Covers(e, a) /\ j = 3 + (a - e.off)
  <2> DEFINE a == e.off + (j - 3)
  <2>1. a \in Addrs /\ Covers(e, a) /\ j = 3 + (a - e.off)
    BY <1>1 DEF Addrs, Covers, IsWrite
  <2> HIDE DEF a
  <2> QED
    BY <2>1
<1>13. ASSUME NEW j \in 1..Len(m) PROVE m[j].k \in BodyKinds
  <2>1. CASE j = 1
    BY <1>4, <1>8, <2>1 DEF BodyKinds
  <2>2. CASE j # 1
    <3>1. j \in 2..(e.len + 2) /\ j - 1 \in 1..Len(p)
      BY <1>1, <1>2, <1>8, <2>2
    <3>2. m[j] \in PayCells
      BY <1>2, <1>9, <3>1
    <3> QED
      BY <3>2 DEF PayCells, BodyKinds
  <2> QED
    BY <2>1, <2>2
<1> QED
  BY <1>8, <1>10, <1>11, <1>12, <1>13

\* A thread's write and the history's entry of it are the same cells.
LEMMA SameEntry ==
    ASSUME NEW e, NEW w, e.id = w.id, e.off = w.off, e.len = w.len
    PROVE  makeLogEntry(w.id, w) = makeLogEntry(e.id, e) /\ Base(w) = Base(e)
  BY DEF makeLogEntry, Payload, Base

LEMMA FooterIs ==
    ASSUME NEW idx, IndexOK(idx), NEW es, es = IndexEntries(idx)
    PROVE  /\ Footer(idx) \in Seq(Cells) /\ Len(Footer(idx)) = Len(es) + 2 /\ Len(es) \in Nat
           /\ Footer(idx)[1] = FooterEntry
           /\ \A i \in 1..Len(es) : Footer(idx)[i + 1] = es[i] /\ es[i].k = "index"
           /\ Footer(idx)[Len(es) + 2] = [k |-> "end", size |-> Len(es), crc |-> es]
<1>1. es \in Seq(IndexCells) /\ Len(es) \in Nat
  BY IndexEntriesAre
<1> DEFINE b == <<FooterEntry>>
           z == <<[k |-> "end", size |-> Len(es), crc |-> es]>>
<1>2. Footer(idx) = (b \o es) \o z
  BY DEF Footer
<1>3. FooterEntry \in BaseCells
  BY DEF FooterEntry, BaseCells
<1>4. b \in Seq(Cells)
  BY <1>3 DEF Cells
<1>5. Len(b) = 1 /\ b[1] = FooterEntry
  OBVIOUS
<1>6. [k |-> "end", size |-> Len(es), crc |-> es] \in EndCells
  BY <1>1 DEF EndCells
<1>7. z \in Seq(Cells)
  BY <1>6 DEF Cells
<1>8. Len(z) = 1 /\ z[1] = [k |-> "end", size |-> Len(es), crc |-> es]
  OBVIOUS
<1>9. es \in Seq(Cells)
  BY <1>1, SeqMonotonic DEF Cells
<1> DEFINE c == b \o es
<1> HIDE DEF b, z
<1>10. c \in Seq(Cells)
  BY <1>4, <1>9, Appended
<1>11. /\ Len(c) = Len(es) + 1 /\ c[1] = FooterEntry
       /\ \A i \in 1..Len(es) : c[i + 1] = es[i]
  <2>1. Len(c) = Len(b) + Len(es)
    BY <1>4, <1>9, Appended
  <2>2. \A j \in 1..Len(b) : c[j] = b[j]
    BY <1>4, <1>9, Appended
  <2>3. \A j \in 1..Len(es) : c[Len(b) + j] = es[j]
    BY <1>4, <1>9, Appended
  <2>4. \A i \in 1..Len(es) : Len(b) + i = i + 1
    BY <1>1, <1>5
  <2> HIDE DEF c
  <2> QED
    BY <1>1, <1>5, <2>1, <2>2, <2>3, <2>4
<1>12. /\ Footer(idx) \in Seq(Cells) /\ Len(Footer(idx)) = Len(es) + 2
       /\ \A j \in 1..(Len(es) + 1) : Footer(idx)[j] = c[j]
       /\ Footer(idx)[Len(es) + 2] = z[1]
  <2>1. Footer(idx) = c \o z
    BY <1>2
  <2> HIDE DEF c
  <2>2. Footer(idx) \in Seq(Cells)
    BY <1>7, <1>10, <2>1, Appended
  <2>3. Len(Footer(idx)) = Len(c) + Len(z)
    BY <1>7, <1>10, <2>1, Appended
  <2>4. \A j \in 1..Len(c) : Footer(idx)[j] = c[j]
    BY <1>7, <1>10, <2>1, Appended
  <2>5. \A j \in 1..Len(z) : Footer(idx)[Len(c) + j] = z[j]
    BY <1>7, <1>10, <2>1, Appended
  <2>6. Len(es) + 2 = Len(c) + 1 /\ 1 \in 1..Len(z) /\ Len(c) + Len(z) = Len(es) + 2
    BY <1>1, <1>8, <1>11
  <2>7. Footer(idx)[Len(c) + 1] = z[1]
    BY <2>5, <2>6
  <2> QED
    BY <1>11, <2>2, <2>3, <2>4, <2>6, <2>7
<1> HIDE DEF c
<1>13. ASSUME NEW i \in 1..Len(es)
       PROVE  Footer(idx)[i + 1] = es[i] /\ es[i].k = "index"
  <2>1. i + 1 \in 1..(Len(es) + 1) /\ es[i] \in IndexCells
    BY <1>1
  <2> QED
    BY <1>11, <1>12, <2>1 DEF IndexCells
<1>14. Footer(idx)[1] = FooterEntry
  <2>1. 1 \in 1..(Len(es) + 1)
    BY <1>1
  <2> QED
    BY <1>11, <1>12, <2>1
<1> QED
  BY <1>1, <1>8, <1>12, <1>13, <1>14

-----------------------------------------------------------------------------
(* Entries in a file *)

\* An entry stays where it is while only cells behind it change.
LEMMA PlacedKept ==
    ASSUME NEW f, NEW g, NEW n \in Nat, \A j \in 1..n : g[j] = f[j],
           NEW e \in Entries, End(e) <= n, Placed(f, e)
    PROVE  Placed(g, e)
<1>1. e.at \in Nat /\ e.off \in Nat /\ e.len \in Nat /\ e.len >= 1 /\ e.at + 2 + e.len <= n
  BY DEF Entries, End, entryHeaderSize, Lens, Addrs
<1>2. e.at + 1 \in 1..n /\ e.at + 2 \in 1..n
  BY <1>1
<1>3. ASSUME NEW a \in Addrs, Covers(e, a) PROVE e.at + 3 + (a - e.off) \in 1..n
  BY <1>1, <1>3 DEF Covers, Addrs
<1> QED
  BY <1>2, <1>3 DEF Placed

LEMMA AppendedEntry ==
    ASSUME NEW f \in Seq(Cells), NEW e \in Entries, e.at = Len(f),
           NEW g, g = f \o makeLogEntry(e.id, e)
    PROVE  Placed(g, e) /\ End(e) = Len(g)
<1> DEFINE m == makeLogEntry(e.id, e)
<1>1. IsWrite(e)
  BY EntryIsWrite
<1>2. /\ m \in Seq(Cells) /\ Len(m) = e.len + 2
      /\ m[1] = Base(e)
      /\ m[2] = [k |-> "offset", off |-> e.off]
      /\ \A a \in Addrs : Covers(e, a) => /\ m[3 + (a - e.off)] = DataCell(e.id, a)
                                          /\ 3 + (a - e.off) \in 3..(e.len + 2)
  BY <1>1, EntryIs
<1> HIDE DEF m
<1>3. Len(g) = Len(f) + Len(m) /\ Len(f) \in Nat /\ \A j \in 1..Len(m) : g[Len(f) + j] = m[j]
  <2>1. g = f \o m
    BY DEF m
  <2>2. Len(g) = Len(f) + Len(m)
    BY <1>2, <2>1, Appended
  <2>3. \A j \in 1..Len(m) : g[Len(f) + j] = m[j]
    BY <1>2, <2>1, Appended
  <2> QED
    BY <2>2, <2>3
<1>4. e.len \in Nat /\ e.off \in Nat /\ e.at \in Nat
  BY <1>1, <1>3 DEF IsWrite, Lens, Addrs
<1>5. End(e) = Len(g)
  <2>1. Len(g) = e.at + (e.len + 2)
    BY <1>2, <1>3
  <2>2. \A x, y \in Nat : x + 2 + y = x + (y + 2)
    OBVIOUS
  <2>3. e.at + 2 + e.len = e.at + (e.len + 2)
    BY <1>4, <2>2, Zenon
  <2>4. End(e) = e.at + 2 + e.len
    BY Zenon DEF End, entryHeaderSize
  <2> QED
    BY <2>1, <2>3, <2>4, Zenon
<1>6. g[e.at + 1] = m[1] /\ g[e.at + 2] = m[2]
  BY <1>2, <1>3, <1>4
<1>7. ASSUME NEW a \in Addrs, Covers(e, a) PROVE g[e.at + 3 + (a - e.off)] = DataCell(e.id, a)
  <2> DEFINE j == 3 + (a - e.off)
  <2>1. m[j] = DataCell(e.id, a) /\ j \in 3..(e.len + 2)
    BY <1>2, <1>7
  <2>2. e.at + j = e.at + 3 + (a - e.off)
    <3>1. \A x, y \in Nat, b \in Addrs : x + (3 + (b - y)) = x + 3 + (b - y)
      BY MaxAddrAssumption DEF Addrs
    <3> QED
      BY <1>4, <3>1, Zenon
  <2> HIDE DEF j
  <2>3. j \in 1..Len(m)
    BY <1>2, <1>4, <2>1
  <2>4. g[e.at + j] = m[j]
    BY <1>3, <2>3
  <2> QED
    BY <2>1, <2>2, <2>4
<1> QED
  BY <1>2, <1>5, <1>6, <1>7 DEF Placed

\* IsIntact, cell by cell.
LEMMA IntactIs ==
    ASSUME file \in Seq(Cells), NEW e \in Entries
    PROVE  IsIntact(e) <=> End(e) <= Len(file) /\ Placed(file, e)
<1> DEFINE m == makeLogEntry(e.id, e)
           s == SubSeq(file, e.at + 1, e.at + 2 + e.len)
<1>1. IsWrite(e) /\ e.at \in Nat /\ e.len \in Nat /\ e.off \in Nat /\ e.len >= 1 /\ Len(file) \in Nat
  BY EntryIsWrite DEF IsWrite, Lens, Addrs
<1>2. /\ m \in Seq(Cells) /\ Len(m) = e.len + 2
      /\ m[1] = Base(e)
      /\ m[2] = [k |-> "offset", off |-> e.off]
      /\ \A a \in Addrs : Covers(e, a) => /\ m[3 + (a - e.off)] = DataCell(e.id, a)
                                          /\ 3 + (a - e.off) \in 3..(e.len + 2)
      /\ \A j \in 3..(e.len + 2) : \E a \in Addrs : Covers(e, a) /\ j = 3 + (a - e.off)
  BY <1>1, EntryIs
<1>3. IsIntact(e) <=> End(e) <= Len(file) /\ s = m
  BY <1>1 DEF IsIntact, End, entryHeaderSize
<1> HIDE DEF m
<1> SUFFICES ASSUME e.at + 2 + e.len <= Len(file) PROVE s = m <=> Placed(file, e)
  BY <1>1, <1>3 DEF End, entryHeaderSize
<1>4. /\ s \in Seq(Cells) /\ Len(s) = e.len + 2
      /\ \A j \in 1..(e.len + 2) : s[j] = file[e.at + j]
  <2> DEFINE lo == e.at + 1
             hi == e.at + 2 + e.len
  <2>1. \A j \in lo..hi : file[j] \in Cells
    BY <1>1
  <2>2. /\ lo \in Int /\ hi \in Int /\ hi - lo + 1 = e.len + 2 /\ lo <= hi
        /\ \A j \in 1..(e.len + 2) : lo + j - 1 = e.at + j
    <3>1. \A x, y \in Nat : /\ x + 1 \in Int /\ x + 2 + y \in Int
                             /\ (x + 2 + y) - (x + 1) + 1 = y + 2 /\ x + 1 <= x + 2 + y
                             /\ \A j \in 1..(y + 2) : (x + 1) + j - 1 = x + j
      OBVIOUS
    <3> QED
      BY <1>1, <3>1, Zenon
  <2> HIDE DEF lo, hi
  <2> DEFINE ss == SubSeq(file, lo, hi)
  <2>3. ss \in Seq(Cells) /\ Len(ss) = hi - lo + 1
        /\ \A j \in 1..(hi - lo + 1) : ss[j] = file[lo + j - 1]
    BY <2>1, <2>2, SubSeqProperties
  <2>4. s = ss
    BY DEF lo, hi
  <2> HIDE DEF s, ss
  <2> QED
    BY <2>2, <2>3, <2>4
<1> HIDE DEF s
<1>5. ASSUME s = m PROVE Placed(file, e)
  <2>1. file[e.at + 1] = m[1] /\ file[e.at + 2] = m[2]
    BY <1>1, <1>4, <1>5
  <2>2. ASSUME NEW a \in Addrs, Covers(e, a) PROVE file[e.at + 3 + (a - e.off)] = DataCell(e.id, a)
    <3> DEFINE j == 3 + (a - e.off)
    <3>1. m[j] = DataCell(e.id, a) /\ j \in 3..(e.len + 2)
      BY <1>2, <2>2
    <3>2. e.at + j = e.at + 3 + (a - e.off)
      BY <1>1 DEF Addrs
    <3> HIDE DEF j
    <3>3. j \in 1..(e.len + 2)
      BY <1>1, <3>1
    <3>4. file[e.at + j] = m[j]
      BY <1>4, <1>5, <3>3
    <3> QED
      BY <3>1, <3>2, <3>4
  <2> QED
    BY <1>2, <2>1, <2>2 DEF Placed
<1>6. ASSUME Placed(file, e) PROVE s = m
  <2>1. ASSUME NEW j \in 1..(e.len + 2) PROVE s[j] = m[j]
    <3>1. CASE j \in {1, 2}
      BY <1>2, <1>4, <1>6, <3>1 DEF Placed
    <3>2. CASE j \notin {1, 2}
      <4>1. j \in 3..(e.len + 2)
        BY <1>1, <3>2
      <4>2. PICK a \in Addrs : Covers(e, a) /\ j = 3 + (a - e.off)
        BY <1>2, <4>1
      <4>3. e.at + j = e.at + 3 + (a - e.off)
        BY <1>1, <4>2 DEF Addrs
      <4>4. s[j] = file[e.at + 3 + (a - e.off)] /\ m[j] = DataCell(e.id, a)
        BY <1>2, <1>4, <4>2, <4>3
      <4> QED
        BY <1>6, <4>2, <4>4 DEF Placed
    <3> QED
      BY <3>1, <3>2
  <2> QED
    BY <1>2, <1>4, <2>1, SeqEqual
<1> QED
  BY <1>5, <1>6

-----------------------------------------------------------------------------
(* The layout of the file *)

LEMMA EntryNumbers ==
    ASSUME NEW e \in Entries
    PROVE  /\ e.at \in Nat /\ e.off \in Nat /\ e.len \in Nat /\ e.len >= 1 /\ e.id \in Nat
           /\ e.off \in Addrs /\ e.off + e.len - 1 <= MaxAddr
           /\ End(e) = e.at + 2 + e.len /\ End(e) \in Nat
<1>1. e.at \in Nat /\ e.off \in Addrs /\ e.len \in Lens /\ e.id \in Nat /\ e.off + e.len - 1 <= MaxAddr
  BY DEF Entries
<1>2. e.off \in Nat /\ e.len \in Nat /\ e.len >= 1
  BY <1>1, MaxAddrAssumption DEF Addrs, Lens
<1> QED
  BY <1>1, <1>2 DEF End, entryHeaderSize

LEMMA PosNat ==
    ASSUME hist \in Seq(Entries), NEW i \in 0..Len(hist)
    PROVE  Pos(i) \in Nat /\ Pos(0) = 2 /\ (i # 0 => Pos(i) = End(hist[i]))
<1>1. CASE i = 0
  BY <1>1 DEF Pos, entryHeaderSize
<1>2. CASE i # 0
  <2>1. i \in 1..Len(hist)
    BY <1>2
  <2>2. hist[i] \in Entries
    BY <2>1
  <2>3. End(hist[i]) \in Nat
    BY <2>2, EntryNumbers
  <2> QED
    BY <1>2, <2>3 DEF Pos, entryHeaderSize
<1> QED
  BY <1>1, <1>2

\* The layout depends only on the cells it is about.
LEMMA LayoutKept ==
    ASSUME hist \in Seq(Entries), broken \in Nat, NEW f, NEW z, Layout(f, z),
           NEW g \in Seq(Cells), z <= Len(g), \A j \in 1..z : g[j] = f[j]
    PROVE  Layout(g, z)
<1>1. z \in Nat /\ Len(g) \in Nat /\ z \in 0..Len(g)
  BY DEF Layout
<1>2. \A j \in 1..z : g[j].k \in BodyKinds
  BY DEF Layout
<1>3. header = "ok" => z >= 2 /\ g[1] = Header[1] /\ g[2] = Header[2]
  BY <1>1 DEF Layout
<1>4. header = "failed" => z <= 1 /\ (z = 1 => g[1] = Header[1])
  BY <1>1 DEF Layout
<1>5. ASSUME NEW i \in DOMAIN hist PROVE End(hist[i]) <= z /\ Placed(g, hist[i])
  <2>1. End(hist[i]) <= z /\ Placed(f, hist[i]) /\ hist[i] \in Entries
    BY DEF Layout
  <2> QED
    BY <1>1, <2>1, PlacedKept
<1>6. ASSUME broken # 0 PROVE Partial(g, z)
  <2>1. PICK s \in 0..Len(hist) : SoundTo(s, z)
    BY DEF Layout
  <2>2. broken \in 1..z
    BY <1>1, <1>6, <2>1 DEF SoundTo
  <2>3. PICK e \in Entries : \E j \in 1..(e.len + 1) :
          f[broken] = Base(e) /\ broken + j <= z + 1 /\ (broken + j <= z => f[broken + j].k = "base")
    BY <1>6 DEF Layout, Partial
  <2>4. PICK j \in 1..(e.len + 1) :
          f[broken] = Base(e) /\ broken + j <= z + 1 /\ (broken + j <= z => f[broken + j].k = "base")
    BY <2>3
  <2>5. e.len \in Nat
    BY EntryNumbers
  <2>6. broken + j <= z => broken + j \in 1..z
    BY <1>1, <2>2, <2>5
  <2>7. g[broken] = Base(e)
    BY <2>2, <2>4
  <2>8. broken + j <= z => g[broken + j].k = "base"
    BY <2>4, <2>6
  <2> QED
    BY <2>4, <2>7, <2>8 DEF Partial
<1> QED
  BY <1>1, <1>2, <1>3, <1>4, <1>5, <1>6 DEF Layout

LEMMA LayoutFrame ==
    ASSUME UNCHANGED <<hist, header, broken>>, NEW g, NEW z, Layout(g, z)
    PROVE  Layout(g, z)'
<1>1. \A i : Pos(i)' = Pos(i) /\ (Sound(i)' <=> Sound(i))
  BY DEF Pos, Sound
<1>2. \A s : SoundTo(s, z) => SoundTo(s, z)'
  BY <1>1 DEF SoundTo
<1>3. Partial(g, z) => Partial(g, z)'
  BY DEF Partial
<1> QED
  BY <1>2, <1>3 DEF Layout

\* A half-written entry stays one when an entry is written behind it.
LEMMA PartialKept ==
    ASSUME NEW f, NEW g, NEW z \in Nat, NEW zz \in Nat, broken \in 1..z, z < zz,
           \A j \in 1..z : g[j] = f[j], g[z + 1].k = "base", Partial(f, z)
    PROVE  Partial(g, zz)
<1>1. PICK e \in Entries : \E j \in 1..(e.len + 1) :
        f[broken] = Base(e) /\ broken + j <= z + 1 /\ (broken + j <= z => f[broken + j].k = "base")
  BY DEF Partial
<1>2. PICK j \in 1..(e.len + 1) :
        f[broken] = Base(e) /\ broken + j <= z + 1 /\ (broken + j <= z => f[broken + j].k = "base")
  BY <1>1
<1>3. e.len \in Nat
  BY EntryNumbers
<1>4. g[broken] = Base(e) /\ broken + j <= zz + 1
  BY <1>2, <1>3
<1>5. g[broken + j].k = "base"
  <2>1. CASE broken + j <= z
    <3>1. broken + j \in 1..z
      BY <1>3, <2>1
    <3> QED
      BY <1>2, <2>1, <3>1
  <2>2. CASE ~(broken + j <= z)
    <3>1. broken + j = z + 1
      BY <1>2, <1>3, <2>2
    <3> QED
      BY <3>1
  <2> QED
    BY <2>1, <2>2
<1> QED
  BY <1>4, <1>5 DEF Partial

\* While no write has failed all entries are sound.
LEMMA AllSound ==
    ASSUME hist \in Seq(Entries), broken = 0, NEW z, NEW s \in 0..Len(hist), SoundTo(s, z)
    PROVE  s = Len(hist)
<1>1. CASE Len(hist) = 0
  BY <1>1
<1>2. CASE Len(hist) # 0
  <2>1. Len(hist) \in DOMAIN hist
    BY <1>2
  <2>2. Sound(Len(hist))
    BY DEF Sound
  <2> QED
    BY <2>1, <2>2 DEF SoundTo
<1> QED
  BY <1>1, <1>2
-----------------------------------------------------------------------------
(* What is written to the file *)

LEMMA OpenFile ==
    ASSUME RunningFile, closing # "closed"
    PROVE  /\ Layout(file, Len(file)) /\ file \in Seq(Cells) /\ Len(file) \in Nat
           /\ broken = 0 => offset = Len(file)
<1>1. PICK z \in 0..Len(file) : /\ Layout(file, z)
                                /\ closing = "closed" <=> z < Len(file)
                                /\ broken = 0 /\ closing # "closed" => offset = z
  BY DEF RunningFile
<1>2. file \in Seq(Cells)
  BY <1>1 DEF Layout
<1>3. z = Len(file)
  BY <1>1, <1>2
<1> QED
  BY <1>1, <1>2, <1>3

LEMMA StillOpen ==
    ASSUME Layout(file, Len(file))', closing' # "closed", broken' = 0 => offset' = Len(file')
    PROVE  RunningFile'
<1>1. file' \in Seq(Cells)
  BY DEF Layout
<1>2. Len(file') \in 0..Len(file') /\ ~(Len(file') < Len(file'))
  BY <1>1
<1> QED
  BY <1>2 DEF RunningFile, Footed

LEMMA HeaderCells ==
    /\ Header \in Seq(Cells) /\ Len(Header) = 2
    /\ Header[1] = [k |-> "magic"] /\ Header[2] = [k |-> "header"]
<1>1. Header = <<[k |-> "magic"], [k |-> "header"]>>
  BY DEF Header
<1>2. [k |-> "magic"] \in Cells /\ [k |-> "header"] \in Cells
  BY DEF Cells
<1> QED
  BY <1>1, <1>2

LEMMA WriteHeaderLayout ==
    ASSUME Layout(file, Len(file)), header = "none", header' = "ok",
           file' = file \o Header, UNCHANGED <<hist, broken>>
    PROVE  Layout(file, Len(file))' /\ Len(file') = 2
<1>1. file \in Seq(Cells) /\ Len(file) = 0 /\ hist = <<>> /\ broken = 0
  BY DEF Layout
<1>2. file = <<>>
  BY <1>1
<1>3. file' = Header
  BY <1>2, HeaderCells
<1>4. /\ file' \in Seq(Cells) /\ Len(file') = 2 /\ file'[1] = Header[1] /\ file'[2] = Header[2]
      /\ file'[1].k = "magic" /\ file'[2].k = "header"
  BY <1>3, HeaderCells
<1>5. \A j \in 1..2 : file'[j].k \in BodyKinds
  BY <1>4 DEF BodyKinds
<1>6. SoundTo(0, 2)'
  BY <1>1 DEF SoundTo, Pos, entryHeaderSize
<1>7. hist' = <<>> /\ broken' = 0 /\ Len(hist') = 0 /\ DOMAIN hist' = {}
  BY <1>1
<1> QED
  BY <1>4, <1>5, <1>6, <1>7 DEF Layout

LEMMA WriteHeaderFailsLayout ==
    ASSUME Layout(file, Len(file)), header = "none", header' = "failed",
           NEW n \in 0..1, file' = file \o SubSeq(Header, 1, n), UNCHANGED <<hist, broken>>
    PROVE  Layout(file, Len(file))' /\ Len(file') = n
<1>1. file \in Seq(Cells) /\ Len(file) = 0 /\ hist = <<>> /\ broken = 0
  BY DEF Layout
<1>2. file = <<>>
  BY <1>1
<1> DEFINE m == SubSeq(Header, 1, n)
<1>3. ASSUME NEW j \in 1..n PROVE Header[j] \in Cells
  <2>1. j \in 1..Len(Header)
    BY HeaderCells
  <2> QED
    BY <2>1, HeaderCells, ElementOfSeq, Zenon
<1>4. m \in Seq(Cells) /\ Len(m) = n /\ \A j \in 1..n : m[j] = Header[1 + j - 1]
  BY <1>3, SubSeqProperties
<1> HIDE DEF m
<1>5. file' \in Seq(Cells) /\ Len(file') = n /\ (n = 1 => file'[1] = Header[1])
  <2>1. file' = m
    BY <1>2, <1>4 DEF m
  <2>2. n = 1 => m[1] = Header[1]
    <3>1. n = 1 => 1 \in 1..n /\ 1 + 1 - 1 = 1
      OBVIOUS
    <3> QED
      BY <1>4, <3>1
  <2> QED
    BY <1>4, <2>1, <2>2, Zenon
<1>6. \A j \in 1..n : file'[j].k \in BodyKinds
  BY <1>5, HeaderCells DEF BodyKinds
<1>7. SoundTo(0, n)'
  BY <1>1 DEF SoundTo, Pos, entryHeaderSize
<1>8. hist' = <<>> /\ broken' = 0 /\ Len(hist') = 0 /\ DOMAIN hist' = {}
  BY <1>1
<1> QED
  BY <1>5, <1>6, <1>7, <1>8 DEF Layout

LEMMA WriteLogLayout ==
    ASSUME hist \in Seq(Entries), broken \in Nat, Layout(file, Len(file)), header = "ok",
           NEW e \in Entries, e.at = Len(file),
           file' = file \o makeLogEntry(e.id, e), hist' = Append(hist, e),
           UNCHANGED <<header, broken>>
    PROVE  Layout(file, Len(file))' /\ Len(file') = Len(file) + 2 + e.len
<1> DEFINE m == makeLogEntry(e.id, e)
<1> PICK z : z = Len(file)
  OBVIOUS
<1> PICK zz : zz = Len(file')
  OBVIOUS
<1> PICK n : n = Len(hist)
  OBVIOUS
<1>1. Layout(file, z)
  OBVIOUS
<1>2. file \in Seq(Cells) /\ z \in Nat /\ n \in Nat
  BY DEF Layout
<1>3. IsWrite(e)
  BY EntryIsWrite
<1>4. m \in Seq(Cells)
  BY <1>3, EntryIs
<1>5. m[1] = Base(e) /\ Len(m) = e.len + 2 /\ \A j \in 1..Len(m) : m[j].k \in BodyKinds
  BY <1>3, EntryIs
<1>6. file' \in Seq(Cells)
  BY <1>2, <1>4, Appended
<1>7. Len(file') = Len(file) + Len(m)
  BY <1>2, <1>4, Appended
<1>8. \A j \in 1..z : file'[j] = file[j]
  BY <1>2, <1>4, Appended
<1>9. \A j \in 1..Len(m) : file'[z + j] = m[j]
  BY <1>2, <1>4, Appended
<1>10. Placed(file', e) /\ End(e) = zz
  BY <1>2, AppendedEntry
<1> HIDE DEF m
<1>11. e.len \in Nat /\ e.len >= 1
  BY EntryNumbers
<1>12. zz = z + 2 + e.len /\ zz \in Nat /\ z < zz
  <2>1. \A x, y \in Nat : x + (y + 2) = x + 2 + y /\ x + 2 + y \in Nat /\ x < x + 2 + y
    OBVIOUS
  <2>2. zz = z + (e.len + 2)
    BY <1>5, <1>7
  <2>3. z + (e.len + 2) = z + 2 + e.len /\ z + 2 + e.len \in Nat /\ z < z + 2 + e.len
    BY <1>2, <1>11, <2>1, Zenon
  <2>4. zz = z + 2 + e.len
    BY <2>2, <2>3, Zenon
  <2> QED
    BY <2>3, <2>4, Zenon
<1>13. ASSUME NEW j \in 1..zz PROVE file'[j].k \in BodyKinds
  <2>1. CASE j <= z
    BY <1>2, <1>8, <2>1 DEF Layout
  <2>2. CASE ~(j <= z)
    <3> DEFINE i == j - z
    <3>1. i \in 1..Len(m) /\ z + i = j
      BY <1>2, <1>5, <1>11, <1>12, <2>2
    <3> HIDE DEF i
    <3> QED
      BY <1>5, <1>9, <3>1
  <2> QED
    BY <2>1, <2>2
<1>14. header' = "ok" /\ zz >= 2 /\ file'[1] = Header[1] /\ file'[2] = Header[2]
  <2>1. z >= 2 /\ file[1] = Header[1] /\ file[2] = Header[2]
    BY DEF Layout
  <2>2. 1 \in 1..z /\ 2 \in 1..z
    BY <1>2, <2>1
  <2> QED
    BY <1>2, <1>8, <1>12, <2>1, <2>2
<1>15. /\ hist' \in Seq(Entries) /\ Len(hist') = n + 1 /\ hist'[n + 1] = e
       /\ \A i \in 1..n : hist'[i] = hist[i]
  BY <1>2
<1>16. ASSUME NEW i \in 1..(n + 1) PROVE End(hist'[i]) <= zz /\ Placed(file', hist'[i])
  <2>1. CASE i = n + 1
    BY <1>10, <1>12, <1>15, <2>1
  <2>2. CASE i # n + 1
    <3>1. i \in 1..n /\ hist[i] \in Entries
      BY <1>2, <2>2
    <3>2. End(hist[i]) <= z /\ Placed(file, hist[i])
      BY <1>1, <3>1 DEF Layout
    <3>3. End(hist[i]) \in Nat
      BY <3>1, EntryNumbers
    <3>4. Placed(file', hist[i])
      BY <1>2, <1>8, <3>1, <3>2, PlacedKept
    <3> QED
      BY <1>2, <1>12, <1>15, <3>1, <3>2, <3>3, <3>4
  <2> QED
    BY <2>1, <2>2
<1>17. PICK s \in 0..n : SoundTo(s, z)
  BY DEF Layout
<1>18. \A i \in 0..n : Pos(i)' = Pos(i)
  BY <1>2, <1>15 DEF Pos
<1>19. CASE broken = 0
  <2>1. s = n
    BY <1>17, <1>19, AllSound
  <2>2. SoundTo(n + 1, zz)'
    <3>1. \A i \in DOMAIN hist' : i <= n + 1 /\ Sound(i)'
      BY <1>2, <1>15, <1>19 DEF Sound
    <3>2. ASSUME NEW i \in 1..(n + 1) PROVE hist'[i].at = Pos(i - 1)'
      <4>1. i - 1 \in 0..n /\ Pos(i - 1)' = Pos(i - 1)
        BY <1>2, <1>18
      <4>2. CASE i = n + 1
        <5>1. z = Pos(n) /\ i - 1 = n
          BY <1>2, <1>17, <1>19, <2>1, <4>2 DEF SoundTo
        <5> QED
          BY <1>15, <4>1, <4>2, <5>1
      <4>3. CASE i # n + 1
        <5>1. i \in 1..n
          BY <1>2, <4>3
        <5>2. hist[i].at = Pos(i - 1)
          BY <1>17, <2>1, <5>1 DEF SoundTo
        <5> QED
          BY <1>15, <4>1, <5>1, <5>2
      <4> QED
        BY <4>2, <4>3
    <3>3. Pos(n + 1)' = zz
      BY <1>2, <1>10, <1>15 DEF Pos
    <3> QED
      BY <1>19, <3>1, <3>2, <3>3 DEF SoundTo
  <2>3. n + 1 \in 0..Len(hist')
    BY <1>2, <1>15
  <2>4. zz \in 0..Len(file') /\ DOMAIN hist' = 1..(n + 1)
    BY <1>12, <1>15
  <2>5. Layout(file, zz)'
    BY <1>6, <1>13, <1>14, <1>16, <1>19, <2>2, <2>3, <2>4 DEF Layout
  <2> QED
    BY <1>12, <2>5
<1>20. CASE broken # 0
  <2>1. broken = Pos(s) + 1 /\ broken <= z /\ broken \in 1..z
    BY <1>2, <1>17, <1>20 DEF SoundTo
  <2>2. SoundTo(s, zz)'
    <3>1. ASSUME NEW i \in DOMAIN hist' PROVE i <= s <=> Sound(i)'
      <4>1. i \in 1..(n + 1)
        BY <1>15
      <4>2. CASE i = n + 1
        BY <1>2, <1>15, <1>20, <2>1, <4>2 DEF Sound
      <4>3. CASE i # n + 1
        <5>1. i \in 1..n /\ i \in DOMAIN hist
          BY <1>2, <4>1, <4>3
        <5>2. Sound(i)' <=> Sound(i)
          BY <1>15, <5>1 DEF Sound
        <5> QED
          BY <1>17, <5>1, <5>2 DEF SoundTo
      <4> QED
        BY <4>2, <4>3
    <3>2. ASSUME NEW i \in 1..s PROVE hist'[i].at = Pos(i - 1)'
      <4>1. i \in 1..n /\ i - 1 \in 0..n
        BY <1>2
      <4>2. hist[i].at = Pos(i - 1)
        BY <1>17 DEF SoundTo
      <4> QED
        BY <1>15, <1>18, <4>1, <4>2
    <3>3. broken' = Pos(s)' + 1 /\ broken' <= zz
      BY <1>2, <1>12, <1>18, <2>1
    <3> QED
      BY <1>20, <3>1, <3>2, <3>3 DEF SoundTo
  <2>3. s \in 0..Len(hist')
    BY <1>2, <1>15
  <2>4. Partial(file, zz)'
    <3>1. file'[z + 1].k = "base"
      <4>1. 1 \in 1..Len(m)
        BY <1>5, <1>11
      <4>2. file'[z + 1] = m[1]
        BY <1>9, <4>1
      <4> QED
        BY <1>5, <4>2 DEF Base
    <3>2. Partial(file, z)
      BY <1>20 DEF Layout
    <3> PICK g : g = file'
      OBVIOUS
    <3>3. Partial(g, zz)
      BY <1>2, <1>8, <1>12, <2>1, <3>1, <3>2, PartialKept
    <3>4. Partial(g, zz)'
      BY <3>3 DEF Partial
    <3> QED
      BY <3>4 DEF Partial
  <2>5. zz \in 0..Len(file') /\ DOMAIN hist' = 1..(n + 1)
    BY <1>12, <1>15
  <2>6. Layout(file, zz)'
    BY <1>6, <1>13, <1>14, <1>16, <1>20, <2>2, <2>3, <2>4, <2>5 DEF Layout
  <2> QED
    BY <1>12, <2>6
<1> QED
  BY <1>19, <1>20

LEMMA WriteLogFailsLayout ==
    ASSUME hist \in Seq(Entries), broken \in Nat, Layout(file, Len(file)), header = "ok",
           NEW e \in Entries, NEW i \in 1..(e.len + 1),
           file' = file \o SubSeq(makeLogEntry(e.id, e), 1, i),
           broken' = IF broken = 0 THEN Len(file) + 1 ELSE broken,
           UNCHANGED <<header, hist>>
    PROVE  Layout(file, Len(file))'
<1> DEFINE m == SubSeq(makeLogEntry(e.id, e), 1, i)
<1> PICK z : z = Len(file)
  OBVIOUS
<1> PICK zz : zz = Len(file')
  OBVIOUS
<1>1. Layout(file, z)
  OBVIOUS
<1>2. file \in Seq(Cells) /\ z \in Nat /\ Len(hist) \in Nat
  BY DEF Layout
<1>3. IsWrite(e) /\ e.len \in Nat
  BY EntryIsWrite, EntryNumbers
<1> DEFINE w == makeLogEntry(e.id, e)
<1>4. /\ w \in Seq(Cells) /\ Len(w) = e.len + 2 /\ w[1] = Base(e)
      /\ \A j \in 1..Len(w) : w[j].k \in BodyKinds
  BY <1>3, EntryIs
<1>5. m \in Seq(Cells) /\ Len(m) = i /\ \A j \in 1..i : m[j] = w[1 + j - 1]
  <2> HIDE DEF w
  <2>1. \A j \in 1..i : w[j] \in Cells
    BY <1>3, <1>4
  <2>2. 1 \in Int /\ i \in Int /\ 1 <= i /\ i - 1 + 1 = i
    BY <1>3
  <2> DEFINE ss == SubSeq(w, 1, i)
  <2>3. ss \in Seq(Cells) /\ Len(ss) = i - 1 + 1 /\ \A j \in 1..(i - 1 + 1) : ss[j] = w[1 + j - 1]
    BY <2>1, <2>2, SubSeqProperties
  <2>4. m = ss
    BY DEF w
  <2> HIDE DEF ss, m
  <2> QED
    BY <2>2, <2>3, <2>4
<1>6. m[1] = Base(e) /\ \A j \in 1..Len(m) : m[j].k \in BodyKinds
  <2> HIDE DEF w, m
  <2>1. \A j \in 1..i : m[j] = w[j] /\ j \in 1..Len(w)
    BY <1>3, <1>4, <1>5
  <2>2. 1 \in 1..i
    BY <1>3
  <2> QED
    BY <1>4, <1>5, <2>1, <2>2
<1>7. file' \in Seq(Cells)
  BY <1>2, <1>5, Appended
<1>8. Len(file') = Len(file) + Len(m)
  BY <1>2, <1>5, Appended
<1>9. \A j \in 1..z : file'[j] = file[j]
  BY <1>2, <1>5, Appended
<1>10. \A j \in 1..Len(m) : file'[z + j] = m[j]
  BY <1>2, <1>5, Appended
<1> HIDE DEF m, w
<1>11. zz = z + i /\ zz \in Nat /\ z < zz /\ i \in Nat /\ i >= 1
  BY <1>2, <1>3, <1>5, <1>8
<1>12. ASSUME NEW j \in 1..zz PROVE file'[j].k \in BodyKinds
  <2>1. CASE j <= z
    BY <1>1, <1>2, <1>9, <2>1 DEF Layout
  <2>2. CASE ~(j <= z)
    <3> DEFINE y == j - z
    <3>1. y \in 1..Len(m) /\ z + y = j
      BY <1>2, <1>5, <1>11, <2>2
    <3> HIDE DEF y
    <3> QED
      BY <1>6, <1>10, <3>1
  <2> QED
    BY <2>1, <2>2
<1>13. header' = "ok" /\ zz >= 2 /\ file'[1] = Header[1] /\ file'[2] = Header[2]
  <2>1. z >= 2 /\ file[1] = Header[1] /\ file[2] = Header[2]
    BY <1>1 DEF Layout
  <2>2. 1 \in 1..z /\ 2 \in 1..z
    BY <1>2, <2>1
  <2> QED
    BY <1>2, <1>9, <1>11, <2>1, <2>2
<1>14. ASSUME NEW x \in DOMAIN hist'
       PROVE  x \in DOMAIN hist /\ End(hist[x]) <= z /\ End(hist'[x]) <= zz /\ Placed(file', hist'[x])
  <2>1. x \in DOMAIN hist /\ hist[x] \in Entries /\ hist'[x] = hist[x]
    OBVIOUS
  <2>2. End(hist[x]) <= z /\ Placed(file, hist[x])
    BY <1>1, <2>1 DEF Layout
  <2>3. End(hist[x]) \in Nat
    BY <2>1, EntryNumbers
  <2>4. Placed(file', hist[x])
    BY <1>2, <1>9, <2>1, <2>2, PlacedKept
  <2> QED
    BY <1>2, <1>11, <2>1, <2>2, <2>3, <2>4
<1>15. PICK s \in 0..Len(hist) : SoundTo(s, z)
  BY <1>1 DEF Layout
<1>16. \A x : Pos(x)' = Pos(x)
  BY DEF Pos
<1>17. Pos(s) \in Nat
  BY <1>15, PosNat
<1>18. file'[z + 1] = Base(e) /\ file'[z + 1].k = "base"
  <2>1. 1 \in 1..Len(m)
    BY <1>5, <1>11
  <2>2. file'[z + 1] = m[1]
    BY <1>10, <2>1
  <2> QED
    BY <1>6, <2>2 DEF Base
<1>19. CASE broken = 0
  <2>1. s = Len(hist) /\ broken' = z + 1 /\ z = Pos(s)
    BY <1>15, <1>19, AllSound DEF SoundTo
  <2>2. SoundTo(s, zz)'
    <3>1. ASSUME NEW x \in DOMAIN hist' PROVE x <= s /\ Sound(x)'
      <4>1. End(hist[x]) <= z /\ hist[x] \in Entries /\ x \in 1..Len(hist)
        BY <1>14
      <4>2. hist[x].at + 2 + hist[x].len <= z /\ hist[x].at \in Nat /\ hist[x].len \in Nat
        BY <4>1, EntryNumbers
      <4>3. hist[x].at < z + 1
        BY <1>2, <4>2
      <4> QED
        BY <2>1, <4>1, <4>3 DEF Sound
    <3>2. \A x \in 1..s : hist'[x].at = Pos(x - 1)'
      BY <1>15, <1>16 DEF SoundTo
    <3>3. broken' = Pos(s)' + 1 /\ broken' <= zz /\ broken' # 0
      BY <1>2, <1>11, <1>16, <2>1
    <3> QED
      BY <3>1, <3>2, <3>3 DEF SoundTo
  <2>3. Partial(file, zz)'
    <3>1. file'[broken'] = Base(e)
      BY <1>18, <2>1
    <3>2. z + 1 + i <= zz + 1 /\ ~(z + 1 + i <= zz)
      BY <1>2, <1>11
    <3>3. broken' + i <= zz + 1 /\ ~(broken' + i <= zz)
      BY <2>1, <3>2
    <3> QED
      BY <3>1, <3>3 DEF Partial
  <2>4. zz \in 0..Len(file') /\ s \in 0..Len(hist')
    BY <1>11
  <2>5. Layout(file, zz)'
    BY <1>7, <1>12, <1>13, <1>14, <2>2, <2>3, <2>4 DEF Layout
  <2> QED
    BY <2>5
<1>20. CASE broken # 0
  <2>1. broken' = broken /\ broken = Pos(s) + 1 /\ broken <= z /\ broken \in 1..z
    BY <1>2, <1>15, <1>20 DEF SoundTo
  <2>2. SoundTo(s, zz)'
    <3>1. \A x : Sound(x)' <=> Sound(x)
      BY <2>1 DEF Sound
    <3>2. broken' = Pos(s)' + 1 /\ broken' <= zz /\ broken' # 0
      BY <1>2, <1>11, <1>16, <2>1
    <3> QED
      BY <1>15, <1>16, <3>1, <3>2 DEF SoundTo
  <2>3. Partial(file, zz)'
    <3>1. Partial(file, z)
      BY <1>1, <1>20 DEF Layout
    <3> PICK g : g = file'
      OBVIOUS
    <3>2. Partial(g, zz)
      BY <1>2, <1>9, <1>11, <1>18, <2>1, <3>1, PartialKept
    <3>3. Partial(g, zz)'
      BY <2>1, <3>2 DEF Partial
    <3> QED
      BY <3>3 DEF Partial
  <2>4. zz \in 0..Len(file') /\ s \in 0..Len(hist')
    BY <1>11
  <2>5. Layout(file, zz)'
    BY <1>7, <1>12, <1>13, <1>14, <2>2, <2>3, <2>4 DEF Layout
  <2> QED
    BY <2>5
<1> QED
  BY <1>19, <1>20

LEMMA CloseFooterLayout ==
    ASSUME hist \in Seq(Entries), broken \in Nat, Layout(file, Len(file)), IndexOK(index),
           file' = file \o Footer(index), closing' = "closed", UNCHANGED <<header, hist, broken, index>>
    PROVE  RunningFile'
<1> DEFINE m == Footer(index)
<1> PICK z : z = Len(file)
  OBVIOUS
<1> PICK g : g = file'
  OBVIOUS
<1>1. Layout(file, z)
  OBVIOUS
<1>2. file \in Seq(Cells) /\ z \in Nat
  BY DEF Layout
<1>3. m \in Seq(Cells)
  BY FooterIs
<1>4. Len(m) = Len(IndexEntries(index)) + 2 /\ Len(IndexEntries(index)) \in Nat
  BY FooterIs
<1> HIDE DEF m
<1>5. g \in Seq(Cells)
  BY <1>2, <1>3, Appended DEF m
<1>6. Len(g) = Len(file) + Len(m)
  BY <1>2, <1>3, Appended DEF m
<1>7. \A j \in 1..z : g[j] = file[j]
  BY <1>2, <1>3, Appended DEF m
<1>8. \A j \in 1..Len(m) : g[z + j] = m[j]
  BY <1>2, <1>3, Appended DEF m
<1>9. Len(g) = z + Len(m) /\ z < Len(g) /\ z \in 0..Len(g)
  BY <1>2, <1>6, <1>4
<1>10. Layout(g, z)
  <2>1. z <= Len(g)
    BY <1>9
  <2> QED
    BY <1>1, <1>5, <1>7, <2>1, LayoutKept
<1>11. Layout(g, z)'
  BY <1>10, LayoutFrame
<1>12. Footed(file, z, index)'
  <2>1. Footer(index)' = m
    BY ZenonT(40) DEF m, Footer, IndexEntries, IndexEntry, ExtentStarts, ExtentEnd
  <2> QED
    BY <1>8, <1>9, <2>1 DEF Footed
<1>13. Layout(file, z)'
  BY <1>11 DEF Layout, Partial
<1> QED
  BY <1>9, <1>12, <1>13 DEF RunningFile
-----------------------------------------------------------------------------
(* The history and the index *)

LEMMA IndexedIsDone ==
    ASSUME Types
    PROVE  Indexed = Done
<1> DEFINE S == {t \in Writers : wr[t].pc \in {"logged", "indexing"}}
<1>1. \A t \in Writers : t \in S <=> t = writeLock \/ t = indexLock
  BY DEF Types
<1>2. /\ writeLock \in Writers => writeLock \in S
      /\ indexLock \in Writers => indexLock \in S
  BY <1>1
<1>3. Len(hist) \in Nat
  BY DEF Types
<1>4. Indexed = Len(hist) - Cardinality(S)
  BY DEF Indexed
<1>5. writeLock \in Writers => writeLock # NoThread /\ writeLock # indexLock
  BY NoThreadAssumption DEF Types
<1>6. indexLock \in Writers => indexLock # NoThread
  BY NoThreadAssumption
<1> HIDE DEF S
<1>7. S \subseteq Writers
  BY DEF S
<1>8. CASE writeLock \notin Writers /\ indexLock \notin Writers
  <2>1. S = {}
    BY <1>1, <1>7, <1>8
  <2>2. Cardinality(S) = 0
    BY <2>1, FS_EmptySet
  <2>3. writeLock = NoThread /\ indexLock = NoThread
    BY <1>8 DEF Types
  <2> QED
    BY <1>3, <1>4, <2>2, <2>3 DEF Done, Held
<1>9. CASE writeLock \in Writers /\ indexLock \notin Writers
  <2>1. S = {writeLock}
    BY <1>1, <1>2, <1>7, <1>9
  <2>2. Cardinality(S) = 1
    BY <2>1, FS_Singleton
  <2>3. writeLock # NoThread /\ indexLock = NoThread
    BY <1>5, <1>9 DEF Types
  <2> QED
    BY <1>3, <1>4, <2>2, <2>3 DEF Done, Held
<1>10. CASE writeLock \notin Writers /\ indexLock \in Writers
  <2>1. S = {indexLock}
    BY <1>1, <1>2, <1>7, <1>10
  <2>2. Cardinality(S) = 1
    BY <2>1, FS_Singleton
  <2>3. writeLock = NoThread /\ indexLock # NoThread
    BY <1>6, <1>10 DEF Types
  <2> QED
    BY <1>3, <1>4, <2>2, <2>3 DEF Done, Held
<1>11. CASE writeLock \in Writers /\ indexLock \in Writers
  <2>1. S = {writeLock} \cup {indexLock}
    BY <1>1, <1>2, <1>7, <1>11
  <2>2. IsFiniteSet({writeLock}) /\ Cardinality({writeLock}) = 1 /\ indexLock \notin {writeLock}
    BY <1>5, <1>11, FS_Singleton
  <2>3. Cardinality(S) = 2
    BY <2>1, <2>2, FS_AddElement
  <2>4. writeLock # NoThread /\ indexLock # NoThread
    BY <1>5, <1>6, <1>11
  <2> QED
    BY <1>3, <1>4, <2>3, <2>4 DEF Done, Held
<1> QED
  BY <1>8, <1>9, <1>10, <1>11

LEMMA LastExists ==
    ASSUME NEW n \in Nat, NEW a
    PROVE  \/ \A i \in 1..n : ~Covers(hist[i], a)
           \/ \E i \in 1..n : LastOf(i, n, a)
<1> SUFFICES ASSUME NEW j \in 1..n, Covers(hist[j], a) PROVE \E i \in 1..n : LastOf(i, n, a)
  OBVIOUS
<1> DEFINE T == {i \in 1..n : Covers(hist[i], a)}
<1>1. T \in SUBSET Nat /\ T # {} /\ \A m \in T : m <= n
  OBVIOUS
<1>2. Max(T) \in T /\ \A m \in T : m <= Max(T)
  BY <1>1, MaxOfBounded
<1> DEFINE x == Max(T)
<1>3. x \in 1..n /\ Covers(hist[x], a)
  BY <1>2
<1>4. ASSUME NEW i \in (x + 1)..n, Covers(hist[i], a) PROVE FALSE
  <2>1. i \in T
    BY <1>3, <1>4
  <2>2. i <= x
    BY <1>2, <2>1
  <2> HIDE DEF x
  <2> QED
    BY <1>3, <2>2
<1> HIDE DEF x
<1> QED
  BY <1>3, <1>4 DEF LastOf

LEMMA ExpectedIs ==
    ASSUME NEW n \in Nat, NEW a
    PROVE  /\ (\A i \in 1..n : ~Covers(hist[i], a)) => Expected(a, n) = Zero
           /\ \A i \in 1..n : LastOf(i, n, a) =>
                Expected(a, n) = IF file[hist[i].at + entryHeaderSize + (a - hist[i].off) + 1].k = "lost"
                                 THEN Zero ELSE Byte(hist[i].id, a)
<1> DEFINE T == {i \in 1..n : Covers(hist[i], a)}
<1>1. (\A i \in 1..n : ~Covers(hist[i], a)) => Expected(a, n) = Zero
  BY DEF Expected
<1>2. ASSUME NEW i \in 1..n, LastOf(i, n, a)
      PROVE  Expected(a, n) = IF file[hist[i].at + entryHeaderSize + (a - hist[i].off) + 1].k = "lost"
                              THEN Zero ELSE Byte(hist[i].id, a)
  <2>1. T \in SUBSET Nat /\ i \in T
    BY <1>2 DEF LastOf
  <2>2. ASSUME NEW m \in T PROVE m <= i
    BY <1>2 DEF LastOf
  <2>3. Max(T) = i
    BY <2>1, <2>2, MaxIs
  <2>4. T # {}
    BY <2>1
  <2> HIDE DEF T
  <2> QED
    BY <2>3, <2>4 DEF Expected, T
<1> QED
  BY <1>1, <1>2

\* idx leads to the data of the first n entries.
Points(idx, n) ==
    \A a \in Addrs :
        /\ (\A i \in 1..n : ~Covers(hist[i], a)) => idx[a] = NoRec
        /\ \A i \in 1..n : LastOf(i, n, a) =>
              /\ idx[a] # NoRec
              /\ Sound(i) => LogOff(idx[a], a) = hist[i].at + entryHeaderSize + (a - hist[i].off)

LEMMA MatchesPoints ==
    ASSUME hist \in Seq(Entries), NEW n \in 0..Len(hist), NEW idx, Matches(idx, n)
    PROVE  Points(idx, n)
<1> SUFFICES ASSUME NEW a \in Addrs
             PROVE  /\ (\A i \in 1..n : ~Covers(hist[i], a)) => idx[a] = NoRec
                    /\ \A i \in 1..n : LastOf(i, n, a) =>
                          /\ idx[a] # NoRec
                          /\ Sound(i) => LogOff(idx[a], a)
                                          = hist[i].at + entryHeaderSize + (a - hist[i].off)
  BY DEF Points
<1>1. ASSUME NEW i \in 1..n, LastOf(i, n, a)
      PROVE  /\ idx[a] # NoRec
             /\ Sound(i) => LogOff(idx[a], a) = hist[i].at + entryHeaderSize + (a - hist[i].off)
  <2>1. /\ idx[a] \in Records /\ idx[a].off = hist[i].off
        /\ Sound(i) => idx[a].logOffset = hist[i].at + entryHeaderSize
    BY <1>1 DEF Matches
  <2> QED
    BY <2>1, NoRecApart DEF LogOff
<1> QED
  BY <1>1 DEF Matches

\* The records cover the addresses they are for.
LEMMA MatchesOK ==
    ASSUME hist \in Seq(Entries), NEW n \in 0..Len(hist), NEW idx, Matches(idx, n)
    PROVE  IndexOK(idx)
<1>1. ASSUME NEW a \in Addrs, idx[a] # NoRec PROVE Covers(idx[a], a)
  <2>1. n \in Nat /\ ~ \A i \in 1..n : ~Covers(hist[i], a)
    BY <1>1 DEF Matches
  <2>2. PICK i \in 1..n : LastOf(i, n, a)
    BY <2>1, LastExists
  <2>3. idx[a].off = hist[i].off /\ idx[a].len = hist[i].len /\ Covers(hist[i], a)
    BY <2>2 DEF Matches, LastOf
  <2> QED
    BY <2>3 DEF Covers
<1> QED
  BY <1>1 DEF IndexOK, Matches

\* WriteIndex: the record of the next entry is added.
LEMMA MatchesAdd ==
    ASSUME hist \in Seq(Entries), NEW n \in Nat, n + 1 \in 1..Len(hist), NEW idx, Matches(idx, n),
           NEW rec \in Records, rec.off = hist[n + 1].off, rec.len = hist[n + 1].len,
           Sound(n + 1) => rec.logOffset = hist[n + 1].at + entryHeaderSize
    PROVE  Matches(Add(idx, rec), n + 1)
<1> DEFINE new == Add(idx, rec)
<1>1. \A a \in Addrs : new[a] = IF Covers(hist[n + 1], a) THEN rec ELSE idx[a]
  BY DEF Add, Covers
<1>2. new \in [Addrs -> Records \cup {NoRec}]
  BY DEF Add, Matches
<1> HIDE DEF new
<1>3. ASSUME NEW a \in Addrs, \A i \in 1..(n + 1) : ~Covers(hist[i], a) PROVE new[a] = NoRec
  <2>1. n + 1 \in 1..(n + 1) /\ \A i \in 1..n : i \in 1..(n + 1)
    OBVIOUS
  <2> QED
    BY <1>1, <1>3, <2>1 DEF Matches
<1>4. ASSUME NEW a \in Addrs, NEW i \in 1..(n + 1), LastOf(i, n + 1, a)
      PROVE  /\ new[a] \in Records
             /\ new[a].off = hist[i].off /\ new[a].len = hist[i].len
             /\ Sound(i) => new[a].logOffset = hist[i].at + entryHeaderSize
  <2>1. CASE i = n + 1
    BY <1>1, <1>4, <2>1 DEF LastOf
  <2>2. CASE i # n + 1
    <3>1. i \in 1..n /\ n + 1 \in (i + 1)..(n + 1) /\ \A j \in (i + 1)..n : j \in (i + 1)..(n + 1)
      BY <2>2
    <3>2. LastOf(i, n, a) /\ ~Covers(hist[n + 1], a)
      BY <1>4, <3>1 DEF LastOf
    <3> QED
      BY <1>1, <3>1, <3>2 DEF Matches
  <2> QED
    BY <2>1, <2>2
<1>5. Matches(new, n + 1)
  BY <1>2, <1>3, <1>4 DEF Matches
<1> QED
  BY <1>5 DEF new

\* It depends only on the entries it is about.
LEMMA MatchesKept ==
    ASSUME NEW n, NEW idx, Matches(idx, n),
           \A i \in 1..n : hist'[i] = hist[i] /\ (Sound(i)' => Sound(i))
    PROVE  Matches(idx, n)'
<1>1. ASSUME NEW i \in 1..n, NEW a, LastOf(i, n, a)' PROVE LastOf(i, n, a)
  BY <1>1 DEF LastOf
<1> QED
  BY <1>1 DEF Matches

\* The address a of entry i: its cell.
CellOf(i, a) == hist[i].at + entryHeaderSize + (a - hist[i].off) + 1

LEMMA CellNumbers ==
    ASSUME NEW e \in Entries, NEW a \in Nat, e.off <= a, a < e.off + e.len,
           NEW q, q = e.at + 2 + (a - e.off) + 1
    PROVE  q \in Nat /\ q >= 1 /\ q <= End(e) /\ q = e.at + 3 + (a - e.off)
<1>1. e.at \in Nat /\ e.off \in Nat /\ e.len \in Nat /\ End(e) = e.at + 2 + e.len
  BY EntryNumbers
<1>2. \A x, y, l \in Nat : y <= a /\ a < y + l =>
          /\ x + 2 + (a - y) + 1 \in Nat /\ x + 2 + (a - y) + 1 >= 1
          /\ x + 2 + (a - y) + 1 <= x + 2 + l /\ x + 2 + (a - y) + 1 = x + 3 + (a - y)
  OBVIOUS
<1> QED
  BY <1>1, <1>2

LEMMA CellPlaced ==
    ASSUME hist \in Seq(Entries), NEW i \in 1..Len(hist), NEW a \in Addrs, Covers(hist[i], a)
    PROVE  /\ CellOf(i, a) \in Nat /\ CellOf(i, a) >= 1 /\ CellOf(i, a) <= End(hist[i])
           /\ CellOf(i, a) = hist[i].at + 3 + (a - hist[i].off)
           /\ \A g : Placed(g, hist[i]) => g[CellOf(i, a)] = DataCell(hist[i].id, a)
<1> PICK e : e = hist[i]
  OBVIOUS
<1>1. e \in Entries
  OBVIOUS
<1>2. e.at \in Nat /\ e.off \in Nat /\ e.len \in Nat /\ End(e) = e.at + 2 + e.len
  BY <1>1, EntryNumbers
<1>3. a \in Nat /\ e.off <= a /\ a < e.off + e.len
  BY MaxAddrAssumption DEF Addrs, Covers
<1>4. CellOf(i, a) = e.at + 2 + (a - e.off) + 1
  BY DEF CellOf, entryHeaderSize
<1>5. /\ CellOf(i, a) \in Nat /\ CellOf(i, a) >= 1 /\ CellOf(i, a) <= End(e)
      /\ CellOf(i, a) = e.at + 3 + (a - e.off)
  BY <1>1, <1>3, <1>4, CellNumbers
<1>6. \A g : Placed(g, e) => g[e.at + 3 + (a - e.off)] = DataCell(e.id, a)
  BY DEF Placed
<1> QED
  BY <1>5, <1>6

\* Reading an address through an index that leads to the first n entries, of
\* which those after the first k do not write it.
LEMMA ReadIs ==
    ASSUME hist \in Seq(Entries), NEW n \in 0..Len(hist), NEW k \in 0..n, NEW idx, Points(idx, n),
           NEW a \in Addrs, \A i \in (k + 1)..n : ~Covers(hist[i], a),
           \A i \in 1..k : LastOf(i, k, a) =>
               /\ Sound(i) /\ CellOf(i, a) \in DOMAIN file
               /\ file[CellOf(i, a)] \in {DataCell(hist[i].id, a), [k |-> "lost"]}
    PROVE  ReadAt(idx, a) = Expected(a, k)
<1>1. n \in Nat /\ k \in Nat /\ \A i \in 1..n : i \in 1..k \/ i \in (k + 1)..n
  OBVIOUS
<1>2. CASE \A i \in 1..k : ~Covers(hist[i], a)
  <2>1. \A i \in 1..n : ~Covers(hist[i], a)
    BY <1>1, <1>2
  <2>2. idx[a] = NoRec
    BY <2>1 DEF Points
  <2>3. Expected(a, k) = Zero
    BY <1>1, <1>2, ExpectedIs
  <2> QED
    BY <2>2, <2>3 DEF ReadAt
<1>3. CASE ~ \A i \in 1..k : ~Covers(hist[i], a)
  <2>1. PICK i \in 1..k : LastOf(i, k, a)
    BY <1>1, <1>3, LastExists
  <2>2. i \in 1..n /\ i \in 1..Len(hist) /\ \A j \in (i + 1)..n : j \in (i + 1)..k \/ j \in (k + 1)..n
    BY <1>1
  <2>3. LastOf(i, n, a) /\ Covers(hist[i], a)
    BY <2>1, <2>2 DEF LastOf
  <2>4. /\ Sound(i) /\ CellOf(i, a) \in DOMAIN file
        /\ file[CellOf(i, a)] \in {DataCell(hist[i].id, a), [k |-> "lost"]}
    BY <2>1
  <2>5. idx[a] # NoRec /\ LogOff(idx[a], a) + 1 = CellOf(i, a)
    BY <2>2, <2>3, <2>4 DEF Points, CellOf
  <2>6. ReadAt(idx, a) = CellByte(file[CellOf(i, a)])
    BY <2>4, <2>5 DEF ReadAt, ReadCell
  <2>7. Expected(a, k) = IF file[CellOf(i, a)].k = "lost" THEN Zero ELSE Byte(hist[i].id, a)
    BY <1>1, <2>1, ExpectedIs DEF CellOf
  <2>8. CASE file[CellOf(i, a)] = DataCell(hist[i].id, a)
    <3>1. /\ file[CellOf(i, a)].k = "data" /\ file[CellOf(i, a)].id = hist[i].id
          /\ file[CellOf(i, a)].addr = a
      BY <2>8 DEF DataCell
    <3> QED
      BY <2>6, <2>7, <3>1 DEF CellByte
  <2>9. CASE file[CellOf(i, a)] = [k |-> "lost"]
    <3>1. file[CellOf(i, a)].k = "lost"
      BY <2>9
    <3> QED
      BY <2>6, <2>7, <3>1 DEF CellByte
  <2> QED
    BY <2>4, <2>8, <2>9
<1> QED
  BY <1>2, <1>3

\* From the running log.
LEMMA RunningRead ==
    ASSUME hist \in Seq(Entries), NEW z \in 0..Len(file), Layout(file, z), NEW n \in 0..Len(hist),
           NEW k \in 0..n, Matches(index, n), NEW a \in Addrs,
           \A i \in (k + 1)..n : ~Covers(hist[i], a), \A i \in 1..k : Sound(i)
    PROVE  ReadAt(index, a) = Expected(a, k)
<1>1. file \in Seq(Cells) /\ Len(file) \in Nat /\ n \in Nat /\ k \in Nat
  BY DEF Layout
<1>2. Points(index, n)
  BY MatchesPoints
<1>3. ASSUME NEW i \in 1..k, LastOf(i, k, a)
      PROVE  /\ Sound(i) /\ CellOf(i, a) \in DOMAIN file
             /\ file[CellOf(i, a)] \in {DataCell(hist[i].id, a), [k |-> "lost"]}
  <2>1. i \in 1..Len(hist) /\ Covers(hist[i], a)
    BY <1>1, <1>3 DEF LastOf
  <2>2. End(hist[i]) <= z /\ Placed(file, hist[i])
    BY <2>1 DEF Layout
  <2>3. End(hist[i]) \in Nat
    BY <2>1, EntryNumbers
  <2>4. /\ CellOf(i, a) \in Nat /\ CellOf(i, a) >= 1 /\ CellOf(i, a) <= End(hist[i])
        /\ file[CellOf(i, a)] = DataCell(hist[i].id, a)
    BY <2>1, <2>2, CellPlaced
  <2>5. CellOf(i, a) \in 1..Len(file)
    BY <1>1, <2>2, <2>3, <2>4
  <2> QED
    BY <1>1, <2>4, <2>5
<1> QED
  BY <1>2, <1>3, ReadIs

\* Bytes of the running log.
LEMMA ExpectedByte ==
    ASSUME hist \in Seq(Entries), NEW n \in 0..Len(hist), NEW a \in Addrs
    PROVE  Expected(a, n) \in Bytes
<1>1. Zero \in Bytes /\ n \in Nat /\ a \in Nat
  BY MaxAddrAssumption DEF Zero, Bytes, Addrs
<1>2. CASE \A i \in 1..n : ~Covers(hist[i], a)
  BY <1>1, <1>2, ExpectedIs
<1>3. CASE ~ \A i \in 1..n : ~Covers(hist[i], a)
  <2>1. PICK i \in 1..n : LastOf(i, n, a)
    BY <1>1, <1>3, LastExists
  <2>2. hist[i] \in Entries
    BY <1>1
  <2>3. Byte(hist[i].id, a) \in Bytes
    BY <1>1, <2>2, EntryNumbers DEF Byte, Bytes
  <2>4. Expected(a, n) = Zero \/ Expected(a, n) = Byte(hist[i].id, a)
    BY <1>1, <2>1, ExpectedIs
  <2> QED
    BY <1>1, <2>3, <2>4
<1> QED
  BY <1>2, <1>3

LEMMA ReadCellByte ==
    ASSUME file \in Seq(Cells), NEW rec, NEW a
    PROVE  ReadCell(rec, a) \in Bytes
<1>1. Zero \in Bytes /\ Junk \in Bytes
  BY DEF Zero, Junk, Bytes
<1>2. ASSUME NEW j \in DOMAIN file PROVE CellByte(file[j]) \in Bytes
  <2>1. file[j] \in Cells
    OBVIOUS
  <2>2. file[j].k = "data" => file[j].id \in Nat /\ file[j].addr \in Addrs
    BY <2>1, NoOtherKind
  <2>3. file[j].k = "data" => Byte(file[j].id, file[j].addr) \in Bytes
    BY <2>2, MaxAddrAssumption DEF Byte, Bytes, Addrs
  <2> QED
    BY <1>1, <2>3 DEF CellByte
<1> QED
  BY <1>1, <1>2 DEF ReadCell

\* What the first n entries say stays the same while the file grows.
LEMMA ExpectedKept ==
    ASSUME hist \in Seq(Entries), NEW z \in 0..Len(file), Layout(file, z), NEW n \in 0..Len(hist),
           NEW a \in Addrs, \A i \in 1..n : hist'[i] = hist[i],
           \A j \in 1..z : file'[j] = file[j]
    PROVE  Expected(a, n)' = Expected(a, n)
<1>1. n \in Nat /\ z \in Nat
  BY DEF Layout
<1>2. CASE \A i \in 1..n : ~Covers(hist[i], a)
  <2>1. \A i \in 1..n : ~Covers(hist'[i], a)
    BY <1>2
  <2>2. Expected(a, n) = Zero
    BY <1>1, <1>2, ExpectedIs
  <2>3. Expected(a, n)' = Zero
    BY <2>1 DEF Expected, Zero
  <2> QED
    BY <2>2, <2>3
<1>3. CASE ~ \A i \in 1..n : ~Covers(hist[i], a)
  <2>1. {i \in 1..n : Covers(hist[i], a)}' = {i \in 1..n : Covers(hist[i], a)}
    BY DEF Covers
  <2>2. PICK i \in 1..n : LastOf(i, n, a)
    BY <1>1, <1>3, LastExists
  <2> DEFINE T == {x \in 1..n : Covers(hist[x], a)}
  <2>3. Max(T) = i
    <3>1. T \in SUBSET Nat /\ i \in T
      BY <2>2 DEF LastOf
    <3>2. ASSUME NEW m \in T PROVE m <= i
      BY <2>2 DEF LastOf
    <3> QED
      BY <3>1, <3>2, MaxIs
  <2>4. i \in 1..Len(hist) /\ Covers(hist[i], a)
    BY <1>1, <2>2 DEF LastOf
  <2>5. CellOf(i, a) \in 1..z
    <3>1. End(hist[i]) <= z /\ End(hist[i]) \in Nat
      BY <2>4, EntryNumbers DEF Layout
    <3>2. CellOf(i, a) \in Nat /\ CellOf(i, a) >= 1 /\ CellOf(i, a) <= End(hist[i])
      BY <2>4, CellPlaced
    <3> QED
      BY <1>1, <3>1, <3>2
  <2>6. /\ file'[CellOf(i, a)] = file[CellOf(i, a)]
        /\ CellOf(i, a) = hist[i].at + entryHeaderSize + (a - hist[i].off) + 1
    BY <2>5 DEF CellOf
  <2>7. T # {} /\ T' = T
    BY <2>1, <2>4
  <2> HIDE DEF T
  <2>8. Expected(a, n) = IF file[CellOf(i, a)].k = "lost" THEN Zero ELSE Byte(hist[i].id, a)
    BY <2>3, <2>6, <2>7 DEF Expected, T
  <2>9. Expected(a, n)' = IF T' = {} THEN Zero
            ELSE IF file'[hist'[Max(T')].at + entryHeaderSize + (a - hist'[Max(T')].off) + 1].k = "lost"
                 THEN Zero ELSE Byte(hist'[Max(T')].id, a)
    BY DEF Expected, T
  <2>10. hist'[Max(T')] = hist[i]
    BY <2>3, <2>7
  <2> QED
    BY <2>6, <2>7, <2>8, <2>9, <2>10
<1> QED
  BY <1>2, <1>3
-----------------------------------------------------------------------------
(* The running log: what the steps leave alone *)

LEMMA DoneIn ==
    ASSUME Types, Calls
    PROVE  /\ Len(hist) \in Nat /\ Done \in 0..Len(hist)
           /\ \A t \in Writers : wr[t].pc = "indexing" => EntryOf(t) = Done + 1
           /\ \A t \in Writers : wr[t].pc = "logged" => EntryOf(t) = Len(hist)
<1>1. Len(hist) \in Nat /\ DOMAIN hist = 1..Len(hist)
  BY DEF Types
<1>2. ASSUME NEW t \in Writers, wr[t].pc = "indexing"
      PROVE  /\ EntryOf(t) = Done + 1 /\ Done + 1 \in 1..Len(hist)
             /\ indexLock # NoThread
  <2>1. indexLock = t /\ t # NoThread
    BY <1>2, NoThreadAssumption DEF Types
  <2>2. EntryOf(t) = Len(hist) - Held(writeLock) /\ Done = Len(hist) - Held(writeLock) - 1
    BY <1>2, <2>1 DEF EntryOf, Done, Held
  <2>3. EntryOf(t) \in 1..Len(hist)
    BY <1>1, <1>2 DEF Calls
  <2>4. Held(writeLock) \in {0, 1}
    BY DEF Held
  <2> QED
    BY <1>1, <2>1, <2>2, <2>3, <2>4
<1>3. ASSUME NEW t \in Writers, wr[t].pc = "logged"
      PROVE  EntryOf(t) = Len(hist) /\ Len(hist) \in 1..Len(hist)
  <2>1. EntryOf(t) = Len(hist)
    BY <1>3 DEF EntryOf
  <2> QED
    BY <1>1, <1>3, <2>1 DEF Calls
<1>4. Done \in 0..Len(hist)
  <2>1. CASE indexLock # NoThread
    <3>1. indexLock \in Writers /\ wr[indexLock].pc = "indexing"
      BY <2>1 DEF Types
    <3>2. Done + 1 \in 1..Len(hist)
      BY <1>2, <3>1
    <3>3. Done \in Int
      BY <1>1 DEF Done, Held
    <3> QED
      BY <1>1, <3>2, <3>3
  <2>2. CASE indexLock = NoThread /\ writeLock # NoThread
    <3>1. writeLock \in Writers /\ wr[writeLock].pc = "logged"
      BY <2>2 DEF Types
    <3>2. Len(hist) \in 1..Len(hist)
      BY <1>3, <3>1
    <3> QED
      BY <1>1, <2>2, <3>2 DEF Done, Held
  <2>3. CASE indexLock = NoThread /\ writeLock = NoThread
    BY <1>1, <2>3 DEF Done, Held
  <2> QED
    BY <2>1, <2>2, <2>3
<1> QED
  BY <1>1, <1>2, <1>3, <1>4

LEMMA RunningFileKept ==
    ASSUME RunningFile, UNCHANGED <<file, offset, header, hist, broken>>,
           \/ UNCHANGED <<index, closing>>
           \/ closing # "closed" /\ closing' # "closed"
    PROVE  RunningFile'
<1>1. PICK z \in 0..Len(file) : /\ Layout(file, z) /\ Footed(file, z, index)
                                /\ closing = "closed" <=> z < Len(file)
                                /\ broken = 0 /\ closing # "closed" => offset = z
  BY DEF RunningFile
<1> PICK g : g = file
  OBVIOUS
<1>2. Layout(g, z)'
  BY <1>1, LayoutFrame
<1>3. Layout(file, z)'
  BY <1>2 DEF Layout, Partial
<1>4. Footed(file, z, index)'
  <2>1. CASE UNCHANGED <<index, closing>>
    <3>1. Footer(index)' = Footer(index)
      BY <2>1 DEF Footer, IndexEntries, IndexEntry, ExtentStarts, ExtentEnd
    <3> QED
      BY <1>1, <3>1 DEF Footed
  <2>2. CASE closing # "closed"
    BY <1>1, <2>2 DEF Footed
  <2> QED
    BY <2>1, <2>2
<1> QED
  BY <1>1, <1>3, <1>4 DEF RunningFile

LEMMA ReadingKept ==
    ASSUME RunningFile, Reading, hist \in Seq(Entries), Done \in 0..Len(hist),
           rd' = rd, Done' = Done, \A i \in 1..Done : hist'[i] = hist[i],
           file' \in Seq(Cells), Len(file) <= Len(file'),
           \A j \in 1..Len(file) : file'[j] = file[j], broken' = 0 => broken = 0
    PROVE  Reading'
<1> SUFFICES ASSUME broken' = 0, broken = 0 PROVE Reading'
  BY DEF Reading
<1>1. PICK z \in 0..Len(file) : Layout(file, z)
  BY DEF RunningFile
<1>2. file \in Seq(Cells) /\ Len(file) \in Nat /\ Len(file') \in Nat /\ \A j \in 1..z : j \in 1..Len(file)
  BY <1>1 DEF Layout
<1> PICK n : n = Done
  OBVIOUS
<1>3. \A a \in Addrs : Expected(a, n)' = Expected(a, n)
  BY <1>1, <1>2, ExpectedKept
<1>4. \A a \in Addrs : Expected(a, Done)' = Expected(a, Done)
  BY <1>3 DEF Expected
<1>5. ASSUME NEW rec, NEW a, LogOff(rec, a) + 1 \in DOMAIN file
      PROVE  LogOff(rec, a) + 1 \in DOMAIN file' /\ ReadCell(rec, a)' = ReadCell(rec, a)
  <2> PICK j : j = LogOff(rec, a) + 1
    OBVIOUS
  <2>1. j \in 1..Len(file)
    BY <1>2, <1>5
  <2>2. j \in 1..Len(file')
    BY <1>2, <2>1
  <2>3. j \in DOMAIN file' /\ file'[j] = file[j]
    BY <2>1, <2>2
  <2>4. ReadCell(rec, a) = CellByte(file[j])
    BY <1>5 DEF ReadCell
  <2>5. ReadCell(rec, a)' = CellByte(file'[j])
    BY <2>3 DEF ReadCell, LogOff, CellByte, Byte, Zero, Junk
  <2> QED
    BY <2>3, <2>4, <2>5
<1>6. /\ \A i \in 1..Len(rd.buf) : /\ rd.first + i - 1 \in Addrs
                                   /\ rd.buf[i] \in rd.seen[rd.first + i - 1]
      /\ rd.pc \in {"lookup", "io"} => /\ rd.off = rd.first + Len(rd.buf)
                                       /\ rd.off <= rd.end
                                       /\ \A a \in Addrs : Expected(a, Done) \in rd.seen[a]
      /\ rd.pc = "io" =>
              /\ rd.off + rd.n <= rd.end
              /\ \A i \in 1..rd.n :
                    /\ LogOff(rd.rec, rd.off + i - 1) + 1 \in DOMAIN file
                    /\ ReadCell(rd.rec, rd.off + i - 1) \in rd.seen[rd.off + i - 1]
  BY DEF Reading
<1>7. rd.pc = "io" => \A i \in 1..rd.n :
                    /\ LogOff(rd.rec, rd.off + i - 1)' + 1 \in DOMAIN file'
                    /\ ReadCell(rd.rec, rd.off + i - 1)' \in rd.seen[rd.off + i - 1]
  BY <1>5, <1>6 DEF LogOff, ReadCell
<1> QED
  BY <1>4, <1>6, <1>7 DEF Reading
-----------------------------------------------------------------------------
(* The running log: one lemma per action of a writer *)

Thread == [pc : {"idle", "start", "logged", "indexing"}, id : Nat, off : Addrs,
           len : 0..(MaxAddr + 1), logOffset : Nat]

LEMMA IdleThread == Idle \in Thread
  BY MaxAddrAssumption DEF Idle, Thread, Addrs

\* A call begins: the others, the locks and the index are as before.
LEMMA CallBegins ==
    ASSUME Types, RunInv, NEW t \in Writers, wr[t].pc = "idle",
           NEW c \in Thread, c.pc \in {"idle", "start"}, wr' = [wr EXCEPT ![t] = c],
           c.pc = "start" => c.len >= 1 /\ c.off + c.len - 1 <= MaxAddr /\ header' = "ok",
           header # "none" => header' = header, header' # "none",
           offset' \in Nat, header' \in {"ok", "failed"}, tries' \in 0..MaxWrites,
           failures' \in 0..MaxFailures, RunningFile', file' \in Seq(Cells),
           Len(file) <= Len(file'), \A j \in 1..Len(file) : file'[j] = file[j],
           UNCHANGED <<closing, index, lockvars, rd, reader, hist, broken, reads>>
    PROVE  Types' /\ RunInv'
<1>1. /\ wr \in [Writers -> Thread] /\ wr' \in [Writers -> Thread]
      /\ wr'[t] = c /\ \A u \in Writers : u # t => wr'[u] = wr[u]
  BY DEF Types, WrType, Thread
<1>2. WrType'
  BY <1>1 DEF WrType, Thread
<1>3. RdType'
  BY DEF Types, RdType
<1>4. \A u \in Writers : /\ writeLock' = u <=> wr'[u].pc = "logged"
                         /\ indexLock' = u <=> wr'[u].pc = "indexing"
  <2> SUFFICES ASSUME NEW u \in Writers
               PROVE  /\ writeLock' = u <=> wr'[u].pc = "logged"
                      /\ indexLock' = u <=> wr'[u].pc = "indexing"
    OBVIOUS
  <2>1. /\ writeLock = u <=> wr[u].pc = "logged"
        /\ indexLock = u <=> wr[u].pc = "indexing"
        /\ writeLock' = writeLock /\ indexLock' = indexLock
    BY DEF Types, lockvars
  <2>2. CASE u = t
    BY <1>1, <2>1, <2>2
  <2>3. CASE u # t
    BY <1>1, <2>1, <2>3
  <2> QED
    BY <2>2, <2>3
<1>5. Types'
  BY <1>2, <1>3, <1>4 DEF Types, lockvars
<1>6. Calls'
  <2> SUFFICES ASSUME NEW u \in Writers
               PROVE  /\ wr'[u].pc # "idle" =>
                            /\ header' = "ok"
                            /\ wr'[u].len >= 1 /\ wr'[u].off + wr'[u].len - 1 <= MaxAddr
                      /\ wr'[u].pc \in {"logged", "indexing"} =>
                            /\ EntryOf(u)' \in DOMAIN hist'
                            /\ hist'[EntryOf(u)'].id = wr'[u].id
                            /\ hist'[EntryOf(u)'].off = wr'[u].off
                            /\ hist'[EntryOf(u)'].len = wr'[u].len
                            /\ Sound(EntryOf(u))' =>
                                  wr'[u].logOffset = hist'[EntryOf(u)'].at + entryHeaderSize
    BY DEF Calls
  <2>1. CASE u = t
    BY <1>1, <2>1
  <2>2. CASE u # t
    <3>1. wr'[u] = wr[u] /\ EntryOf(u)' = EntryOf(u)
      BY <1>1, <2>2 DEF EntryOf, lockvars, Held
    <3>2. Sound(EntryOf(u))' <=> Sound(EntryOf(u))
      BY <3>1 DEF Sound
    <3>3. header = "ok" => header' = "ok"
      OBVIOUS
    <3> QED
      BY <3>1, <3>2, <3>3 DEF RunInv, Calls
  <2> QED
    BY <2>1, <2>2
<1>7. CloseOrder'
  BY DEF RunInv, CloseOrder, lockvars
<1>8. Done' = Done /\ Done \in 0..Len(hist)
  BY DoneIn DEF RunInv, Done, Held, lockvars
<1>9. Matches(index, Done)'
  <2> PICK n, idx : n = Done /\ idx = index
    OBVIOUS
  <2>1. Matches(idx, n)'
    BY MatchesKept DEF RunInv, Sound
  <2> QED
    BY <1>8, <2>1 DEF Matches, LastOf
<1>10. Reading'
  BY <1>8, ReadingKept DEF RunInv, Types
<1> QED
  BY <1>5, <1>6, <1>7, <1>9, <1>10 DEF RunInv

LEMMA WriteHeaderStep ==
    ASSUME Types, RunInv, NEW t \in Writers, WriteHeader(t)
    PROVE  Types' /\ RunInv'
<1>1. PICK r \in Ranges :
        wr' = [wr EXCEPT ![t] = [pc |-> "start", id |-> tries + 1, off |-> r.off,
                                 len |-> r.len, logOffset |-> 0]]
  BY DEF WriteHeader
<1> DEFINE c == [pc |-> "start", id |-> tries + 1, off |-> r.off, len |-> r.len, logOffset |-> 0]
<1>2. r.off \in Addrs /\ r.len \in 1..(MaxAddr + 1) /\ r.off + r.len - 1 <= MaxAddr
  BY DEF Ranges
<1>3. /\ c \in Thread /\ c.pc = "start" /\ c.len >= 1 /\ c.off + c.len - 1 <= MaxAddr
      /\ wr' = [wr EXCEPT ![t] = c]
  BY <1>1, <1>2, MaxAddrAssumption, BoundsAssumption DEF Thread, Types
<1>4. /\ RunningFile' /\ file' \in Seq(Cells) /\ Len(file) <= Len(file') /\ offset' \in Nat
      /\ \A j \in 1..Len(file) : file'[j] = file[j]
      /\ header' = "ok"
  <2>1. CASE header = "none"
    <3>1. /\ closing # "closed" /\ closing' = closing /\ file' = file \o Header /\ offset' = 2
          /\ header' = "ok" /\ hist' = hist /\ broken' = broken
      BY <2>1, HeaderCells DEF RunInv, CloseOrder, WriteHeader
    <3>2. Layout(file, Len(file)) /\ file \in Seq(Cells)
      BY <3>1, OpenFile DEF RunInv
    <3>3. Layout(file, Len(file))' /\ Len(file') = 2
      BY <2>1, <3>1, <3>2, WriteHeaderLayout
    <3>4. RunningFile'
      BY <3>1, <3>3, StillOpen
    <3>5. Len(file) = 0 /\ file' \in Seq(Cells)
      BY <2>1, <3>2, <3>3 DEF Layout
    <3> QED
      BY <3>1, <3>3, <3>4, <3>5
  <2>2. CASE header # "none"
    <3>1. UNCHANGED <<file, offset, header, hist, broken, index, closing>>
      BY <2>2 DEF WriteHeader
    <3>2. RunningFile'
      BY <3>1, RunningFileKept DEF RunInv
    <3>3. file \in Seq(Cells)
      BY DEF RunInv, RunningFile, Layout
    <3>4. header' = "ok"
      BY <2>2, <3>1 DEF WriteHeader, Types
    <3> QED
      BY <3>1, <3>2, <3>3, <3>4 DEF Types
  <2> QED
    BY <2>1, <2>2
<1>5. tries' \in 0..MaxWrites /\ failures' \in 0..MaxFailures
  BY BoundsAssumption DEF WriteHeader, Types, bounds
<1>6. /\ wr[t].pc = "idle" /\ (header # "none" => header' = header)
      /\ UNCHANGED <<closing, index, lockvars, rd, reader, hist, broken, reads>>
  BY DEF WriteHeader, bounds
<1> HIDE DEF c
<1> QED
  BY <1>3, <1>4, <1>5, <1>6, CallBegins

LEMMA WriteHeaderFailsStep ==
    ASSUME Types, RunInv, NEW t \in Writers, WriteHeaderFails(t)
    PROVE  Types' /\ RunInv'
<1>1. PICK n \in 0..(Len(Header) - 1) : file' = file \o SubSeq(Header, 1, n) /\ offset' = n
  BY DEF WriteHeaderFails
<1>2. /\ header = "none" /\ header' = "failed" /\ wr[t].pc = "idle" /\ wr' = wr
      /\ UNCHANGED <<closing, index, lockvars, rd, reader, hist, broken, reads>>
  BY DEF WriteHeaderFails
<1>3. n \in 0..1 /\ n \in Nat
  BY HeaderCells
<1>4. closing # "closed" /\ closing' = closing
  BY <1>2 DEF RunInv, CloseOrder
<1>5. Layout(file, Len(file)) /\ file \in Seq(Cells)
  BY <1>4, OpenFile DEF RunInv
<1>6. Layout(file, Len(file))' /\ Len(file') = n
  BY <1>1, <1>2, <1>3, <1>5, WriteHeaderFailsLayout
<1>7. RunningFile'
  BY <1>1, <1>4, <1>6, StillOpen
<1>8. /\ Len(file) = 0 /\ file' \in Seq(Cells) /\ Len(file) <= Len(file')
      /\ \A j \in 1..Len(file) : file'[j] = file[j]
  BY <1>2, <1>3, <1>5, <1>6 DEF Layout
<1>9. tries' \in 0..MaxWrites /\ failures' \in 0..MaxFailures
  BY BoundsAssumption DEF WriteHeaderFails, Types
<1>10. /\ wr[t] \in Thread /\ wr[t].pc = "idle"
       /\ wr' = [wr EXCEPT ![t] = wr[t]]
  BY <1>2 DEF Types, WrType, Thread
<1> QED
  BY <1>1, <1>2, <1>3, <1>7, <1>8, <1>9, <1>10, CallBegins

\* A call ends without a trace in the index: it was refused, or the write
\* failed.
LEMMA CallEnds ==
    ASSUME Types, RunInv, NEW t \in Writers, wr[t].pc = "start", wr' = [wr EXCEPT ![t] = Idle],
           failures' \in 0..MaxFailures, broken' \in Nat, RunningFile', file' \in Seq(Cells),
           \A i : Sound(i)' => Sound(i), broken' = 0 => broken = 0,
           Len(file) <= Len(file'), \A j \in 1..Len(file) : file'[j] = file[j],
           UNCHANGED <<offset, closing, header, index, lockvars, rd, reader, hist, tries, reads>>
    PROVE  Types' /\ RunInv'
<1>1. /\ wr \in [Writers -> Thread] /\ wr' \in [Writers -> Thread]
      /\ wr'[t] = Idle /\ \A u \in Writers : u # t => wr'[u] = wr[u]
  BY IdleThread DEF Types, WrType, Thread
<1>2. WrType'
  BY <1>1 DEF WrType, Thread
<1>3. RdType'
  BY DEF Types, RdType
<1>4. Idle.pc = "idle"
  BY DEF Idle
<1>5. \A u \in Writers : /\ writeLock' = u <=> wr'[u].pc = "logged"
                         /\ indexLock' = u <=> wr'[u].pc = "indexing"
  <2> SUFFICES ASSUME NEW u \in Writers
               PROVE  /\ writeLock' = u <=> wr'[u].pc = "logged"
                      /\ indexLock' = u <=> wr'[u].pc = "indexing"
    OBVIOUS
  <2>1. /\ writeLock = u <=> wr[u].pc = "logged"
        /\ indexLock = u <=> wr[u].pc = "indexing"
        /\ writeLock' = writeLock /\ indexLock' = indexLock
    BY DEF Types, lockvars
  <2>2. CASE u = t
    BY <1>1, <1>4, <2>1, <2>2
  <2>3. CASE u # t
    BY <1>1, <2>1, <2>3
  <2> QED
    BY <2>2, <2>3
<1>6. Types'
  BY <1>2, <1>3, <1>5 DEF Types, lockvars
<1>7. Calls'
  <2> SUFFICES ASSUME NEW u \in Writers
               PROVE  /\ wr'[u].pc # "idle" =>
                            /\ header' = "ok"
                            /\ wr'[u].len >= 1 /\ wr'[u].off + wr'[u].len - 1 <= MaxAddr
                      /\ wr'[u].pc \in {"logged", "indexing"} =>
                            /\ EntryOf(u)' \in DOMAIN hist'
                            /\ hist'[EntryOf(u)'].id = wr'[u].id
                            /\ hist'[EntryOf(u)'].off = wr'[u].off
                            /\ hist'[EntryOf(u)'].len = wr'[u].len
                            /\ Sound(EntryOf(u))' =>
                                  wr'[u].logOffset = hist'[EntryOf(u)'].at + entryHeaderSize
    BY DEF Calls
  <2>1. CASE u = t
    BY <1>1, <1>4, <2>1
  <2>2. CASE u # t
    <3>1. wr'[u] = wr[u] /\ EntryOf(u)' = EntryOf(u)
      BY <1>1, <2>2 DEF EntryOf, lockvars, Held
    <3> PICK x : x = EntryOf(u)
      OBVIOUS
    <3>2. Sound(x)' => Sound(x)
      OBVIOUS
    <3>3. Sound(EntryOf(u))' => Sound(EntryOf(u))
      BY <3>1, <3>2 DEF Sound
    <3> QED
      BY <3>1, <3>3 DEF RunInv, Calls
  <2> QED
    BY <2>1, <2>2
<1>8. CloseOrder'
  BY DEF RunInv, CloseOrder, lockvars
<1>9. Done' = Done /\ Done \in 0..Len(hist)
  BY DoneIn DEF RunInv, Done, Held, lockvars
<1>10. Matches(index, Done)'
  <2> PICK n, idx : n = Done /\ idx = index
    OBVIOUS
  <2>1. Matches(idx, n)'
    BY MatchesKept DEF RunInv
  <2> QED
    BY <1>9, <2>1 DEF Matches, LastOf
<1>11. Reading'
  BY <1>9, ReadingKept DEF RunInv, Types
<1> QED
  BY <1>6, <1>7, <1>8, <1>10, <1>11 DEF RunInv

LEMMA WriteRefusedStep ==
    ASSUME Types, RunInv, NEW t \in Writers, WriteRefused(t)
    PROVE  Types' /\ RunInv'
<1>1. /\ wr[t].pc = "start" /\ wr' = [wr EXCEPT ![t] = Idle]
      /\ UNCHANGED <<file, offset, closing, header, index, lockvars, rd, reader, hist, tries,
                     broken, failures, reads>>
  BY DEF WriteRefused, filevars, ghosts, bounds
<1>2. RunningFile'
  BY <1>1, RunningFileKept DEF RunInv
<1>3. file \in Seq(Cells)
  BY DEF RunInv, RunningFile, Layout
<1>4. /\ file' \in Seq(Cells) /\ Len(file) <= Len(file')
      /\ \A j \in 1..Len(file) : file'[j] = file[j]
      /\ failures' \in 0..MaxFailures /\ broken' \in Nat /\ (broken' = 0 => broken = 0)
  BY <1>1, <1>3 DEF Types
<1>5. \A i : Sound(i)' => Sound(i)
  BY <1>1 DEF Sound
<1> QED
  BY <1>1, <1>2, <1>4, <1>5, CallEnds

LEMMA WriteLogFailsStep ==
    ASSUME Types, RunInv, NEW t \in Writers, WriteLogFails(t)
    PROVE  Types' /\ RunInv'
<1>1. PICK n \in 0..(entryHeaderSize + wr[t].len - 1) :
        /\ file' = file \o SubSeq(makeLogEntry(wr[t].id, wr[t]), 1, n)
        /\ broken' = IF broken = 0 /\ n > 0 THEN Len(file) + 1 ELSE broken
  BY DEF WriteLogFails
<1>2. /\ wr[t].pc = "start" /\ closing = "open" /\ wr' = [wr EXCEPT ![t] = Idle]
      /\ UNCHANGED <<offset, closing, header, index, lockvars, rd, reader, hist, tries, reads>>
  BY DEF WriteLogFails
<1>3. failures' \in 0..MaxFailures
  BY BoundsAssumption DEF WriteLogFails, Types
<1>4. /\ Layout(file, Len(file)) /\ file \in Seq(Cells) /\ Len(file) \in Nat
      /\ broken = 0 => offset = Len(file)
  BY <1>2, OpenFile DEF RunInv
<1>5. /\ wr[t].len \in Nat /\ wr[t].len >= 1 /\ wr[t].off + wr[t].len - 1 <= MaxAddr
      /\ wr[t].off \in Addrs /\ wr[t].id \in Nat /\ header = "ok" /\ wr[t].len \in Lens
  BY <1>2, MaxAddrAssumption, SMTT(30) DEF RunInv, Calls, Types, WrType, Lens
<1> DEFINE e == [id |-> wr[t].id, off |-> wr[t].off, len |-> wr[t].len, at |-> 0]
<1>6. e \in Entries /\ e.id = wr[t].id /\ e.off = wr[t].off /\ e.len = wr[t].len
  BY <1>5 DEF Entries
<1> HIDE DEF e
<1>7. makeLogEntry(wr[t].id, wr[t]) = makeLogEntry(e.id, e)
  BY <1>6, SameEntry
<1>8. /\ file' \in Seq(Cells) /\ Len(file) <= Len(file')
      /\ \A j \in 1..Len(file) : file'[j] = file[j]
  <2> DEFINE w == makeLogEntry(e.id, e)
             m == SubSeq(w, 1, n)
  <2>1. w \in Seq(Cells) /\ Len(w) = e.len + 2
    BY <1>6, EntryIsWrite, EntryIs
  <2> HIDE DEF w
  <2>2. \A j \in 1..n : w[j] \in Cells
    BY <1>5, <1>6, <2>1 DEF entryHeaderSize
  <2>3. n \in Int
    BY <1>5 DEF entryHeaderSize
  <2>4. m \in Seq(Cells)
    BY <2>2, <2>3, SubSeqProperties
  <2>5. file' = file \o m
    BY <1>1, <1>7 DEF w
  <2> HIDE DEF m
  <2>6. file' \in Seq(Cells)
    BY <1>4, <2>4, <2>5, Appended
  <2>7. \A j \in 1..Len(file) : file'[j] = file[j]
    BY <1>4, <2>4, <2>5, Appended
  <2>8. Len(file') = Len(file) + Len(m) /\ Len(m) \in Nat
    BY <1>4, <2>4, <2>5, Appended
  <2> QED
    BY <1>4, <2>6, <2>7, <2>8
<1>9. CASE n = 0
  <2>1. file' = file /\ broken' = broken
    BY <1>1, <1>4, <1>9
  <2>2. RunningFile'
    BY <1>2, <2>1, RunningFileKept DEF RunInv
  <2>3. (\A i : Sound(i)' => Sound(i)) /\ broken' \in Nat
    BY <1>2, <2>1 DEF Sound, Types
  <2> QED
    BY <1>2, <1>3, <1>8, <2>1, <2>2, <2>3, CallEnds
<1>10. CASE n # 0
  <2>1. n \in 1..(e.len + 1) /\ n > 0
    BY <1>5, <1>6, <1>10 DEF entryHeaderSize
  <2>2. broken' = IF broken = 0 THEN Len(file) + 1 ELSE broken
    BY <1>1, <2>1
  <2>3. file' = file \o SubSeq(makeLogEntry(e.id, e), 1, n)
    BY <1>1, <1>7
  <2>4. broken' # 0 /\ broken' \in Nat
    BY <1>4, <2>2 DEF Types
  <2>5. hist \in Seq(Entries) /\ broken \in Nat /\ UNCHANGED <<header, hist>>
    BY <1>2 DEF Types
  <2>6. Layout(file, Len(file))'
    BY <1>4, <1>5, <1>6, <2>1, <2>2, <2>3, <2>5, WriteLogFailsLayout
  <2>7. RunningFile'
    BY <1>2, <2>4, <2>6, StillOpen
  <2>8. \A i : Sound(i)' => Sound(i)
    BY <1>2, <2>2 DEF Sound
  <2> QED
    BY <1>2, <1>3, <1>8, <2>4, <2>7, <2>8, CallEnds
<1> QED
  BY <1>9, <1>10

LEMMA WriteLogStep ==
    ASSUME Types, RunInv, NEW t \in Writers, WriteLog(t)
    PROVE  Types' /\ RunInv'
<1>1. /\ wr[t].pc = "start" /\ writeLock = NoThread /\ closing = "open"
      /\ file' = file \o makeLogEntry(wr[t].id, wr[t])
      /\ offset' = offset + entryHeaderSize + wr[t].len
      /\ wr' = [wr EXCEPT ![t].pc = "logged", ![t].logOffset = offset + entryHeaderSize]
      /\ writeLock' = t
      /\ hist' = Append(hist, [id |-> wr[t].id, off |-> wr[t].off, len |-> wr[t].len,
                               at |-> Len(file)])
      /\ UNCHANGED <<closing, header, index, indexLock, rd, reader, tries, broken, failures, reads>>
  BY DEF WriteLog, bounds
<1>2. /\ Layout(file, Len(file)) /\ file \in Seq(Cells) /\ Len(file) \in Nat
      /\ broken = 0 => offset = Len(file)
  BY <1>1, OpenFile DEF RunInv
<1>3. /\ wr[t].len \in Nat /\ wr[t].len >= 1 /\ wr[t].off + wr[t].len - 1 <= MaxAddr
      /\ wr[t].off \in Addrs /\ wr[t].id \in Nat /\ header = "ok" /\ wr[t].len \in Lens
      /\ offset \in Nat
  BY <1>1, MaxAddrAssumption, SMTT(30) DEF RunInv, Calls, Types, WrType, Lens
<1> PICK e : e = [id |-> wr[t].id, off |-> wr[t].off, len |-> wr[t].len, at |-> Len(file)]
  OBVIOUS
<1>4. /\ e \in Entries /\ e.id = wr[t].id /\ e.off = wr[t].off /\ e.len = wr[t].len
      /\ e.at = Len(file)
  BY <1>2, <1>3 DEF Entries
<1>5. makeLogEntry(wr[t].id, wr[t]) = makeLogEntry(e.id, e)
  BY <1>4, SameEntry
<1> PICK n : n = Len(hist)
  OBVIOUS
<1>6. hist \in Seq(Entries) /\ broken \in Nat /\ n \in Nat
  BY DEF Types
<1>7. /\ hist' = Append(hist, e) /\ hist' \in Seq(Entries) /\ Len(hist') = n + 1
      /\ hist'[n + 1] = e /\ \A i \in 1..n : hist'[i] = hist[i]
  BY <1>1, <1>4, <1>6
<1>8. Layout(file, Len(file))' /\ Len(file') = Len(file) + 2 + e.len
  BY <1>1, <1>2, <1>3, <1>4, <1>5, <1>6, <1>7, WriteLogLayout
<1>9. RunningFile'
  <2>1. broken' = 0 => offset' = Len(file')
    BY <1>1, <1>2, <1>4, <1>8 DEF entryHeaderSize
  <2> QED
    BY <1>1, <1>8, <2>1, StillOpen
<1>10. /\ file' \in Seq(Cells) /\ Len(file) <= Len(file')
       /\ \A j \in 1..Len(file) : file'[j] = file[j]
  <2> DEFINE m == makeLogEntry(e.id, e)
  <2>1. m \in Seq(Cells)
    BY <1>4, EntryIsWrite, EntryIs
  <2>2. file' = file \o m
    BY <1>1, <1>5
  <2> HIDE DEF m
  <2>3. file' \in Seq(Cells)
    BY <1>2, <2>1, <2>2, Appended
  <2>4. \A j \in 1..Len(file) : file'[j] = file[j]
    BY <1>2, <2>1, <2>2, Appended
  <2>5. Len(file') = Len(file) + Len(m) /\ Len(m) \in Nat
    BY <1>2, <2>1, <2>2, Appended
  <2> QED
    BY <1>2, <2>3, <2>4, <2>5
<1>11. /\ wr \in [Writers -> Thread] /\ wr' \in [Writers -> Thread]
       /\ wr'[t].pc = "logged" /\ wr'[t].logOffset = offset + entryHeaderSize
       /\ wr'[t].id = wr[t].id /\ wr'[t].off = wr[t].off /\ wr'[t].len = wr[t].len
       /\ \A u \in Writers : u # t => wr'[u] = wr[u]
  <2>1. wr \in [Writers -> Thread] /\ wr[t] \in Thread /\ offset + entryHeaderSize \in Nat
    BY <1>3 DEF Types, WrType, Thread, entryHeaderSize
  <2> PICK v : v = offset + entryHeaderSize
    OBVIOUS
  <2> DEFINE c == [wr[t] EXCEPT !.pc = "logged", !.logOffset = v]
  <2>2. c \in Thread
    BY <2>1 DEF Thread
  <2>3. /\ c.pc = "logged" /\ c.logOffset = v /\ c.id = wr[t].id /\ c.off = wr[t].off
        /\ c.len = wr[t].len
    BY <2>1 DEF Thread
  <2>4. wr' = [wr EXCEPT ![t] = c]
    BY <1>1, <2>1
  <2> HIDE DEF c
  <2> QED
    BY <2>1, <2>2, <2>3, <2>4
<1>12. t # NoThread /\ \A u \in Writers : wr[u].pc # "logged"
  BY <1>1, NoThreadAssumption DEF Types
<1>13. Types'
  <2>1. WrType'
    BY <1>11 DEF WrType, Thread
  <2>2. RdType'
    BY <1>1 DEF Types, RdType
  <2>3. ASSUME NEW u \in Writers
        PROVE  /\ writeLock' = u <=> wr'[u].pc = "logged"
               /\ indexLock' = u <=> wr'[u].pc = "indexing"
    <3>1. indexLock' = indexLock /\ (indexLock = u <=> wr[u].pc = "indexing")
      BY <1>1 DEF Types
    <3>2. CASE u = t
      BY <1>1, <1>11, <3>1, <3>2
    <3>3. CASE u # t
      BY <1>1, <1>11, <1>12, <3>1, <3>3
    <3> QED
      BY <3>2, <3>3
  <2>4. offset' \in Nat
    BY <1>1, <1>3 DEF entryHeaderSize
  <2> QED
    BY <1>1, <1>7, <2>1, <2>2, <2>3, <2>4 DEF Types
<1>14. /\ Held(writeLock) = 0 /\ Held(writeLock)' = 1 /\ Held(indexLock)' = Held(indexLock)
       /\ Held(indexLock) \in {0, 1}
  BY <1>1, <1>12 DEF Held
<1>15. Done' = Done /\ Done \in 0..n
  BY <1>6, <1>7, <1>14, DoneIn DEF RunInv, Done
<1>16. Calls'
  <2> SUFFICES ASSUME NEW u \in Writers
               PROVE  /\ wr'[u].pc # "idle" =>
                            /\ header' = "ok"
                            /\ wr'[u].len >= 1 /\ wr'[u].off + wr'[u].len - 1 <= MaxAddr
                      /\ wr'[u].pc \in {"logged", "indexing"} =>
                            /\ EntryOf(u)' \in DOMAIN hist'
                            /\ hist'[EntryOf(u)'].id = wr'[u].id
                            /\ hist'[EntryOf(u)'].off = wr'[u].off
                            /\ hist'[EntryOf(u)'].len = wr'[u].len
                            /\ Sound(EntryOf(u))' =>
                                  wr'[u].logOffset = hist'[EntryOf(u)'].at + entryHeaderSize
    BY DEF Calls
  <2>1. CASE u = t
    <3>1. EntryOf(u)' = n + 1
      BY <1>7, <1>11, <2>1 DEF EntryOf
    <3>2. n + 1 \in DOMAIN hist'
      BY <1>6, <1>7
    <3>3. Sound(EntryOf(u))' => wr'[u].logOffset = e.at + entryHeaderSize
      <4> SUFFICES ASSUME Sound(EntryOf(u))' PROVE broken = 0
        BY <1>2, <1>4, <1>11, <2>1
      <4>1. broken = 0 \/ Len(file) < broken
        BY <1>1, <1>4, <1>7, <3>1 DEF Sound
      <4>2. broken # 0 => broken <= Len(file)
        BY <1>2 DEF Layout, SoundTo
      <4> QED
        BY <1>2, <1>6, <4>1, <4>2
    <3> QED
      BY <1>1, <1>3, <1>4, <1>7, <1>11, <2>1, <3>1, <3>2, <3>3
  <2>2. CASE u # t
    <3>1. wr'[u] = wr[u] /\ header' = header /\ wr[u].pc # "logged"
      BY <1>1, <1>11, <1>12, <2>2
    <3>2. CASE wr[u].pc = "indexing"
      <4>1. EntryOf(u) = n /\ EntryOf(u)' = n
        BY <1>6, <1>7, <1>14, <3>1, <3>2 DEF EntryOf
      <4>2. n \in 1..n /\ hist'[n] = hist[n] /\ n \in DOMAIN hist'
        BY <1>6, <1>7, <3>2, <4>1 DEF RunInv, Calls
      <4>3. Sound(EntryOf(u))' <=> Sound(EntryOf(u))
        BY <1>1, <4>1, <4>2 DEF Sound
      <4> QED
        BY <3>1, <3>2, <4>1, <4>2, <4>3 DEF RunInv, Calls
    <3>3. CASE wr[u].pc # "indexing"
      BY <3>1, <3>3 DEF RunInv, Calls
    <3> QED
      BY <3>2, <3>3
  <2> QED
    BY <2>1, <2>2
<1>17. CloseOrder'
  BY <1>1, <1>3 DEF RunInv, CloseOrder
<1>18. Matches(index, Done)'
  <2> PICK d, idx : d = Done /\ idx = index
    OBVIOUS
  <2>1. \A i \in 1..d : hist'[i] = hist[i]
    BY <1>6, <1>7, <1>15
  <2>2. \A i \in 1..d : Sound(i)' => Sound(i)
    BY <1>1, <2>1 DEF Sound
  <2>3. Matches(idx, d)'
    BY <2>1, <2>2, MatchesKept DEF RunInv
  <2> QED
    BY <1>1, <1>15, <2>3 DEF Matches, LastOf
<1>19. Reading'
  <2>1. \A i \in 1..Done : hist'[i] = hist[i]
    BY <1>6, <1>7, <1>15
  <2> QED
    BY <1>1, <1>6, <1>10, <1>15, <2>1, ReadingKept DEF RunInv
<1> QED
  BY <1>1, <1>9, <1>13, <1>16, <1>17, <1>18, <1>19 DEF RunInv

LEMMA WriteIndexLockStep ==
    ASSUME Types, RunInv, NEW t \in Writers, WriteIndexLock(t)
    PROVE  Types' /\ RunInv'
<1>1. /\ wr[t].pc = "logged" /\ indexLock = NoThread /\ indexLock' = t /\ writeLock' = NoThread
      /\ wr' = [wr EXCEPT ![t].pc = "indexing"]
      /\ UNCHANGED <<file, offset, closing, header, index, rd, reader, hist, tries, broken,
                     failures, reads>>
  BY DEF WriteIndexLock, filevars, ghosts, bounds
<1>2. /\ writeLock = t /\ t # NoThread
      /\ \A u \in Writers : wr[u].pc # "indexing" /\ (u # t => wr[u].pc # "logged")
  BY <1>1, NoThreadAssumption DEF Types
<1>3. /\ wr \in [Writers -> Thread] /\ wr' \in [Writers -> Thread]
      /\ wr'[t].pc = "indexing" /\ wr'[t].logOffset = wr[t].logOffset
      /\ wr'[t].id = wr[t].id /\ wr'[t].off = wr[t].off /\ wr'[t].len = wr[t].len
      /\ \A u \in Writers : u # t => wr'[u] = wr[u]
  <2>1. wr \in [Writers -> Thread] /\ wr[t] \in Thread
    BY DEF Types, WrType, Thread
  <2> DEFINE c == [wr[t] EXCEPT !.pc = "indexing"]
  <2>2. /\ c \in Thread /\ c.pc = "indexing" /\ c.logOffset = wr[t].logOffset
        /\ c.id = wr[t].id /\ c.off = wr[t].off /\ c.len = wr[t].len
    BY <2>1 DEF Thread
  <2>3. wr' = [wr EXCEPT ![t] = c]
    BY <1>1, <2>1
  <2> HIDE DEF c
  <2> QED
    BY <2>1, <2>2, <2>3
<1>4. Types'
  <2>1. WrType'
    BY <1>3 DEF WrType, Thread
  <2>2. RdType'
    BY <1>1 DEF Types, RdType
  <2>3. ASSUME NEW u \in Writers
        PROVE  /\ writeLock' = u <=> wr'[u].pc = "logged"
               /\ indexLock' = u <=> wr'[u].pc = "indexing"
    <3>1. u # NoThread
      BY NoThreadAssumption
    <3>2. CASE u = t
      BY <1>1, <1>3, <3>1, <3>2
    <3>3. CASE u # t
      BY <1>1, <1>2, <1>3, <3>1, <3>3
    <3> QED
      BY <3>2, <3>3
  <2> QED
    BY <1>1, <2>1, <2>2, <2>3 DEF Types
<1>5. Len(hist) \in Nat /\ Done' = Done /\ Done \in 0..Len(hist)
  BY <1>1, <1>2, DoneIn DEF RunInv, Done, Held
<1>6. Calls'
  <2> SUFFICES ASSUME NEW u \in Writers
               PROVE  /\ wr'[u].pc # "idle" =>
                            /\ header' = "ok"
                            /\ wr'[u].len >= 1 /\ wr'[u].off + wr'[u].len - 1 <= MaxAddr
                      /\ wr'[u].pc \in {"logged", "indexing"} =>
                            /\ EntryOf(u)' \in DOMAIN hist'
                            /\ hist'[EntryOf(u)'].id = wr'[u].id
                            /\ hist'[EntryOf(u)'].off = wr'[u].off
                            /\ hist'[EntryOf(u)'].len = wr'[u].len
                            /\ Sound(EntryOf(u))' =>
                                  wr'[u].logOffset = hist'[EntryOf(u)'].at + entryHeaderSize
    BY DEF Calls
  <2>1. CASE u = t
    <3>1. EntryOf(u) = Len(hist) /\ EntryOf(u)' = Len(hist)
      BY <1>1, <1>3, <1>5, <2>1 DEF EntryOf, Held
    <3>2. Sound(EntryOf(u))' <=> Sound(EntryOf(u))
      BY <1>1, <3>1 DEF Sound
    <3> QED
      BY <1>1, <1>3, <2>1, <3>1, <3>2 DEF RunInv, Calls
  <2>2. CASE u # t
    BY <1>1, <1>2, <1>3, <2>2 DEF RunInv, Calls
  <2> QED
    BY <2>1, <2>2
<1>7. CloseOrder'
  BY <1>1, <1>2 DEF RunInv, CloseOrder
<1>8. RunningFile'
  BY <1>1, RunningFileKept DEF RunInv
<1>9. Matches(index, Done)'
  <2> PICK d, idx : d = Done /\ idx = index
    OBVIOUS
  <2>1. Matches(idx, d)'
    BY <1>1, MatchesKept DEF RunInv, Sound
  <2> QED
    BY <1>1, <1>5, <2>1 DEF Matches, LastOf
<1>10. Reading'
  <2>1. file \in Seq(Cells)
    BY DEF RunInv, RunningFile, Layout
  <2>2. hist \in Seq(Entries) /\ Len(file) <= Len(file')
    BY <1>1, <2>1 DEF Types
  <2> QED
    BY <1>1, <1>5, <2>1, <2>2, ReadingKept DEF RunInv
<1> QED
  BY <1>1, <1>4, <1>6, <1>7, <1>8, <1>9, <1>10 DEF RunInv

\* What a read may have seen, with the write of c indexed.
SeenToo(c) == [a \in Addrs |-> IF Covers(c, a) THEN rd.seen[a] \cup {Byte(c.id, a)} ELSE rd.seen[a]]

LEMMA WriteIndexStep ==
    ASSUME Types, RunInv, NEW t \in Writers, WriteIndex(t)
    PROVE  Types' /\ RunInv'
<1> PICK c : c = wr[t]
  OBVIOUS
<1> PICK rec : rec = [logOffset |-> c.logOffset, off |-> c.off, len |-> c.len]
  OBVIOUS
<1>1. /\ c.pc = "indexing" /\ indexLock' = NoThread /\ index' = Add(index, rec)
      /\ wr' = [wr EXCEPT ![t] = Idle]
      /\ rd' = IF rd.pc \in {"lookup", "io"} THEN [rd EXCEPT !.seen = SeenToo(c)] ELSE rd
      /\ UNCHANGED <<file, offset, closing, header, writeLock, reader, hist, tries, broken,
                     failures, reads>>
  BY DEF WriteIndex, filevars, ghosts, bounds, SeenToo
<1>2. indexLock = t /\ t # NoThread /\ \A u \in Writers : u # t => wr[u].pc # "indexing"
  BY <1>1, NoThreadAssumption DEF Types
<1>3. /\ wr \in [Writers -> Thread] /\ wr' \in [Writers -> Thread] /\ c \in Thread
      /\ wr'[t] = Idle /\ Idle.pc = "idle"
      /\ \A u \in Writers : u # t => wr'[u] = wr[u]
  <2>1. wr \in [Writers -> Thread] /\ Idle.pc = "idle"
    BY DEF Types, WrType, Thread, Idle
  <2> QED
    BY <1>1, <2>1, IdleThread
<1> PICK d : d = Done
  OBVIOUS
<1>4. /\ Len(hist) \in Nat /\ hist \in Seq(Entries) /\ d \in 0..Len(hist) /\ EntryOf(t) = d + 1
      /\ d + 1 \in 1..Len(hist) /\ d \in Nat
  <2>1. Len(hist) \in Nat /\ hist \in Seq(Entries) /\ d \in 0..Len(hist) /\ EntryOf(t) = d + 1
    BY <1>1, DoneIn DEF RunInv, Types
  <2>2. EntryOf(t) \in DOMAIN hist
    BY <1>1 DEF RunInv, Calls
  <2> QED
    BY <2>1, <2>2
<1>5. /\ hist[d + 1].id = c.id /\ hist[d + 1].off = c.off /\ hist[d + 1].len = c.len
      /\ Sound(d + 1) => c.logOffset = hist[d + 1].at + entryHeaderSize
      /\ hist[d + 1] \in Entries
  BY <1>1, <1>4 DEF RunInv, Calls
<1>6. rec \in Records /\ rec.off = c.off /\ rec.len = c.len /\ rec.logOffset = c.logOffset
  <2>1. c.off \in Addrs /\ c.logOffset \in Nat
    BY <1>3 DEF Thread
  <2>2. c.len \in 1..(MaxAddr + 1)
    BY <1>5 DEF Entries, Lens
  <2> QED
    BY <2>1, <2>2 DEF Records
<1>7. Done' = d + 1
  BY <1>1, <1>2, <1>4 DEF Done, Held
<1>8. SeenToo(c) \in [Addrs -> SUBSET Bytes]
  <2>1. \A a \in Addrs : Byte(c.id, a) \in Bytes
    BY <1>3, MaxAddrAssumption DEF Thread, Byte, Bytes, Addrs
  <2>2. \A a \in Addrs : rd.seen[a] \in SUBSET Bytes
    BY DEF Types, RdType, ReadCalls
  <2> QED
    BY <2>1, <2>2 DEF SeenToo
<1>9. /\ rd' \in ReadCalls
      /\ rd'.pc = rd.pc /\ rd'.first = rd.first /\ rd'.end = rd.end /\ rd'.off = rd.off
      /\ rd'.rec = rd.rec /\ rd'.n = rd.n /\ rd'.buf = rd.buf
      /\ rd.pc \in {"lookup", "io"} => rd'.seen = SeenToo(c)
      /\ rd.pc \notin {"lookup", "io"} => rd'.seen = rd.seen
  BY <1>1, <1>8 DEF Types, RdType, ReadCalls
<1>10. Types'
  <2>1. WrType'
    BY <1>3 DEF WrType, Thread
  <2>2. RdType'
    BY <1>9 DEF RdType
  <2>3. ASSUME NEW u \in Writers
        PROVE  /\ writeLock' = u <=> wr'[u].pc = "logged"
               /\ indexLock' = u <=> wr'[u].pc = "indexing"
    <3>1. u # NoThread /\ writeLock' = writeLock /\ (writeLock = u <=> wr[u].pc = "logged")
      BY <1>1, NoThreadAssumption DEF Types
    <3>2. CASE u = t
      BY <1>1, <1>3, <3>1, <3>2
    <3>3. CASE u # t
      BY <1>1, <1>2, <1>3, <3>1, <3>3
    <3> QED
      BY <3>2, <3>3
  <2> QED
    BY <1>1, <2>1, <2>2, <2>3 DEF Types
<1>11. Calls'
  <2> SUFFICES ASSUME NEW u \in Writers
               PROVE  /\ wr'[u].pc # "idle" =>
                            /\ header' = "ok"
                            /\ wr'[u].len >= 1 /\ wr'[u].off + wr'[u].len - 1 <= MaxAddr
                      /\ wr'[u].pc \in {"logged", "indexing"} =>
                            /\ EntryOf(u)' \in DOMAIN hist'
                            /\ hist'[EntryOf(u)'].id = wr'[u].id
                            /\ hist'[EntryOf(u)'].off = wr'[u].off
                            /\ hist'[EntryOf(u)'].len = wr'[u].len
                            /\ Sound(EntryOf(u))' =>
                                  wr'[u].logOffset = hist'[EntryOf(u)'].at + entryHeaderSize
    BY DEF Calls
  <2>1. CASE u = t
    BY <1>3, <2>1
  <2>2. CASE u # t
    <3>1. wr'[u] = wr[u] /\ EntryOf(u)' = EntryOf(u)
      BY <1>1, <1>3, <2>2 DEF EntryOf, Held
    <3>2. Sound(EntryOf(u))' <=> Sound(EntryOf(u))
      BY <1>1, <3>1 DEF Sound
    <3> QED
      BY <1>1, <3>1, <3>2 DEF RunInv, Calls
  <2> QED
    BY <2>1, <2>2
<1>12. CloseOrder'
  BY <1>1 DEF RunInv, CloseOrder
<1>13. RunningFile'
  BY <1>1, <1>2, RunningFileKept DEF RunInv, CloseOrder
<1>14. Matches(index, Done)'
  <2> PICK idx : idx = Add(index, rec)
    OBVIOUS
  <2>1. Matches(index, d) /\ d + 1 \in 1..Len(hist)
    BY <1>4 DEF RunInv
  <2>2. Matches(idx, d + 1)
    BY <1>4, <1>5, <1>6, <2>1, MatchesAdd
  <2>3. Matches(idx, d + 1)'
    BY <1>1, <2>2, MatchesKept DEF Sound
  <2> QED
    BY <1>1, <1>7, <2>3 DEF Matches, LastOf
<1>15. Reading'
  <2> SUFFICES ASSUME broken = 0 PROVE Reading'
    BY <1>1 DEF Reading
  <2>1. \A a \in Addrs : rd.seen[a] \subseteq rd'.seen[a]
    BY <1>9 DEF SeenToo
  <2>2. ASSUME NEW a \in Addrs, rd.pc \in {"lookup", "io"}
        PROVE  Expected(a, d + 1) \in rd'.seen[a]
    <3>1. Expected(a, d) \in rd.seen[a]
      BY <2>2 DEF RunInv, Reading
    <3>2. PICK z \in 0..Len(file) : Layout(file, z)
      BY DEF RunInv, RunningFile
    <3>3. CASE Covers(c, a)
      <4>1. Covers(hist[d + 1], a)
        BY <1>5, <3>3 DEF Covers
      <4>2. d + 1 \in 1..(d + 1) /\ \A j \in (d + 2)..(d + 1) : FALSE
        BY <1>4
      <4>3. LastOf(d + 1, d + 1, a)
        BY <1>4, <4>1, <4>2 DEF LastOf
      <4>4. Expected(a, d + 1) = IF file[CellOf(d + 1, a)].k = "lost" THEN Zero
                                 ELSE Byte(hist[d + 1].id, a)
        BY <1>4, <4>2, <4>3, ExpectedIs DEF CellOf
      <4>5. Placed(file, hist[d + 1])
        BY <1>4, <3>2 DEF Layout
      <4>6. file[CellOf(d + 1, a)] = DataCell(hist[d + 1].id, a)
        BY <1>4, <4>1, <4>5, CellPlaced
      <4>7. Expected(a, d + 1) = Byte(c.id, a)
        BY <1>5, <4>4, <4>6 DEF DataCell
      <4> QED
        BY <1>9, <2>2, <3>3, <4>7 DEF SeenToo
    <3>4. CASE ~Covers(c, a)
      <4>1. ~Covers(hist[d + 1], a)
        BY <1>5, <3>4 DEF Covers
      <4>2. {i \in 1..(d + 1) : Covers(hist[i], a)} = {i \in 1..d : Covers(hist[i], a)}
        BY <1>4, <4>1
      <4>3. Expected(a, d + 1) = Expected(a, d)
        BY <4>2 DEF Expected
      <4> QED
        BY <2>1, <3>1, <4>3
    <3> QED
      BY <3>3, <3>4
  <2>3. \A a \in Addrs : Expected(a, Done)' = Expected(a, d + 1)
    BY <1>1, <1>7 DEF Expected
  <2>4. /\ \A i \in 1..Len(rd.buf) : /\ rd.first + i - 1 \in Addrs
                                     /\ rd.buf[i] \in rd.seen[rd.first + i - 1]
        /\ rd.pc \in {"lookup", "io"} => /\ rd.off = rd.first + Len(rd.buf)
                                         /\ rd.off <= rd.end
        /\ rd.pc = "io" =>
              /\ rd.off + rd.n <= rd.end
              /\ \A i \in 1..rd.n :
                    /\ LogOff(rd.rec, rd.off + i - 1) + 1 \in DOMAIN file
                    /\ ReadCell(rd.rec, rd.off + i - 1) \in rd.seen[rd.off + i - 1]
    BY DEF RunInv, Reading
  <2>5. ASSUME rd.pc = "io", NEW i \in 1..rd.n PROVE rd.off + i - 1 \in Addrs
    <3>1. rd.off \in Nat /\ rd.n \in Nat /\ rd.off + rd.n <= rd.end /\ rd.end \in 0..(MaxAddr + 1)
      BY <2>4, <2>5, MaxAddrAssumption DEF Types, RdType, ReadCalls
    <3> QED
      BY <3>1, MaxAddrAssumption DEF Addrs
  <2>6. rd'.pc = "io" => \A i \in 1..rd'.n :
                    /\ LogOff(rd'.rec, rd'.off + i - 1) + 1 \in DOMAIN file'
                    /\ ReadCell(rd.rec, rd.off + i - 1)' \in rd'.seen[rd'.off + i - 1]
    BY <1>1, <1>9, <2>1, <2>4, <2>5 DEF ReadCell, LogOff
  <2> QED
    BY <1>1, <1>9, <2>1, <2>2, <2>3, <2>4, <2>6 DEF Reading
<1> QED
  BY <1>1, <1>10, <1>11, <1>12, <1>13, <1>14, <1>15 DEF RunInv

LEMMA CloseWriterStep ==
    ASSUME Types, RunInv, CloseWriter
    PROVE  Types' /\ RunInv'
<1>1. /\ writeLock = NoThread /\ closing = "open" /\ offset # 0 /\ closing' = "closing"
      /\ UNCHANGED <<file, offset, header, index, writeLock, indexLock, wr, rd, reader, hist,
                     tries, broken, failures, reads>>
  BY DEF CloseWriter, lockvars, ghosts, bounds
<1>2. Types'
  BY <1>1 DEF Types, WrType, RdType
<1>3. Done' = Done /\ Done \in 0..Len(hist)
  BY <1>1, DoneIn DEF RunInv, Done, Held
<1>4. Calls'
  BY <1>1 DEF RunInv, Calls, EntryOf, Held, Sound
<1>5. header # "none"
  <2>1. Layout(file, Len(file)) /\ (broken = 0 => offset = Len(file))
    BY <1>1, OpenFile DEF RunInv
  <2> QED
    BY <1>1, <2>1 DEF Layout
<1>6. CloseOrder'
  BY <1>1, <1>5 DEF RunInv, CloseOrder
<1>7. RunningFile'
  BY <1>1, RunningFileKept DEF RunInv
<1>8. Matches(index, Done)'
  <2> PICK d, idx : d = Done /\ idx = index
    OBVIOUS
  <2>1. Matches(idx, d)'
    BY <1>1, MatchesKept DEF RunInv, Sound
  <2> QED
    BY <1>1, <1>3, <2>1 DEF Matches, LastOf
<1>9. Reading'
  <2>1. file \in Seq(Cells)
    BY DEF RunInv, RunningFile, Layout
  <2>2. hist \in Seq(Entries) /\ Len(file) <= Len(file')
    BY <1>1, <2>1 DEF Types
  <2> QED
    BY <1>1, <1>3, <2>1, <2>2, ReadingKept DEF RunInv
<1> QED
  BY <1>1, <1>2, <1>4, <1>6, <1>7, <1>8, <1>9 DEF RunInv

LEMMA CloseFooterStep ==
    ASSUME Types, RunInv, CloseFooter
    PROVE  Types' /\ RunInv'
<1>1. /\ closing = "closing" /\ indexLock = NoThread /\ file' = file \o Footer(index)
      /\ closing' = "closed"
      /\ UNCHANGED <<offset, header, index, writeLock, indexLock, wr, rd, reader, hist,
                     tries, broken, failures, reads>>
  BY DEF CloseFooter, lockvars, ghosts, bounds
<1>2. Types'
  BY <1>1 DEF Types, WrType, RdType
<1>3. Done' = Done /\ Done \in 0..Len(hist)
  BY <1>1, DoneIn DEF RunInv, Done, Held
<1>4. Calls'
  BY <1>1 DEF RunInv, Calls, EntryOf, Held, Sound
<1>5. CloseOrder'
  BY <1>1 DEF RunInv, CloseOrder
<1>6. Layout(file, Len(file)) /\ file \in Seq(Cells)
  BY <1>1, OpenFile DEF RunInv
<1>7. hist \in Seq(Entries) /\ broken \in Nat
  BY DEF Types
<1>8. IndexOK(index)
  BY <1>3, <1>7, MatchesOK DEF RunInv
<1>9. RunningFile'
  BY <1>1, <1>6, <1>7, <1>8, CloseFooterLayout
<1>10. Matches(index, Done)'
  <2> PICK d, idx : d = Done /\ idx = index
    OBVIOUS
  <2>1. Matches(idx, d)'
    BY <1>1, MatchesKept DEF RunInv, Sound
  <2> QED
    BY <1>1, <1>3, <2>1 DEF Matches, LastOf
<1>11. /\ file' \in Seq(Cells) /\ Len(file) <= Len(file')
       /\ \A j \in 1..Len(file) : file'[j] = file[j]
  <2> DEFINE m == Footer(index)
  <2>1. m \in Seq(Cells)
    BY <1>8, FooterIs
  <2>2. file' = file \o m
    BY <1>1
  <2> HIDE DEF m
  <2>3. file' \in Seq(Cells)
    BY <1>6, <2>1, <2>2, Appended
  <2>4. \A j \in 1..Len(file) : file'[j] = file[j]
    BY <1>6, <2>1, <2>2, Appended
  <2>5. Len(file') = Len(file) + Len(m) /\ Len(m) \in Nat /\ Len(file) \in Nat
    BY <1>6, <2>1, <2>2, Appended
  <2> QED
    BY <2>3, <2>4, <2>5
<1>12. Reading'
  BY <1>1, <1>3, <1>7, <1>11, ReadingKept DEF RunInv
<1> QED
  BY <1>1, <1>2, <1>4, <1>5, <1>9, <1>10, <1>12 DEF RunInv

-----------------------------------------------------------------------------
(* The running log: reading *)

LEMMA ReadFrame ==
    ASSUME Types, RunInv, rd' \in ReadCalls, reads' \in 0..MaxReads, Reading',
           UNCHANGED <<file, offset, closing, header, index, writeLock, indexLock, wr, reader,
                       hist, tries, broken, failures>>
    PROVE  Types' /\ RunInv'
<1>1. Types'
  BY DEF Types, WrType, RdType
<1>2. Done' = Done
  BY DEF Done, Held
<1>3. Calls'
  BY DEF RunInv, Calls, EntryOf, Held, Sound
<1>4. CloseOrder'
  BY DEF RunInv, CloseOrder
<1>5. RunningFile'
  BY RunningFileKept DEF RunInv
<1>6. Matches(index, Done)'
  <2> PICK d, idx : d = Done /\ idx = index
    OBVIOUS
  <2>1. Matches(idx, d)'
    BY MatchesKept DEF RunInv, Sound
  <2> QED
    BY <1>2, <2>1 DEF Matches, LastOf
<1> QED
  BY <1>1, <1>3, <1>4, <1>5, <1>6 DEF RunInv

LEMMA ExpectedFrame ==
    ASSUME UNCHANGED <<file, hist, writeLock, indexLock>>
    PROVE  \A a \in Addrs : Expected(a, Done)' = Expected(a, Done)
<1>1. Done' = Done
  BY DEF Done, Held
<1> QED
  BY <1>1 DEF Expected

LEMMA ReadStartStep ==
    ASSUME Types, RunInv, ReadStart
    PROVE  Types' /\ RunInv'
<1>1. PICK r \in {x \in Ranges : x.len >= MinRead} :
        rd' = [NoRead EXCEPT !.pc = "lookup", !.first = r.off, !.off = r.off,
                             !.end = r.off + r.len,
                             !.seen = [a \in Addrs |-> {Expected(a, Indexed)}]]
  BY DEF ReadStart
<1>2. /\ UNCHANGED <<file, offset, closing, header, index, writeLock, indexLock, wr, reader,
                     hist, tries, broken, failures>>
      /\ reads' \in 0..MaxReads
  BY BoundsAssumption DEF ReadStart, filevars, lockvars, ghosts, Types
<1>3. /\ r.off \in Addrs /\ r.off \in Nat /\ r.len \in Nat /\ r.off + r.len \in 0..(MaxAddr + 1)
      /\ r.off <= r.off + r.len
  BY MaxAddrAssumption DEF Ranges, Addrs
<1>4. Indexed = Done /\ hist \in Seq(Entries) /\ Done \in 0..Len(hist)
  BY IndexedIsDone, DoneIn DEF RunInv, Types
<1> DEFINE s == [a \in Addrs |-> {Expected(a, Done)}]
<1>5. s \in [Addrs -> SUBSET Bytes] /\ \A a \in Addrs : Expected(a, Done) \in s[a]
  BY <1>4, ExpectedByte
<1>6. /\ rd'.pc = "lookup" /\ rd'.first = r.off /\ rd'.off = r.off /\ rd'.end = r.off + r.len
      /\ rd'.rec = NoRec /\ rd'.n = 0 /\ rd'.buf = <<>> /\ rd'.seen = s
      /\ rd' \in ReadCalls
  <2>1. rd' = [pc |-> "lookup", first |-> r.off, end |-> r.off + r.len, off |-> r.off,
               rec |-> NoRec, n |-> 0, buf |-> <<>>, seen |-> s]
    BY <1>1, <1>4 DEF NoRead
  <2> HIDE DEF s
  <2>2. <<>> \in Seq(Bytes)
    OBVIOUS
  <2> QED
    BY <1>3, <1>5, <2>1, <2>2 DEF ReadCalls
<1>7. \A a \in Addrs : Expected(a, Done)' = Expected(a, Done)
  BY <1>2, ExpectedFrame
<1> HIDE DEF s
<1>8. Reading'
  <2>1. Len(rd'.buf) = 0 /\ rd'.off = rd'.first + Len(rd'.buf) /\ rd'.off <= rd'.end
    BY <1>3, <1>6
  <2> QED
    BY <1>5, <1>6, <1>7, <2>1 DEF Reading
<1> QED
  BY <1>2, <1>6, <1>8, ReadFrame

\* What is read is put behind what was.
LEMMA BufferGrows ==
    ASSUME NEW buf \in Seq(Bytes), NEW q \in Seq(Bytes), NEW first \in Nat, NEW off, NEW seen,
           off = first + Len(buf),
           \A i \in 1..Len(buf) : first + i - 1 \in Addrs /\ buf[i] \in seen[first + i - 1],
           \A i \in 1..Len(q) : off + i - 1 \in Addrs /\ q[i] \in seen[off + i - 1],
           NEW b, b = buf \o q
    PROVE  \A i \in 1..Len(b) : first + i - 1 \in Addrs /\ b[i] \in seen[first + i - 1]
<1>1. Len(b) = Len(buf) + Len(q) /\ Len(buf) \in Nat /\ Len(q) \in Nat
  BY Appended
<1>2. \A i \in 1..Len(buf) : b[i] = buf[i]
  BY Appended
<1>3. \A i \in 1..Len(q) : b[Len(buf) + i] = q[i]
  BY Appended
<1> SUFFICES ASSUME NEW i \in 1..Len(b)
             PROVE  first + i - 1 \in Addrs /\ b[i] \in seen[first + i - 1]
  OBVIOUS
<1>4. CASE i <= Len(buf)
  BY <1>1, <1>2, <1>4
<1>5. CASE ~(i <= Len(buf))
  <2> DEFINE j == i - Len(buf)
  <2>1. j \in 1..Len(q) /\ Len(buf) + j = i /\ off + j - 1 = first + i - 1
    BY <1>1, <1>5
  <2> HIDE DEF j
  <2>2. off + j - 1 \in Addrs /\ q[j] \in seen[off + j - 1] /\ b[i] = q[j]
    BY <1>3, <2>1
  <2> QED
    BY <2>1, <2>2
<1> QED
  BY <1>4, <1>5

LEMMA ZerosAre ==
    ASSUME NEW m \in Int
    PROVE  /\ Zeros(m) \in Seq(Bytes) /\ (m >= 0 => Len(Zeros(m)) = m)
           /\ \A i \in 1..m : Zeros(m)[i] = Zero
<1>1. Zero \in Bytes
  BY DEF Zero, Bytes
<1>2. CASE m >= 0
  <2>1. m \in Nat
    BY <1>2
  <2> QED
    BY <1>1, <1>2, <2>1 DEF Zeros
<1>3. CASE ~(m >= 0)
  <2>1. 1..m = 1..0
    BY <1>3
  <2>2. Zeros(m) = [i \in 1..0 |-> Zero]
    BY <2>1 DEF Zeros
  <2>3. Zeros(m) \in Seq(Bytes)
    BY <1>1, <2>2
  <2> QED
    BY <1>3, <2>1, <2>3
<1> QED
  BY <1>2, <1>3

LEMMA ReadIOStep ==
    ASSUME Types, RunInv, ReadIO
    PROVE  Types' /\ RunInv'
<1> DEFINE q == [i \in 1..rd.n |-> ReadCell(rd.rec, rd.off + i - 1)]
           p == IF rd.off + rd.n = rd.end THEN "done" ELSE "lookup"
<1>1. /\ rd.pc = "io"
      /\ rd' = [rd EXCEPT !.buf = rd.buf \o q, !.off = rd.off + rd.n, !.rec = NoRec, !.n = 0, !.pc = p]
      /\ UNCHANGED <<file, offset, closing, header, index, writeLock, indexLock, wr, reader,
                     hist, tries, broken, failures, reads>>
  BY DEF ReadIO, filevars, lockvars, ghosts, bounds
<1>2. rd \in ReadCalls /\ rd.n \in Nat /\ rd.off \in Nat /\ rd.first \in Nat /\ rd.buf \in Seq(Bytes)
  BY DEF Types, RdType, ReadCalls
<1>3. file \in Seq(Cells)
  BY DEF RunInv, RunningFile, Layout
<1>4. q \in Seq(Bytes)
  <2>1. \A i \in 1..rd.n : ReadCell(rd.rec, rd.off + i - 1) \in Bytes
    BY <1>3, ReadCellByte
  <2> QED
    BY <1>2, <2>1
<1>5. Len(q) = rd.n /\ \A i \in 1..rd.n : q[i] = ReadCell(rd.rec, rd.off + i - 1)
  BY <1>2
<1> HIDE DEF q
<1> DEFINE b == rd.buf \o q
<1>6. b \in Seq(Bytes)
  BY <1>2, <1>4, Appended
<1>7. Len(b) = Len(rd.buf) + Len(q) /\ Len(rd.buf) \in Nat
  BY <1>2, <1>4, Appended
<1> HIDE DEF b
<1>8. /\ rd'.pc = p /\ p \in {"done", "lookup"} /\ rd'.first = rd.first /\ rd'.off = rd.off + rd.n
      /\ rd'.end = rd.end /\ rd'.rec = NoRec /\ rd'.n = 0 /\ rd'.buf = b /\ rd'.seen = rd.seen
      /\ rd' \in ReadCalls
  <2>1. rd' = [rd EXCEPT !.buf = b, !.off = rd.off + rd.n, !.rec = NoRec, !.n = 0, !.pc = p]
    BY <1>1 DEF b
  <2>2. rd' = [pc |-> p, first |-> rd.first, end |-> rd.end, off |-> rd.off + rd.n, rec |-> NoRec,
               n |-> 0, buf |-> b, seen |-> rd.seen]
    BY <1>2, <2>1 DEF ReadCalls
  <2>3. /\ rd.end \in 0..(MaxAddr + 1) /\ rd.seen \in [Addrs -> SUBSET Bytes]
        /\ rd.off + rd.n \in Nat /\ p \in {"done", "lookup"}
    BY <1>2 DEF ReadCalls
  <2> HIDE DEF p
  <2> QED
    BY <1>2, <1>6, <2>2, <2>3 DEF ReadCalls
<1> HIDE DEF p
<1>9. reads' \in 0..MaxReads
  BY <1>1 DEF Types
<1>10. Reading'
  <2> SUFFICES ASSUME broken = 0 PROVE Reading'
    BY <1>1 DEF Reading
  <2>1. /\ \A i \in 1..Len(rd.buf) : /\ rd.first + i - 1 \in Addrs
                                     /\ rd.buf[i] \in rd.seen[rd.first + i - 1]
        /\ rd.off = rd.first + Len(rd.buf) /\ rd.off <= rd.end /\ rd.off + rd.n <= rd.end
        /\ \A a \in Addrs : Expected(a, Done) \in rd.seen[a]
        /\ \A i \in 1..rd.n : ReadCell(rd.rec, rd.off + i - 1) \in rd.seen[rd.off + i - 1]
    BY <1>1 DEF RunInv, Reading
  <2>2. rd.end \in 0..(MaxAddr + 1)
    BY DEF Types, RdType, ReadCalls
  <2>3. ASSUME NEW i \in 1..Len(q)
        PROVE  rd.off + i - 1 \in Addrs /\ q[i] \in rd.seen[rd.off + i - 1]
    <3>1. rd.off + i - 1 \in Addrs
      BY <1>2, <1>5, <2>1, <2>2, MaxAddrAssumption DEF Addrs
    <3> QED
      BY <1>5, <2>1, <3>1
  <2>4. \A i \in 1..Len(b) : rd.first + i - 1 \in Addrs /\ b[i] \in rd.seen[rd.first + i - 1]
    BY <1>2, <1>4, <2>1, <2>3, BufferGrows DEF b
  <2>5. rd'.off = rd'.first + Len(rd'.buf) /\ rd'.off <= rd'.end
    BY <1>2, <1>7, <1>8, <1>5, <2>1
  <2>6. \A a \in Addrs : Expected(a, Done)' = Expected(a, Done)
    BY <1>1, ExpectedFrame
  <2> QED
    BY <1>8, <2>1, <2>4, <2>5, <2>6 DEF Reading
<1> QED
  BY <1>1, <1>8, <1>9, <1>10, ReadFrame

\* An address without a record was never written.
LEMMA HoleIsZero ==
    ASSUME NEW n \in Nat, NEW idx, Matches(idx, n), NEW a \in Addrs, idx[a] = NoRec
    PROVE  Expected(a, n) = Zero
<1>1. ASSUME NEW i \in 1..n, LastOf(i, n, a) PROVE FALSE
  BY <1>1, NoRecApart DEF Matches
<1>2. \A i \in 1..n : ~Covers(hist[i], a)
  BY <1>1, LastExists
<1> QED
  BY <1>2, ExpectedIs

LEMMA ReadLookupStep ==
    ASSUME Types, RunInv, ReadLookup
    PROVE  Types' /\ RunInv'
<1> DEFINE keys == {a \in Addrs : a >= rd.off /\ index[a] # NoRec}
           next == Min(keys)
           m == Min({ExtentEnd(index, next) + 1, rd.end}) - next
           gap(x) == rd.buf \o Zeros(x - rd.off)
<1>1. /\ rd.pc = "lookup"
      /\ rd' = IF keys = {} THEN [rd EXCEPT !.pc = "done"]
               ELSE IF next >= rd.end
               THEN [rd EXCEPT !.pc = "done", !.off = rd.end, !.buf = gap(rd.end)]
               ELSE [rd EXCEPT !.pc = "io", !.off = next, !.buf = gap(next),
                               !.rec = index[next], !.n = m]
      /\ UNCHANGED <<file, offset, closing, header, index, writeLock, indexLock, wr, reader,
                     hist, tries, broken, failures, reads>>
  BY DEF ReadLookup, filevars, lockvars, ghosts, bounds
<1>2. /\ rd \in ReadCalls /\ rd.off \in Nat /\ rd.first \in Nat /\ rd.buf \in Seq(Bytes)
      /\ rd.end \in 0..(MaxAddr + 1) /\ rd.n \in Nat /\ rd.end \in Nat
      /\ rd.seen \in [Addrs -> SUBSET Bytes] /\ rd.rec \in Records \cup {NoRec}
  BY MaxAddrAssumption DEF Types, RdType, ReadCalls
<1>3. /\ hist \in Seq(Entries) /\ Done \in 0..Len(hist) /\ Done \in Nat /\ Matches(index, Done)
      /\ index \in [Addrs -> Records \cup {NoRec}]
  BY DoneIn DEF RunInv, Types, Matches
<1>4. reads' \in 0..MaxReads /\ \A a \in Addrs : Expected(a, Done)' = Expected(a, Done)
  BY <1>1, ExpectedFrame DEF Types
<1>5. broken = 0 =>
        /\ \A i \in 1..Len(rd.buf) : /\ rd.first + i - 1 \in Addrs
                                     /\ rd.buf[i] \in rd.seen[rd.first + i - 1]
        /\ rd.off = rd.first + Len(rd.buf) /\ rd.off <= rd.end
        /\ \A a \in Addrs : Expected(a, Done) \in rd.seen[a]
  BY <1>1 DEF RunInv, Reading
<1>6. keys # {} => next \in keys /\ \A a \in keys : next <= a
  <2>1. keys \in SUBSET Nat
    BY MaxAddrAssumption DEF Addrs
  <2> QED
    BY <2>1, MinOfSet
<1>7. keys # {} => /\ next \in Addrs /\ next \in Nat /\ next >= rd.off /\ index[next] \in Records
                   /\ index[next] # NoRec
  <2>1. next \in keys => next \in Addrs /\ next >= rd.off /\ index[next] # NoRec
    OBVIOUS
  <2> HIDE DEF next, keys
  <2> QED
    BY <1>3, <1>6, <2>1, MaxAddrAssumption DEF Addrs
<1>8. ASSUME keys # {}, NEW a \in Addrs, rd.off <= a, a < next PROVE index[a] = NoRec
  <2>1. a \notin keys
    <3> HIDE DEF next, keys
    <3>1. a \in Nat
      BY MaxAddrAssumption DEF Addrs
    <3> QED
      BY <1>6, <1>7, <1>8, <3>1
  <2> QED
    BY <1>2, <1>8, <2>1, MaxAddrAssumption DEF Addrs
<1> HIDE DEF keys, next
\* The zeros of a hole.
<1>9. ASSUME NEW x \in Nat
      PROVE  /\ gap(x) \in Seq(Bytes)
             /\ rd.off <= x => Len(gap(x)) = Len(rd.buf) + (x - rd.off)
             /\ broken = 0 /\ keys # {} /\ rd.off <= x /\ x <= rd.end /\ x <= next =>
                   \A i \in 1..Len(gap(x)) : /\ rd.first + i - 1 \in Addrs
                                             /\ gap(x)[i] \in rd.seen[rd.first + i - 1]
  <2> DEFINE q == Zeros(x - rd.off)
  <2>1. q \in Seq(Bytes)
    BY <1>2, ZerosAre
  <2>2. /\ rd.off <= x => Len(q) = x - rd.off
        /\ \A i \in 1..(x - rd.off) : q[i] = Zero
    <3> DEFINE d == x - rd.off
    <3>1. d \in Int /\ (rd.off <= x => d >= 0)
      BY <1>2
    <3> HIDE DEF d
    <3>2. (d >= 0 => Len(Zeros(d)) = d) /\ \A i \in 1..d : Zeros(d)[i] = Zero
      BY <3>1, ZerosAre
    <3> QED
      BY <3>1, <3>2 DEF d
  <2> HIDE DEF q
  <2> DEFINE b == rd.buf \o q
  <2>3. b \in Seq(Bytes)
    BY <1>2, <2>1, Appended
  <2>4. Len(b) = Len(rd.buf) + Len(q)
    BY <1>2, <2>1, Appended
  <2>5. gap(x) = b
    BY DEF q
  <2> HIDE DEF b, gap
  <2>6. ASSUME broken = 0, keys # {}, rd.off <= x, x <= rd.end, x <= next
        PROVE  \A i \in 1..Len(b) : rd.first + i - 1 \in Addrs /\ b[i] \in rd.seen[rd.first + i - 1]
    <3>1. ASSUME NEW i \in 1..Len(q)
          PROVE  rd.off + i - 1 \in Addrs /\ q[i] \in rd.seen[rd.off + i - 1]
      <4> DEFINE a == rd.off + i - 1
      <4>1. /\ a \in Addrs /\ rd.off <= a /\ a < x /\ i \in 1..(x - rd.off)
        BY <1>2, <2>2, <2>6, MaxAddrAssumption, SMTT(30) DEF Addrs
      <4>2. a < next
        BY <1>7, <2>6, <4>1 DEF Addrs
      <4> HIDE DEF a
      <4>3. index[a] = NoRec
        BY <1>8, <2>6, <4>1, <4>2
      <4>4. Expected(a, Done) = Zero
        BY <1>3, <4>1, <4>3, HoleIsZero
      <4>5. q[i] \in rd.seen[a]
        BY <1>5, <2>2, <2>6, <4>1, <4>4
      <4> QED
        BY <4>1, <4>5 DEF a
    <3> QED
      BY <1>2, <1>5, <2>1, <2>6, <3>1, BufferGrows DEF b
  <2> QED
    BY <2>2, <2>3, <2>4, <2>5, <2>6
<1> HIDE DEF gap
<1>10. CASE keys = {}
  <2>1. rd' = [rd EXCEPT !.pc = "done"]
    BY <1>1, <1>10
  <2>2. /\ rd'.pc = "done" /\ rd'.first = rd.first /\ rd'.buf = rd.buf /\ rd'.seen = rd.seen
        /\ rd' \in ReadCalls
    BY <1>2, <2>1 DEF ReadCalls
  <2>3. Reading'
    BY <1>1, <1>5, <2>2 DEF Reading
  <2> QED
    BY <1>1, <1>4, <2>2, <2>3, ReadFrame
<1>11. CASE keys # {} /\ next >= rd.end
  <2> DEFINE b == gap(rd.end)
  <2>1. rd' = [rd EXCEPT !.pc = "done", !.off = rd.end, !.buf = b]
    BY <1>1, <1>11
  <2>2. b \in Seq(Bytes)
    BY <1>2, <1>9
  <2>3. broken = 0 => \A i \in 1..Len(b) : /\ rd.first + i - 1 \in Addrs
                                           /\ b[i] \in rd.seen[rd.first + i - 1]
    <3>1. broken = 0 => rd.off <= rd.end
      BY <1>5
    <3>2. rd.end <= rd.end /\ rd.end <= next
      BY <1>2, <1>7, <1>11
    <3> QED
      BY <1>2, <1>9, <1>11, <3>1, <3>2
  <2> HIDE DEF b
  <2>4. rd' = [pc |-> "done", first |-> rd.first, end |-> rd.end, off |-> rd.end, rec |-> rd.rec,
               n |-> rd.n, buf |-> b, seen |-> rd.seen]
    BY <1>2, <2>1 DEF ReadCalls
  <2>5. /\ rd'.pc = "done" /\ rd'.first = rd.first /\ rd'.buf = b /\ rd'.seen = rd.seen
        /\ rd' \in ReadCalls
    BY <1>2, <2>2, <2>4 DEF ReadCalls
  <2>6. Reading'
    BY <1>1, <2>3, <2>5 DEF Reading
  <2> QED
    BY <1>1, <1>4, <2>5, <2>6, ReadFrame
<1>12. CASE keys # {} /\ ~(next >= rd.end)
  <2> DEFINE b == gap(next)
  <2>1. rd' = [rd EXCEPT !.pc = "io", !.off = next, !.buf = b, !.rec = index[next], !.n = m]
    BY <1>1, <1>12
  <2>2. /\ next \in Nat /\ next \in Addrs /\ rd.off <= next /\ next < rd.end
        /\ index[next] \in Records
    BY <1>2, <1>7, <1>12
  <2>3. b \in Seq(Bytes)
    BY <1>9, <2>2
  <2>4. Len(b) = Len(rd.buf) + (next - rd.off)
    BY <1>9, <2>2
  <2>5. broken = 0 => \A i \in 1..Len(b) : /\ rd.first + i - 1 \in Addrs
                                           /\ b[i] \in rd.seen[rd.first + i - 1]
    <3>1. next <= next /\ next <= rd.end
      BY <1>2, <2>2
    <3> QED
      BY <1>9, <1>12, <2>2, <3>1
  <2> HIDE DEF b
  <2>6. /\ m \in Nat /\ next + m <= rd.end
        /\ \A i \in 1..m : next + i - 1 \in Addrs /\ index[next + i - 1] = index[next]
    <3> PICK x : x = ExtentEnd(index, next)
      OBVIOUS
    <3> DEFINE y == Min({x + 1, rd.end})
    <3>1. x \in next..MaxAddr /\ \A c \in next..x : index[c] = index[next]
      BY <2>2, ExtentEndIs
    <3>2. x \in Nat /\ next <= x /\ x <= MaxAddr
      BY <2>2, <3>1, MaxAddrAssumption
    <3>3. {x + 1, rd.end} \in SUBSET Nat
      BY <1>2, <3>2
    <3>4. y \in {x + 1, rd.end} /\ y <= x + 1 /\ y <= rd.end
      BY <3>3, MinOfSet
    <3>5. m = y - next
      OBVIOUS
    <3> HIDE DEF y, m
    <3>6. y \in Nat /\ next < y
      BY <1>2, <2>2, <3>2, <3>4
    <3>7. m \in Nat /\ next + m = y
      BY <2>2, <3>5, <3>6
    <3>8. ASSUME NEW i \in 1..m PROVE next + i - 1 \in Addrs /\ next + i - 1 \in next..x
      BY <2>2, <3>2, <3>4, <3>6, <3>7, MaxAddrAssumption DEF Addrs
    <3> QED
      BY <3>1, <3>4, <3>7, <3>8
  <2> HIDE DEF m
  <2>7. rd' = [pc |-> "io", first |-> rd.first, end |-> rd.end, off |-> next, rec |-> index[next],
               n |-> m, buf |-> b, seen |-> rd.seen]
    BY <1>2, <2>1 DEF ReadCalls
  <2>8. /\ rd'.pc = "io" /\ rd'.first = rd.first /\ rd'.buf = b /\ rd'.seen = rd.seen
        /\ rd'.off = next /\ rd'.rec = index[next] /\ rd'.n = m /\ rd'.end = rd.end
    BY <2>7
  <2>9. rd' \in ReadCalls
    BY <1>2, <2>2, <2>3, <2>6, <2>7 DEF ReadCalls
  <2>10. Reading'
    <3> SUFFICES ASSUME broken = 0 PROVE Reading'
      BY <1>1 DEF Reading
    <3>1. rd'.off = rd'.first + Len(rd'.buf) /\ rd'.off <= rd'.end /\ rd'.off + rd'.n <= rd'.end
      <4>1. Len(rd.buf) \in Nat
        BY <1>2
      <4>2. next = rd.first + Len(b)
        BY <1>2, <1>5, <2>2, <2>4, <4>1
      <4>3. next <= rd.end
        BY <1>2, <2>2
      <4> QED
        BY <2>6, <2>8, <4>2, <4>3
    <3>2. PICK z \in 0..Len(file) : Layout(file, z)
      BY DEF RunInv, RunningFile
    <3>3. file \in Seq(Cells)
      BY <3>2 DEF Layout
    <3>4. ASSUME NEW i \in 1..m
          PROVE  /\ LogOff(index[next], next + i - 1) + 1 \in DOMAIN file
                 /\ ReadCell(index[next], next + i - 1) \in rd.seen[next + i - 1]
      <4> DEFINE a == next + i - 1
      <4>1. a \in Addrs /\ index[a] = index[next] /\ index[a] # NoRec
        BY <1>7, <1>12, <2>6
      <4> HIDE DEF a
      <4>2. ReadAt(index, a) = Expected(a, Done)
        <5>1. Done \in 0..Done /\ \A j \in (Done + 1)..Done : ~Covers(hist[j], a)
          BY <1>3
        <5>2. \A j \in 1..Done : Sound(j)
          BY DEF Sound
        <5> QED
          BY <1>3, <3>2, <4>1, <5>1, <5>2, RunningRead
      <4>3. ReadCell(index[next], a) \in rd.seen[a]
        BY <1>5, <4>1, <4>2 DEF ReadAt
      <4>4. LogOff(index[next], a) + 1 \in DOMAIN file
        <5>1. PICK j \in 1..Done : LastOf(j, Done, a)
          BY <1>3, <4>1, LastExists DEF Matches
        <5>2. Sound(j)
          BY DEF Sound
        <5>3. LogOff(index[a], a) + 1 = CellOf(j, a)
          BY <1>3, <4>1, <5>1, <5>2, MatchesPoints DEF Points, CellOf
        <5>4. j \in 1..Len(hist) /\ Covers(hist[j], a)
          BY <1>3, <5>1 DEF LastOf
        <5>5. CellOf(j, a) \in Nat /\ CellOf(j, a) >= 1 /\ CellOf(j, a) <= End(hist[j])
          BY <1>3, <4>1, <5>4, CellPlaced
        <5>6. End(hist[j]) <= z /\ End(hist[j]) \in Nat
          BY <1>3, <3>2, <5>4, EntryNumbers DEF Layout
        <5>7. CellOf(j, a) \in 1..Len(file)
          BY <3>3, <5>5, <5>6
        <5> QED
          BY <3>3, <4>1, <5>3, <5>7
      <4> QED
        BY <4>3, <4>4 DEF a
    <3>5. \A i \in 1..rd'.n :
              /\ LogOff(rd'.rec, rd'.off + i - 1) + 1 \in DOMAIN file'
              /\ ReadCell(rd.rec, rd.off + i - 1)' \in rd'.seen[rd'.off + i - 1]
      BY <1>1, <2>8, <3>4 DEF ReadCell, LogOff
    <3> QED
      BY <1>4, <1>5, <2>5, <2>8, <3>1, <3>5 DEF Reading
  <2> QED
    BY <1>1, <1>4, <2>9, <2>10, ReadFrame
<1> QED
  BY <1>10, <1>11, <1>12

-----------------------------------------------------------------------------
(* The crash *)

LEMMA CrashCut ==
    ASSUME NEW g \in Seq(Cells), NEW n \in 0..Len(g), NEW torn \in BOOLEAN, NEW lost \in 0..Len(g),
           torn => n < Len(g), lost <= n, lost # 2, lost > 0 => broken = 0,
           NEW f, f = [i \in 1..n |-> IF i = lost THEN [k |-> "lost"] ELSE g[i]]
                        \o (IF torn THEN <<[k |-> "torn"]>> ELSE <<>>)
    PROVE  CutAt(g, f, n, torn, lost)
<1> DEFINE p == [i \in 1..n |-> IF i = lost THEN [k |-> "lost"] ELSE g[i]]
           q == IF torn THEN <<[k |-> "torn"]>> ELSE <<>>
<1>1. [k |-> "lost"] \in Cells /\ [k |-> "torn"] \in Cells /\ n \in Nat
  BY DEF Cells
<1>2. p \in Seq(Cells)
  <2>1. \A i \in 1..n : g[i] \in Cells
    OBVIOUS
  <2> QED
    BY <1>1, <2>1
<1>3. Len(p) = n /\ \A i \in 1..n : p[i] = IF i = lost THEN [k |-> "lost"] ELSE g[i]
  BY <1>1
<1>4. q \in Seq(Cells)
  BY <1>1
<1>5. Len(q) = (IF torn THEN 1 ELSE 0) /\ (torn => q[1] = [k |-> "torn"])
  OBVIOUS
<1>6. f = p \o q
  OBVIOUS
<1> HIDE DEF p, q
<1>7. f \in Seq(Cells)
  BY <1>2, <1>4, <1>6, Appended
<1>8. Len(f) = Len(p) + Len(q)
  BY <1>2, <1>4, <1>6, Appended
<1>9. \A i \in 1..Len(p) : f[i] = p[i]
  BY <1>2, <1>4, <1>6, Appended
<1>10. \A i \in 1..Len(q) : f[Len(p) + i] = q[i]
  BY <1>2, <1>4, <1>6, Appended
<1>11. Len(f) = n + (IF torn THEN 1 ELSE 0)
  BY <1>3, <1>5, <1>8
<1>12. \A i \in 1..n : f[i] = IF i = lost THEN [k |-> "lost"] ELSE g[i]
  BY <1>3, <1>9
<1>13. torn => f[n + 1] = [k |-> "torn"]
  <2>1. torn => 1 \in 1..Len(q)
    BY <1>5
  <2> QED
    BY <1>3, <1>5, <1>10, <2>1
<1> QED
  BY <1>7, <1>11, <1>12, <1>13 DEF CutAt

LEMMA CrashStep ==
    ASSUME Types, RunInv, Crash
    PROVE  WalInv'
<1>1. /\ offset' = 0 /\ closing' = "open" /\ index' = EmptyIndex
      /\ writeLock' = NoThread /\ indexLock' = NoThread
      /\ wr' = [t \in Writers |-> Idle] /\ rd' = NoRead
      /\ reader' = [NotOpened EXCEPT !.state = "down"]
      /\ tries' = 0 /\ failures' = 0
      /\ UNCHANGED <<header, hist, broken, reads>>
  BY DEF Crash
<1>2. PICK z \in 0..Len(file) : /\ Layout(file, z) /\ Footed(file, z, index)
                                /\ closing = "closed" <=> z < Len(file)
  BY DEF RunInv, RunningFile
<1> PICK g, idx : g = file /\ idx = index
  OBVIOUS
<1>3. g \in Seq(Cells) /\ Len(g) \in Nat
  BY <1>2 DEF Layout
<1>4. \E n, torn, lost : CutAt(g, file', n, torn, lost)
  <2>1. PICK n \in 0..Len(g), torn \in BOOLEAN, lost \in 0..Len(g) :
          /\ torn => n < Len(g)
          /\ lost <= n /\ lost # 2 /\ (lost > 0 => PagesLost /\ broken = 0)
          /\ file' = [i \in 1..n |-> IF i = lost THEN [k |-> "lost"] ELSE g[i]]
                       \o (IF torn THEN <<[k |-> "torn"]>> ELSE <<>>)
    BY DEF Crash
  <2>2. CutAt(g, file', n, torn, lost)
    BY <1>3, <2>1, CrashCut
  <2> QED
    BY <2>2
<1>5. PICK n, torn, lost : CutAt(g, file, n, torn, lost)'
  <2> PICK f : f = file'
    OBVIOUS
  <2>1. PICK m, t, x : CutAt(g, f, m, t, x)
    BY <1>4
  <2>2. CutAt(g, f, m, t, x)'
    BY <1>1, <2>1 DEF CutAt
  <2>3. CutAt(g, file, m, t, x)'
    BY <2>2 DEF CutAt
  <2> QED
    BY <2>3
<1>6. Layout(g, z)'
  BY <1>1, <1>2, LayoutFrame
<1>7. Footed(g, z, idx)'
  BY <1>2
<1>8. z < Len(g) => Matches(idx, Len(hist))'
  <2> SUFFICES ASSUME z < Len(g) PROVE Matches(idx, Len(hist))'
    OBVIOUS
  <2>1. writeLock = NoThread /\ indexLock = NoThread
    BY <1>2 DEF RunInv, CloseOrder
  <2> PICK l : l = Len(hist)
    OBVIOUS
  <2>2. l \in Nat /\ Done = l
    BY <2>1 DEF Types, Done, Held
  <2>3. Matches(idx, l)
    BY <2>2 DEF RunInv
  <2>4. Matches(idx, l)'
    BY <1>1, <2>3, MatchesKept DEF Sound
  <2> QED
    BY <1>1, <2>4 DEF Matches, LastOf
<1>9. header' = "none" => z = Len(g)
  BY <1>1, <1>2, <1>3 DEF RunInv, CloseOrder
<1>10. Damaged'
  BY <1>5, <1>6, <1>7, <1>8, <1>9 DEF Damaged, Wreck
<1>11. Types'
  <2>1. WrType'
    <3>1. [t \in Writers |-> Idle] \in [Writers -> Thread]
      BY IdleThread
    <3> QED
      BY <1>1, <3>1 DEF WrType, Thread
  <2>2. RdType'
    <3>1. /\ NoRec \in Records \cup {NoRec} /\ <<>> \in Seq(Bytes) /\ 0 \in 0..(MaxAddr + 1)
          /\ [a \in Addrs |-> {}] \in [Addrs -> SUBSET Bytes]
      BY MaxAddrAssumption
    <3>2. NoRead \in ReadCalls
      BY <3>1 DEF NoRead, ReadCalls
    <3> QED
      BY <1>1, <3>2 DEF RdType
  <2>3. ASSUME NEW t \in Writers
        PROVE  /\ writeLock' = t <=> wr'[t].pc = "logged"
               /\ indexLock' = t <=> wr'[t].pc = "indexing"
    BY <1>1, NoThreadAssumption DEF Idle
  <2>4. 0 \in Nat /\ 0 \in 0..MaxWrites /\ 0 \in 0..MaxFailures
    BY BoundsAssumption
  <2> QED
    BY <1>1, <2>1, <2>2, <2>3, <2>4 DEF Types
<1>12. ~Running'
  BY <1>1 DEF Running, NotOpened
<1>13. (reader = [NotOpened EXCEPT !.state = "down"])'
  BY <1>1 DEF NotOpened, EmptyIndex, NoRec
<1>14. (rd = NoRead)' /\ (index = EmptyIndex)'
  BY <1>1
<1> QED
  BY <1>10, <1>11, <1>12, <1>13, <1>14 DEF WalInv

\* After the crash nothing changes but what the log was opened as.
LEMMA OpenStep ==
    ASSUME WalInv, ~Running, reader' = reader \/ reader' = NewWriteLogFromReader(file),
           UNCHANGED <<file, offset, closing, header, index, writeLock, indexLock, wr, rd, hist,
                       tries, broken, failures, reads>>
    PROVE  WalInv'
<1>1. UNCHANGED <<file, offset, closing, header, index, writeLock, indexLock, wr, rd, hist,
                  tries, broken, failures, reads>>
  OBVIOUS
<1>2. Types /\ rd = NoRead /\ index = EmptyIndex /\ Damaged
  BY DEF WalInv
<1>3. Types'
  BY <1>1, <1>2 DEF Types, WrType, RdType
<1>4. PICK g, z, idx, n, torn, lost : Wreck(g, z, idx, n, torn, lost)
  BY <1>2 DEF Damaged
<1>5. Layout(g, z)'
  BY <1>1, <1>4, LayoutFrame DEF Wreck
<1>6. z < Len(g) => Matches(idx, Len(hist))'
  <2> PICK x : x = Len(hist)
    OBVIOUS
  <2>1. Matches(idx, x) => Matches(idx, x)'
    BY <1>1, MatchesKept DEF Sound
  <2>2. Matches(idx, x)' => Matches(idx, Len(hist))'
    BY <1>1 DEF Matches, LastOf
  <2> QED
    BY <1>4, <2>1, <2>2 DEF Wreck
<1>7. CutAt(g, file, n, torn, lost)'
  BY <1>1, <1>4 DEF Wreck, CutAt
<1>8. Damaged'
  BY <1>1, <1>4, <1>5, <1>6, <1>7 DEF Damaged, Wreck
<1>9. ~Running'
  <2>1. NewWriteLogFromReader(file).state \in {"open", "refused"}
    BY DEF NewWriteLogFromReader
  <2> QED
    BY <2>1 DEF Running
<1>10. \/ (reader = [NotOpened EXCEPT !.state = "down"])'
       \/ (reader = NewWriteLogFromReader(file))'
  <2>1. \/ reader = [NotOpened EXCEPT !.state = "down"]
        \/ reader = NewWriteLogFromReader(file)
    BY DEF WalInv
  <2> QED
    BY <1>1, <2>1 DEF NotOpened, EmptyIndex, NoRec
<1>11. (rd = NoRead)' /\ (index = EmptyIndex)'
  BY <1>1, <1>2
<1> QED
  BY <1>3, <1>8, <1>9, <1>10, <1>11 DEF WalInv

-----------------------------------------------------------------------------
(* The invariant holds *)

LEMMA WalInit ==
    ASSUME Init
    PROVE  WalInv
<1>1. /\ file = <<>> /\ offset = 0 /\ closing = "open" /\ header = "none"
      /\ index = EmptyIndex /\ writeLock = NoThread /\ indexLock = NoThread
      /\ wr = [t \in Writers |-> Idle] /\ rd = NoRead /\ reader = NotOpened
      /\ hist = <<>> /\ tries = 0 /\ broken = 0 /\ failures = 0 /\ reads = 0
  BY DEF Init
<1>2. Types
  <2>1. WrType
    <3>1. [t \in Writers |-> Idle] \in [Writers -> Thread]
      BY IdleThread
    <3> QED
      BY <1>1, <3>1 DEF WrType, Thread
  <2>2. RdType
    <3>1. /\ NoRec \in Records \cup {NoRec} /\ <<>> \in Seq(Bytes) /\ 0 \in 0..(MaxAddr + 1)
          /\ [a \in Addrs |-> {}] \in [Addrs -> SUBSET Bytes]
      BY MaxAddrAssumption
    <3>2. NoRead \in ReadCalls
      BY <3>1 DEF NoRead, ReadCalls
    <3> QED
      BY <1>1, <3>2 DEF RdType
  <2>3. ASSUME NEW t \in Writers
        PROVE  /\ writeLock = t <=> wr[t].pc = "logged"
               /\ indexLock = t <=> wr[t].pc = "indexing"
    BY <1>1, NoThreadAssumption DEF Idle
  <2>4. 0 \in Nat /\ 0 \in 0..MaxWrites /\ 0 \in 0..MaxFailures /\ 0 \in 0..MaxReads
    BY BoundsAssumption
  <2>5. hist \in Seq(Entries)
    BY <1>1
  <2> QED
    BY <1>1, <2>1, <2>2, <2>3, <2>4, <2>5 DEF Types
<1>3. Calls
  BY <1>1 DEF Calls, Idle
<1>4. CloseOrder
  BY <1>1 DEF CloseOrder
<1>5. RunningFile
  <2>1. file \in Seq(Cells) /\ Len(file) = 0 /\ Len(hist) = 0 /\ DOMAIN hist = {}
    BY <1>1
  <2>2. SoundTo(0, 0)
    BY <1>1, <2>1 DEF SoundTo
  <2>3. Layout(file, 0)
    BY <1>1, <2>1, <2>2 DEF Layout
  <2> QED
    BY <1>1, <2>1, <2>3 DEF RunningFile, Footed
<1>6. Matches(index, Done)
  <2>1. Done = 0
    BY <1>1 DEF Done, Held
  <2>2. EmptyIndex \in [Addrs -> Records \cup {NoRec}] /\ \A a \in Addrs : EmptyIndex[a] = NoRec
    BY DEF EmptyIndex
  <2> QED
    BY <1>1, <2>1, <2>2 DEF Matches
<1>7. Reading
  <2>1. Len(rd.buf) = 0 /\ rd.pc = "idle"
    BY <1>1 DEF NoRead
  <2> QED
    BY <2>1 DEF Reading
<1>8. Running
  BY <1>1 DEF Running, NotOpened
<1> QED
  BY <1>1, <1>2, <1>3, <1>4, <1>5, <1>6, <1>7, <1>8 DEF WalInv, RunInv

LEMMA WalStep ==
    ASSUME WalInv, [Next]_vars
    PROVE  WalInv'
<1>1. CASE Running
  <2>1. Types /\ RunInv
    BY <1>1 DEF WalInv
  <2>2. ASSUME Types', RunInv' PROVE WalInv'
    BY <2>2 DEF WalInv, RunInv, Running, NotOpened
  <2>3. ASSUME NEW t \in Writers,
               \/ WriteHeader(t) \/ WriteHeaderFails(t) \/ WriteLog(t) \/ WriteRefused(t)
               \/ WriteLogFails(t) \/ WriteIndexLock(t) \/ WriteIndex(t)
        PROVE  WalInv'
    BY <2>1, <2>2, <2>3, WriteHeaderStep, WriteHeaderFailsStep, WriteLogStep, WriteRefusedStep,
       WriteLogFailsStep, WriteIndexLockStep, WriteIndexStep
  <2>4. CASE CloseWriter
    BY <2>1, <2>2, <2>4, CloseWriterStep
  <2>5. CASE CloseFooter
    BY <2>1, <2>2, <2>5, CloseFooterStep
  <2>6. CASE ReadStart
    BY <2>1, <2>2, <2>6, ReadStartStep
  <2>7. CASE ReadLookup
    BY <2>1, <2>2, <2>7, ReadLookupStep
  <2>8. CASE ReadIO
    BY <2>1, <2>2, <2>8, ReadIOStep
  <2>9. CASE Crash
    BY <2>1, <2>9, CrashStep
  <2>10. ~Open
    BY <1>1 DEF Open, Running
  <2>11. CASE UNCHANGED vars
    <3>1. UNCHANGED <<file, offset, closing, header, index, writeLock, indexLock, wr, rd, reader,
                      hist, tries, broken, failures, reads>>
      BY <2>11 DEF vars
    <3>2. file \in Seq(Cells) /\ Done' = Done /\ Done \in 0..Len(hist) /\ hist \in Seq(Entries)
      BY <2>1, <3>1, DoneIn DEF RunInv, RunningFile, Layout, Done, Held, Types
    <3>3. Len(file) <= Len(file')
      BY <3>1, <3>2
    <3>4. Reading'
      BY <2>1, <3>1, <3>2, <3>3, ReadingKept DEF RunInv
    <3>5. rd' \in ReadCalls /\ reads' \in 0..MaxReads
      BY <2>1, <3>1 DEF Types, RdType
    <3> QED
      BY <2>1, <2>2, <3>1, <3>4, <3>5, ReadFrame
  <2> QED
    BY <2>3, <2>4, <2>5, <2>6, <2>7, <2>8, <2>9, <2>10, <2>11 DEF Next
<1>2. CASE ~Running
  <2>1. /\ reader' = reader \/ reader' = NewWriteLogFromReader(file)
        /\ UNCHANGED <<file, offset, closing, header, index, writeLock, indexLock, wr, rd, hist,
                       tries, broken, failures, reads>>
    <3>1. CASE Open
      BY <3>1 DEF Open, filevars, lockvars, ghosts, bounds
    <3>2. CASE UNCHANGED vars
      BY <3>2 DEF vars
    <3>3. Open \/ UNCHANGED vars
      BY <1>2 DEF Next, WriteHeader, WriteHeaderFails, WriteLog, WriteRefused, WriteLogFails,
           WriteIndexLock, WriteIndex, CloseWriter, CloseFooter, ReadStart, ReadLookup, ReadIO, Crash
    <3> QED
      BY <3>1, <3>2, <3>3
  <2> QED
    BY <1>2, <2>1, OpenStep
<1> QED
  BY <1>1, <1>2

\* The inductive invariant of the log.
THEOREM WalInvariant == Spec => []WalInv
<1>1. Init => WalInv
  BY WalInit
<1>2. WalInv /\ [Next]_vars => WalInv'
  BY WalStep
<1> QED
  BY <1>1, <1>2, PTL DEF Spec

-----------------------------------------------------------------------------
(* The cells of a damaged file *)

LEMMA FooterCells ==
    ASSUME NEW g, NEW z \in Nat, NEW idx, Layout(g, z), Footed(g, z, idx), z < Len(g), IndexOK(idx)
    PROVE  /\ g[z + 1] = FooterEntry
           /\ \A i \in (z + 1)..Len(g) :
                 /\ g[i].k \in {"base", "index", "end"}
                 /\ g[i].k = "end" => /\ i = Len(g)
                                      /\ g[i] = [k |-> "end", size |-> Len(IndexEntries(idx)),
                                                 crc |-> IndexEntries(idx)]
<1> DEFINE es == IndexEntries(idx)
           m == Footer(idx)
<1>1. /\ Len(m) = Len(es) + 2 /\ Len(es) \in Nat
      /\ m[1] = FooterEntry
      /\ \A i \in 1..Len(es) : m[i + 1] = es[i] /\ es[i].k = "index"
      /\ m[Len(es) + 2] = [k |-> "end", size |-> Len(es), crc |-> es]
  BY FooterIs
<1>2. Len(g) = z + Len(m) /\ \A j \in 1..Len(m) : g[z + j] = m[j]
  BY DEF Footed
<1> HIDE DEF es, m
<1>3. g[z + 1] = FooterEntry
  BY <1>1, <1>2
<1>4. ASSUME NEW i \in (z + 1)..Len(g)
      PROVE  /\ g[i].k \in {"base", "index", "end"}
             /\ g[i].k = "end" => i = Len(g) /\ g[i] = [k |-> "end", size |-> Len(es), crc |-> es]
  <2> DEFINE j == i - z
  <2>1. j \in 1..(Len(es) + 2) /\ z + j = i /\ (j = Len(es) + 2 => i = Len(g))
    BY <1>1, <1>2
  <2> HIDE DEF j
  <2>2. g[i] = m[j]
    BY <1>1, <1>2, <2>1
  <2>3. CASE j = 1
    BY <1>1, <2>2, <2>3 DEF FooterEntry
  <2>4. CASE j = Len(es) + 2
    BY <1>1, <2>1, <2>2, <2>4
  <2>5. CASE j # 1 /\ j # Len(es) + 2
    <3> DEFINE y == j - 1
    <3>1. y \in 1..Len(es) /\ y + 1 = j
      BY <1>1, <2>1, <2>5
    <3> HIDE DEF y
    <3>2. m[j] = es[y] /\ es[y].k = "index"
      BY <1>1, <3>1
    <3> QED
      BY <2>2, <3>2
  <2> QED
    BY <2>3, <2>4, <2>5
<1> QED
  BY <1>3, <1>4 DEF es

LEMMA WreckCells ==
    ASSUME Types, NEW g, NEW z, NEW idx, NEW n, NEW torn, NEW lost, Wreck(g, z, idx, n, torn, lost)
    PROVE  /\ file \in Seq(Cells) /\ Len(file) \in Nat /\ Len(file) <= Len(g) /\ Len(g) \in Nat
           /\ z \in Nat /\ z <= Len(g)
           /\ z < Len(g) => IndexOK(idx)
           /\ \A i \in 1..Len(file) :
                 /\ file[i] \in Cells
                 /\ \/ file[i] = g[i] /\ file[i].k \notin {"torn", "lost"}
                    \/ file[i] = [k |-> "lost"] /\ i # 2
                    \/ file[i].k = "torn" /\ i = Len(file)
<1>1. /\ Layout(g, z) /\ Footed(g, z, idx) /\ g \in Seq(Cells) /\ z \in 0..Len(g)
      /\ z < Len(g) => Matches(idx, Len(hist))
      /\ CutAt(g, file, n, torn, lost)
  BY DEF Wreck, Layout
<1>2. /\ n \in 0..Len(g) /\ torn \in BOOLEAN
      /\ torn => n < Len(g)
      /\ lost # 2
      /\ file \in Seq(Cells)
      /\ Len(file) = n + (IF torn THEN 1 ELSE 0)
      /\ \A i \in 1..n : file[i] = IF i = lost THEN [k |-> "lost"] ELSE g[i]
      /\ torn => file[n + 1] = [k |-> "torn"]
  BY <1>1 DEF CutAt
<1>3. Len(g) \in Nat /\ z \in Nat /\ z <= Len(g) /\ n \in Nat /\ n <= Len(g)
  BY <1>1, <1>2
<1>4. Len(file) \in Nat /\ Len(file) <= Len(g)
  BY <1>2, <1>3
<1>5. z < Len(g) => IndexOK(idx)
  <2>1. hist \in Seq(Entries) /\ Len(hist) \in 0..Len(hist)
    BY DEF Types
  <2> QED
    BY <1>1, <2>1, MatchesOK
<1>6. ASSUME NEW i \in 1..Len(g) PROVE g[i].k \notin {"torn", "lost"}
  <2>1. CASE i <= z
    <3>1. g[i].k \in BodyKinds
      BY <1>1, <1>3, <2>1 DEF Layout
    <3> QED
      BY <3>1 DEF BodyKinds
  <2>2. CASE ~(i <= z)
    <3>1. z < Len(g) /\ i \in (z + 1)..Len(g)
      BY <1>3, <2>2
    <3>2. g[i].k \in {"base", "index", "end"}
      BY <1>1, <1>3, <1>5, <3>1, FooterCells
    <3> QED
      BY <3>2
  <2> QED
    BY <2>1, <2>2
<1>7. ASSUME NEW i \in 1..Len(file)
      PROVE  /\ file[i] \in Cells
             /\ \/ file[i] = g[i] /\ file[i].k \notin {"torn", "lost"}
                \/ file[i] = [k |-> "lost"] /\ i # 2
                \/ file[i].k = "torn" /\ i = Len(file)
  <2>1. file[i] \in Cells
    BY <1>2
  <2>2. CASE i <= n
    <3>1. i \in 1..n /\ i \in 1..Len(g)
      BY <1>3, <2>2
    <3> QED
      BY <1>2, <1>6, <2>1, <3>1
  <2>3. CASE ~(i <= n)
    <3>1. torn /\ i = n + 1 /\ Len(file) = n + 1
      BY <1>2, <1>3, <2>3
    <3> QED
      BY <1>2, <2>1, <3>1
  <2> QED
    BY <2>2, <2>3
<1> QED
  BY <1>2, <1>3, <1>4, <1>5, <1>7

\* A part of a file, cell by cell.
LEMMA PartIs ==
    ASSUME NEW f \in Seq(Cells), NEW lo \in Nat, NEW l \in Nat, lo + l <= Len(f),
           NEW a, a = lo + 1, NEW b, b = lo + l, NEW s, s = SubSeq(f, a, b)
    PROVE  s \in Seq(Cells) /\ Len(s) = l /\ \A j \in 1..l : s[j] = f[lo + j]
<1>1. /\ a \in Int /\ b \in Int /\ (a <= b => b - a + 1 = l) /\ (~(a <= b) => l = 0)
      /\ b - a + 1 = l
      /\ \A j \in 1..l : a + j - 1 = lo + j
  OBVIOUS
<1>2. \A j \in a..b : f[j] \in Cells
  OBVIOUS
<1>3. SubSeq(f, a, b) \in Seq(Cells)
  BY <1>1, <1>2, SubSeqProperties
<1>4. Len(SubSeq(f, a, b)) = IF a <= b THEN b - a + 1 ELSE 0
  BY <1>1, <1>2, SubSeqProperties
<1>5. \A j \in 1..(b - a + 1) : SubSeq(f, a, b)[j] = f[a + j - 1]
  BY <1>1, <1>2, SubSeqProperties
<1> QED
  BY <1>1, <1>3, <1>4, <1>5

\* p is the offset and the data of a write.
IsPayload(p, id, off, len) ==
    /\ p \in Seq(Cells) /\ Len(p) = len + 1
    /\ p[1] = [k |-> "offset", off |-> off]
    /\ \A i \in 1..len : p[i + 1] = DataCell(id, off + i - 1)

\* They are in f behind the base at the cell at + 1.
HasPayload(f, at, id, off, len) ==
    /\ f[at + 2] = [k |-> "offset", off |-> off]
    /\ \A a \in Addrs : off <= a /\ a < off + len => f[at + 3 + (a - off)] = DataCell(id, a)

LEMMA PayloadRead ==
    ASSUME NEW f \in Seq(Cells), NEW id, NEW at \in Nat, NEW off \in Nat,
           NEW len \in Nat, off + len - 1 <= MaxAddr, at + 2 + len <= Len(f),
           NEW p, IsPayload(p, id, off, len),
           NEW x, x = at + 2, NEW y, y = at + 2 + len, SubSeq(f, x, y) = p
    PROVE  HasPayload(f, at, id, off, len)
<1> PICK lo, l : lo = at + 1 /\ l = len + 1
  OBVIOUS
<1>1. /\ lo \in Nat /\ l \in Nat /\ x = lo + 1 /\ y = lo + l /\ 1 \in 1..l /\ lo + l <= Len(f)
      /\ lo + 1 = at + 2
  OBVIOUS
<1>2. \A j \in 1..l : p[j] = f[lo + j]
  BY <1>1, PartIs
<1>3. f[at + 2] = [k |-> "offset", off |-> off]
  BY <1>1, <1>2 DEF IsPayload
<1>4. ASSUME NEW a \in Addrs, off <= a, a < off + len
      PROVE  f[at + 3 + (a - off)] = DataCell(id, a)
  <2> PICK i : i = a - off + 1
    OBVIOUS
  <2>1. a \in Nat
    BY MaxAddrAssumption DEF Addrs
  <2>2. i \in 1..len /\ i + 1 \in 1..l /\ lo + (i + 1) = at + 3 + (a - off) /\ off + i - 1 = a
    BY <1>4, <2>1
  <2>3. p[i + 1] = f[lo + (i + 1)]
    BY <1>2, <2>2
  <2>4. p[i + 1] = DataCell(id, off + i - 1)
    BY <2>2 DEF IsPayload
  <2> QED
    BY <2>2, <2>3, <2>4
<1> QED
  BY <1>3, <1>4 DEF HasPayload

LEMMA PayloadThere ==
    ASSUME NEW f \in Seq(Cells), NEW id, NEW at \in Nat, NEW off \in Nat,
           NEW len \in Nat, off + len - 1 <= MaxAddr, at + 2 + len <= Len(f),
           NEW p, IsPayload(p, id, off, len),
           NEW x, x = at + 2, NEW y, y = at + 2 + len, HasPayload(f, at, id, off, len)
    PROVE  SubSeq(f, x, y) = p
<1> PICK lo, l : lo = at + 1 /\ l = len + 1
  OBVIOUS
<1>1. /\ lo \in Nat /\ l \in Nat /\ x = lo + 1 /\ y = lo + l /\ lo + l <= Len(f)
      /\ lo + 1 = at + 2
  OBVIOUS
<1> PICK s : s = SubSeq(f, x, y)
  OBVIOUS
<1>2. s \in Seq(Cells)
  BY <1>1, PartIs
<1>3. Len(s) = l /\ \A j \in 1..l : s[j] = f[lo + j]
  BY <1>1, PartIs
<1>4. ASSUME NEW j \in 1..l PROVE f[lo + j] = p[j]
  <2>1. CASE j = 1
    BY <1>1, <2>1 DEF IsPayload, HasPayload
  <2>2. CASE j # 1
    <3> PICK i, a : i = j - 1 /\ a = off + i - 1
      OBVIOUS
    <3>1. i \in 1..len /\ i + 1 = j
      BY <2>2
    <3>2. a \in Addrs /\ off <= a /\ a < off + len
      BY <3>1, MaxAddrAssumption DEF Addrs
    <3>3. at + 3 + (a - off) = lo + j
      BY <2>2
    <3>4. p[j] = DataCell(id, a)
      BY <3>1 DEF IsPayload
    <3>5. f[at + 3 + (a - off)] = DataCell(id, a)
      BY <3>2 DEF HasPayload
    <3> QED
      BY <3>3, <3>4, <3>5
  <2> QED
    BY <2>1, <2>2
<1>5. p \in Seq(Cells) /\ Len(p) = l
  BY DEF IsPayload
<1>6. \A j \in 1..l : s[j] = p[j]
  BY <1>3, <1>4
<1> QED
  BY <1>2, <1>3, <1>5, <1>6, SeqEqual

LEMMA PayloadOf ==
    ASSUME NEW e \in Entries
    PROVE  /\ IsPayload(Payload(e.id, e), e.id, e.off, e.len)
           /\ \A f : Placed(f, e) <=> f[e.at + 1] = Base(e) /\ HasPayload(f, e.at, e.id, e.off, e.len)
<1> PICK p : p = Payload(e.id, e)
  OBVIOUS
<1>1. IsWrite(e)
  BY EntryIsWrite
<1>2. p \in Seq(PayCells)
  BY <1>1, PayloadIs
<1>3. Len(p) = e.len + 1
  BY <1>1, PayloadIs
<1>4. p[1] = [k |-> "offset", off |-> e.off]
  BY <1>1, PayloadIs
<1>5. \A i \in 1..e.len : p[i + 1] = DataCell(e.id, e.off + i - 1)
  BY <1>1, PayloadIs, ZenonT(40)
<1>6. p \in Seq(Cells)
  BY <1>2, SeqMonotonic DEF Cells
<1>7. IsPayload(p, e.id, e.off, e.len)
  BY <1>3, <1>4, <1>5, <1>6 DEF IsPayload
<1>8. \A f : Placed(f, e) <=> f[e.at + 1] = Base(e) /\ HasPayload(f, e.at, e.id, e.off, e.len)
  BY Zenon DEF Placed, HasPayload, Covers
<1> QED
  BY <1>7, <1>8

-----------------------------------------------------------------------------
(* What the loop of NewReader makes of an entry *)

LEMMA BaseIs ==
    ASSUME NEW e
    PROVE  /\ Base(e).k = "base" /\ Base(e).type = "data" /\ Base(e).len = e.len
           /\ Base(e).crc = Payload(e.id, e)
  BY DEF Base

LEMMA LastCell ==
    ASSUME NEW f, NEW at \in Nat, NEW off \in Nat, NEW len \in Nat, NEW id, len >= 1,
           off + len - 1 <= MaxAddr, HasPayload(f, at, id, off, len), NEW r, r = at + 2 + len
    PROVE  f[r] = DataCell(id, off + len - 1)
<1> PICK a : a = off + len - 1
  OBVIOUS
<1>1. a \in Addrs /\ off <= a /\ a < off + len /\ at + 3 + (a - off) = r
  BY MaxAddrAssumption DEF Addrs
<1>2. f[at + 3 + (a - off)] = DataCell(id, a)
  BY <1>1 DEF HasPayload
<1> QED
  BY <1>1, <1>2

LEMMA EntryPlaces ==
    ASSUME NEW at \in Nat, NEW len \in Nat, NEW p, p = at + 1, NEW q, q = p + 1,
           NEW r, r = p + 1 + len, NEW l \in Nat, at + 2 + len <= l
    PROVE  q = at + 2 /\ r = at + 2 + len /\ l >= q /\ l >= r /\ ~(p > l)
  OBVIOUS

\* It accepts an entry that is there from its base to its last cell.
LEMMA EntryAccepted ==
    ASSUME NEW f \in Seq(Cells), NEW e \in Entries, NEW p \in Nat, p = e.at + 1,
           End(e) <= Len(f), Placed(f, e)
    PROVE  readEntry(f, p) = "more"
<1>1. /\ e.at \in Nat /\ e.off \in Nat /\ e.len \in Nat /\ e.len >= 1 /\ e.off \in Addrs
      /\ e.off + e.len - 1 <= MaxAddr /\ End(e) = e.at + 2 + e.len /\ Len(f) \in Nat
  BY EntryNumbers
<1>2. /\ IsPayload(Payload(e.id, e), e.id, e.off, e.len)
      /\ f[e.at + 1] = Base(e) /\ HasPayload(f, e.at, e.id, e.off, e.len)
  BY PayloadOf
<1>3. PICK q, r, at, off, len, id, P : /\ q = p + 1 /\ at = e.at /\ off = e.off /\ len = e.len /\ id = e.id
                                  /\ r = p + 1 + len /\ P = Payload(e.id, e)
  OBVIOUS
<1>4. /\ at \in Nat /\ off \in Nat /\ len \in Nat /\ len >= 1 /\ off + len - 1 <= MaxAddr
      /\ at + 2 + len <= Len(f) /\ p = at + 1
  BY <1>3, <1>1
<1>5. /\ f[p].k = "base" /\ f[p].type = "data" /\ f[p].len = len /\ f[p].crc = P
  <2>1. f[p] = Base(e)
    BY <1>2
  <2> QED
    BY <1>3, <2>1, BaseIs
<1>6. HasPayload(f, at, id, off, len) /\ IsPayload(P, id, off, len)
  BY <1>3, <1>2
<1>7. q = p + 1 /\ r = p + 1 + len
  BY <1>3
<1>8. /\ q = at + 2 /\ r = at + 2 + len /\ Len(f) >= q /\ Len(f) >= r /\ ~(p > Len(f))
  BY <1>1, <1>4, <1>7, EntryPlaces
<1>9. SubSeq(f, q, r) = P
  BY <1>4, <1>6, <1>8, PayloadThere
<1>10. f[q].k = "offset"
  BY <1>6, <1>8 DEF HasPayload
<1>11. f[r].k = "data"
  <2>1. r = at + 2 + len
    BY <1>8
  <2>2. /\ at \in Nat /\ off \in Nat /\ len \in Nat /\ len >= 1
        /\ off + len - 1 <= MaxAddr /\ HasPayload(f, at, id, off, len)
    BY <1>4, <1>6
  <2>3. f[r] = DataCell(id, off + len - 1)
    BY <2>1, <2>2, LastCell
  <2> QED
    BY <2>3 DEF DataCell
<1>12. Whole(f, q) /\ Whole(f, r)
  BY <1>8, <1>10, <1>11 DEF Whole
<1>13. SubSeq(f, p + 1, p + 1 + f[p].len) = f[p].crc /\ Whole(f, p + 1) /\ Whole(f, p + 1 + f[p].len)
  BY <1>5, <1>7, <1>9, <1>12
<1> QED
  BY <1>5, <1>8, <1>13 DEF readEntry

\* And only then, if the cell it looks at is the entry's base or damaged.
LEMMA EntryRejected ==
    ASSUME NEW f \in Seq(Cells), NEW e \in Entries, NEW p \in Nat, p = e.at + 1,
           p <= Len(f) => f[p] = Base(e) \/ f[p].k \in {"torn", "lost"},
           readEntry(f, p) = "more"
    PROVE  End(e) <= Len(f) /\ Placed(f, e)
<1>1. /\ e.at \in Nat /\ e.off \in Nat /\ e.len \in Nat /\ e.len >= 1 /\ e.off \in Addrs
      /\ e.off + e.len - 1 <= MaxAddr /\ End(e) = e.at + 2 + e.len /\ Len(f) \in Nat
  BY EntryNumbers
<1>2. IsPayload(Payload(e.id, e), e.id, e.off, e.len)
  BY PayloadOf
<1>3. p \in 1..(Len(f) + 1)
  <2>1. p <= Len(f)
    BY DEF readEntry
  <2>2. \A x \in Nat : p = x + 1 => p >= 1
    OBVIOUS
  <2> QED
    BY <1>1, <2>1, <2>2
<1>4. /\ p \in 1..Len(f) /\ f[p].k = "base"
      /\ p + 1 + f[p].len <= Len(f)
      /\ SubSeq(f, p + 1, p + 1 + f[p].len) = f[p].crc
  BY <1>3, Accepted
<1>5. f[p] = Base(e)
  BY <1>4
<1>6. f[p].len = e.len /\ f[p].crc = Payload(e.id, e)
  BY <1>5, BaseIs
<1>7. PICK q, r, at, off, len, id, P : /\ q = p + 1 /\ at = e.at /\ off = e.off /\ len = e.len /\ id = e.id
                                  /\ r = p + 1 + len /\ P = Payload(e.id, e)
  OBVIOUS
<1>8. /\ at \in Nat /\ off \in Nat /\ len \in Nat /\ off + len - 1 <= MaxAddr
      /\ r <= Len(f) /\ p = at + 1 /\ SubSeq(f, q, r) = P /\ IsPayload(P, id, off, len)
  BY <1>7, <1>1, <1>2, <1>4, <1>6
<1>9. q = p + 1 /\ r = p + 1 + len
  BY <1>7
<1>10. q = at + 2 /\ r = at + 2 + len /\ at + 2 + len <= Len(f)
  <2> QED
    BY <1>8, <1>9
<1>11. HasPayload(f, at, id, off, len)
  BY <1>8, <1>10, PayloadRead
<1>12. f[e.at + 1] = Base(e) /\ HasPayload(f, e.at, e.id, e.off, e.len)
  BY <1>7, <1>5, <1>11
<1>13. Placed(f, e)
  BY <1>12, PayloadOf
<1>14. e.at + 2 + e.len <= Len(f)
  BY <1>7, <1>10
<1> QED
  BY <1>1, <1>13, <1>14

-----------------------------------------------------------------------------
(* The header of a damaged file *)

LEMMA ReadHeaderIs ==
    ASSUME NEW f \in Seq(Cells)
    PROVE  /\ readHeader(f) \in {"nil", "invalid", "unexpected"}
           /\ readHeader(f) = "nil" <=> Len(f) >= 2 /\ f[1] = Header[1] /\ f[2] = Header[2]
           /\ readHeader(f) = "nil" <=> ~(Len(f) < 2 \/ SubSeq(f, 1, 2) # Header)
<1>1. readHeader(f) \in {"nil", "invalid", "unexpected"}
  BY DEF readHeader
<1>2. Len(f) \in Nat
  OBVIOUS
<1>3. /\ Len(f) >= 1 => (f[1].k = "magic" <=> f[1] = Header[1])
      /\ Len(f) >= 2 => (f[2].k = "header" <=> f[2] = Header[2])
  <2>1. /\ Len(f) >= 1 => f[1] \in Cells
        /\ Len(f) >= 2 => f[2] \in Cells
    BY <1>2
  <2>2. Header[1].k = "magic" /\ Header[2].k = "header"
    BY DEF Header
  <2> QED
    BY <2>1, <2>2, NoOtherKind
<1>4. readHeader(f) = "nil" <=> Len(f) >= 2 /\ f[1].k = "magic" /\ f[2].k = "header"
  BY <1>2 DEF readHeader, Whole
<1>5. readHeader(f) = "nil" <=> Len(f) >= 2 /\ f[1] = Header[1] /\ f[2] = Header[2]
  BY <1>2, <1>3, <1>4
<1>6. ASSUME Len(f) >= 2 PROVE SubSeq(f, 1, 2) = Header <=> f[1] = Header[1] /\ f[2] = Header[2]
  <2>1. \A s : s = SubSeq(f, 1, 2) => s \in Seq(Cells) /\ Len(s) = 2 /\ \A j \in 1..2 : s[j] = f[0 + j]
    BY <1>2, <1>6, PartIs
  <2>2. SubSeq(f, 1, 2) \in Seq(Cells)
    BY <2>1
  <2>3. /\ Len(SubSeq(f, 1, 2)) = 2
        /\ SubSeq(f, 1, 2)[1] = f[1] /\ SubSeq(f, 1, 2)[2] = f[2]
    BY <2>1
  <2>4. Header \in Seq(Cells)
    BY DEF Header, Cells
  <2>5. Len(Header) = 2
    BY DEF Header
  <2> PICK s, h : s = SubSeq(f, 1, 2) /\ h = Header
    OBVIOUS
  <2>6. s = h <=> s[1] = h[1] /\ s[2] = h[2]
    <3>1. ASSUME s[1] = h[1], s[2] = h[2] PROVE s = h
      <4>1. \A j \in 1..2 : s[j] = h[j]
        BY <3>1
      <4> QED
        BY <2>2, <2>3, <2>4, <2>5, <4>1, SeqEqual
    <3> QED
      BY <3>1
  <2> QED
    BY <2>3, <2>6
<1>7. readHeader(f) = "nil" <=> ~(Len(f) < 2 \/ SubSeq(f, 1, 2) # Header)
  BY <1>2, <1>5, <1>6
<1> QED
  BY <1>1, <1>5, <1>7

\* A file with a good header has had all of it written.
LEMMA GoodHeader ==
    ASSUME Types, NEW g, NEW z, NEW idx, NEW n, NEW torn, NEW lost, Wreck(g, z, idx, n, torn, lost),
           readHeader(file) = "nil"
    PROVE  header = "ok" /\ Len(file) >= 2 /\ z >= 2
<1>1. /\ file \in Seq(Cells) /\ Len(file) \in Nat /\ Len(file) <= Len(g) /\ Len(g) \in Nat
      /\ z \in Nat /\ z <= Len(g)
      /\ z < Len(g) => IndexOK(idx)
      /\ \A i \in 1..Len(file) :
            \/ file[i] = g[i] /\ file[i].k \notin {"torn", "lost"}
            \/ file[i] = [k |-> "lost"] /\ i # 2
            \/ file[i].k = "torn" /\ i = Len(file)
  BY WreckCells
<1>2. Len(file) >= 2 /\ file[2] = Header[2]
  BY <1>1, ReadHeaderIs
<1>3. file[2].k = "header"
  BY <1>2 DEF Header
<1>4. g[2].k = "header"
  BY <1>1, <1>2, <1>3
<1>5. Layout(g, z) /\ Footed(g, z, idx)
  BY DEF Wreck
<1>6. z >= 2
  <2> SUFFICES ASSUME ~(z >= 2) PROVE FALSE
    OBVIOUS
  <2>1. z < Len(g) /\ 2 \in (z + 1)..Len(g)
    BY <1>1, <1>2
  <2>2. g[2].k \in {"base", "index", "end"}
    BY <1>1, <1>5, <2>1, FooterCells
  <2> QED
    BY <1>4, <2>2
<1>7. header = "ok"
  BY <1>1, <1>5, <1>6 DEF Layout, Types
<1> QED
  BY <1>2, <1>6, <1>7

\* A header that is refused, though no page was lost, is one that could not be
\* written.
LEMMA BadHeader ==
    ASSUME Types, NEW g, NEW z, NEW idx, NEW n, NEW torn, NEW lost, Wreck(g, z, idx, n, torn, lost),
           readHeader(file) = "invalid", \A i \in DOMAIN file : file[i].k # "lost"
    PROVE  header = "failed"
<1>1. /\ file \in Seq(Cells) /\ Len(file) \in Nat /\ Len(file) <= Len(g) /\ Len(g) \in Nat
      /\ z \in Nat /\ z <= Len(g)
      /\ \A i \in 1..Len(file) :
            \/ file[i] = g[i] /\ file[i].k \notin {"torn", "lost"}
            \/ file[i] = [k |-> "lost"] /\ i # 2
            \/ file[i].k = "torn" /\ i = Len(file)
  BY WreckCells
<1>2. \A i \in 1..Len(file) : file[i] = g[i] \/ file[i].k = "torn"
  BY <1>1
<1>3. CASE header = "ok"
  <2>1. g[1] = Header[1] /\ g[2] = Header[2]
    BY <1>3 DEF Wreck, Layout
  <2>2. /\ Len(file) >= 1 => file[1].k \in {"magic", "torn"}
        /\ Len(file) >= 2 => file[2].k \in {"header", "torn"}
    BY <1>1, <1>2, <2>1 DEF Header
  <2>3. readHeader(file) = IF ~Whole(file, 1) \/ ~Whole(file, 2) THEN "unexpected" ELSE "nil"
    <3>1. CASE ~Whole(file, 1) \/ ~Whole(file, 2)
      BY <1>1, <2>2, <3>1 DEF readHeader
    <3>2. CASE Whole(file, 1) /\ Whole(file, 2)
      <4>1. Len(file) >= 2 /\ file[1].k # "torn" /\ file[2].k # "torn"
        BY <1>1, <3>2 DEF Whole
      <4>2. file[1].k = "magic" /\ file[2].k = "header"
        BY <1>1, <2>2, <4>1
      <4> QED
        BY <3>2, <4>2 DEF readHeader
    <3> QED
      BY <3>1, <3>2
  <2> QED
    BY <2>3
<1>4. CASE header = "none"
  <2>1. Len(file) = 0
    BY <1>1, <1>4 DEF Wreck, Layout
  <2>2. ~Whole(file, 1) /\ ~(Len(file) >= 1)
    BY <2>1 DEF Whole
  <2>3. readHeader(file) = "unexpected"
    BY <2>2 DEF readHeader
  <2> QED
    BY <2>3
<1> QED
  BY <1>3, <1>4 DEF Types

-----------------------------------------------------------------------------
(* The loop of NewReader in a damaged file: it accepts the sound entries in *)
(* their order, up to the first that is not intact                          *)

\* It finds each where the one before it ends.
LEMMA LoopEntry ==
    ASSUME Types, NEW g, NEW z, NEW idx, NEW n, NEW torn, NEW lost, Wreck(g, z, idx, n, torn, lost),
           NEW s \in 0..Len(hist), SoundTo(s, z), NEW i \in 1..s
    PROVE  /\ readEntry(file, Pos(i - 1) + 1) = "more" <=> IsIntact(hist[i])
           /\ Pos(i - 1) = hist[i].at /\ Pos(i) = hist[i].at + 2 + hist[i].len
           /\ IsIntact(hist[i]) <=> Pos(i) <= Len(file) /\ Placed(file, hist[i])
<1>1. /\ file \in Seq(Cells) /\ Len(file) \in Nat /\ Len(file) <= Len(g) /\ Len(g) \in Nat
      /\ \A j \in 1..Len(file) :
            \/ file[j] = g[j] /\ file[j].k \notin {"torn", "lost"}
            \/ file[j] = [k |-> "lost"] /\ j # 2
            \/ file[j].k = "torn" /\ j = Len(file)
  BY WreckCells
<1>2. hist \in Seq(Entries) /\ i \in 1..Len(hist) /\ i # 0 /\ i \in 0..Len(hist) /\ i \in Nat
  BY DEF Types
<1>3. PICK e \in Entries : e = hist[i]
  BY <1>2
<1>4. e.at = Pos(i - 1)
  BY <1>3 DEF SoundTo
<1>5. Placed(g, e)
  BY <1>2, <1>3 DEF Wreck, Layout
<1>6. Pos(i) = End(e)
  BY <1>2, <1>3, PosNat
<1>7. e.at \in Nat /\ End(e) = e.at + 2 + e.len
  BY EntryNumbers
<1>8. PICK p \in Nat : p = e.at + 1
  BY <1>7
<1>9. g[p] = Base(e)
  BY <1>5, <1>8 DEF Placed
<1>10. p >= 1
  BY <1>7, <1>8
<1>11. p <= Len(file) => file[p] = Base(e) \/ file[p].k \in {"torn", "lost"}
  BY <1>1, <1>9, <1>10
<1>12. IsIntact(e) <=> End(e) <= Len(file) /\ Placed(file, e)
  BY <1>1, IntactIs
<1>13. readEntry(file, p) = "more" <=> IsIntact(e)
  <2>1. ASSUME readEntry(file, p) = "more" PROVE End(e) <= Len(file) /\ Placed(file, e)
    BY <1>1, <1>8, <1>11, <2>1, EntryRejected
  <2>2. ASSUME End(e) <= Len(file), Placed(file, e) PROVE readEntry(file, p) = "more"
    BY <1>1, <1>8, <2>2, EntryAccepted
  <2> QED
    BY <1>12, <2>1, <2>2
<1> QED
  BY <1>3, <1>4, <1>6, <1>7, <1>8, <1>12, <1>13

\* Behind the last it finds no other: there is the end of the file, the footer
\* or a half-written entry.
LEMMA PayloadKinds ==
    ASSUME NEW e \in Entries, NEW j \in 1..(e.len + 1)
    PROVE  Payload(e.id, e)[j].k \in {"offset", "data"}
<1>1. PICK p : p = Payload(e.id, e)
  OBVIOUS
<1>2. IsWrite(e)
  BY EntryIsWrite
<1>3. p \in Seq(PayCells)
  BY <1>1, <1>2, PayloadIs
<1>4. Len(p) = e.len + 1
  BY <1>1, <1>2, PayloadIs
<1>5. p[j] \in PayCells
  BY <1>3, <1>4
<1>6. p[j].k \in {"offset", "data"}
  BY <1>5 DEF PayCells
<1> QED
  BY <1>1, <1>6

LEMMA PartialRejected ==
    ASSUME NEW f \in Seq(Cells), NEW p \in Nat, p >= 1, NEW e \in Entries, NEW j \in 1..(e.len + 1),
           p <= Len(f) => f[p] = Base(e) \/ f[p].k \in {"torn", "lost"},
           p + j <= Len(f) => f[p + j].k \notin {"offset", "data"}
    PROVE  readEntry(f, p) # "more"
<1> SUFFICES ASSUME readEntry(f, p) = "more" PROVE FALSE
  OBVIOUS
<1>1. p <= Len(f) /\ Len(f) \in Nat /\ p \in 1..(Len(f) + 1)
  BY DEF readEntry
<1>2. /\ f[p].k = "base" /\ p + 1 + f[p].len <= Len(f)
      /\ SubSeq(f, p + 1, p + 1 + f[p].len) = f[p].crc
  BY <1>1, Accepted
<1>3. f[p] = Base(e)
  BY <1>1, <1>2
<1>4. f[p].len = e.len /\ f[p].crc = Payload(e.id, e)
  BY <1>3, BaseIs
<1>5. PICK l, c : l = e.len + 1 /\ c = p + 1 + f[p].len
  OBVIOUS
<1>6. l \in Nat /\ c = p + l /\ c <= Len(f) /\ j \in 1..l
  <2>1. e.len \in Nat
    BY EntryNumbers
  <2>2. \A x \in Nat : x + 1 \in Nat /\ p + 1 + x = p + (x + 1)
    OBVIOUS
  <2>3. c = p + 1 + e.len /\ c <= Len(f)
    BY <1>2, <1>4, <1>5
  <2>4. l = e.len + 1
    BY <1>5
  <2> QED
    BY <2>1, <2>2, <2>3, <2>4, Zenon
<1>7. SubSeq(f, p + 1, c) = Payload(e.id, e)
  BY <1>2, <1>4, <1>5
<1>8. \A s, b : b = p + 1 /\ s = SubSeq(f, b, c) => \A i \in 1..l : s[i] = f[p + i]
  BY <1>6, PartIs
<1>9. Payload(e.id, e)[j] = f[p + j]
  BY <1>6, <1>7, <1>8
<1>10. Payload(e.id, e)[j].k \in {"offset", "data"}
  BY PayloadKinds
<1>11. p + j <= Len(f)
  BY <1>1, <1>6
<1> QED
  BY <1>9, <1>10, <1>11

LEMMA LoopEnd ==
    ASSUME Types, NEW g, NEW z, NEW idx, NEW n, NEW torn, NEW lost, Wreck(g, z, idx, n, torn, lost),
           header = "ok", NEW s \in 0..Len(hist), SoundTo(s, z)
    PROVE  readEntry(file, Pos(s) + 1) # "more"
<1>1. /\ file \in Seq(Cells) /\ Len(file) \in Nat /\ Len(file) <= Len(g) /\ Len(g) \in Nat
      /\ z \in Nat /\ z <= Len(g)
      /\ z < Len(g) => IndexOK(idx)
      /\ \A j \in 1..Len(file) :
            \/ file[j] = g[j] /\ file[j].k \notin {"torn", "lost"}
            \/ file[j] = [k |-> "lost"] /\ j # 2
            \/ file[j].k = "torn" /\ j = Len(file)
  BY WreckCells
<1>2. Layout(g, z) /\ Footed(g, z, idx) /\ hist \in Seq(Entries)
  BY DEF Wreck, Types
<1>3. z < Len(g) => g[z + 1] = FooterEntry
  BY <1>1, <1>2, FooterCells
<1>4. PICK p \in Nat : p = Pos(s) + 1 /\ p >= 1
  <2>1. Pos(s) \in Nat
    BY <1>2, PosNat
  <2> QED
    BY <2>1
<1>5. CASE broken = 0
  <2>1. p = z + 1
    BY <1>4, <1>5 DEF SoundTo
  <2>2. p <= Len(file) => file[p] = FooterEntry \/ file[p].k \in {"torn", "lost"}
    BY <1>1, <1>3, <2>1
  <2>3. readEntry(file, p) # "more"
    BY <2>2 DEF readEntry, FooterEntry
  <2> QED
    BY <1>4, <2>3
<1>6. CASE broken # 0
  <2>1. p = broken
    BY <1>4, <1>6 DEF SoundTo
  <2>2. PICK e \in Entries : \E j \in 1..(e.len + 1) :
          g[p] = Base(e) /\ p + j <= z + 1 /\ (p + j <= z => g[p + j].k = "base")
    BY <1>2, <1>6, <2>1 DEF Layout, Partial
  <2>3. PICK j \in 1..(e.len + 1) :
          g[p] = Base(e) /\ p + j <= z + 1 /\ (p + j <= z => g[p + j].k = "base")
    BY <2>2
  <2>4. j \in Nat
    OBVIOUS
  <2>5. p <= Len(file) => file[p] = Base(e) \/ file[p].k \in {"torn", "lost"}
    BY <1>1, <1>4, <2>3
  <2>6. ASSUME p + j <= Len(file) PROVE file[p + j].k \notin {"offset", "data"}
    <3>1. p + j \in 1..Len(file) /\ p + j <= Len(g)
      BY <1>1, <1>4, <2>4, <2>6
    <3>2. g[p + j].k = "base"
      <4>1. CASE p + j <= z
        BY <2>3, <4>1
      <4>2. CASE ~(p + j <= z)
        <5>1. p + j = z + 1 /\ z < Len(g)
          BY <1>1, <2>3, <2>4, <3>1, <4>2
        <5> QED
          BY <1>3, <5>1 DEF FooterEntry
      <4> QED
        BY <4>1, <4>2
    <3> QED
      BY <1>1, <3>1, <3>2
  <2>7. readEntry(file, p) # "more"
    BY <1>1, <1>4, <2>5, <2>6, PartialRejected
  <2> QED
    BY <1>4, <2>7
<1> QED
  BY <1>5, <1>6

\* The loop as a whole.
LEMMA LoopRecovers ==
    ASSUME Types, NEW g, NEW z, NEW idx, NEW n, NEW torn, NEW lost, Wreck(g, z, idx, n, torn, lost),
           readHeader(file) = "nil", NEW s \in 0..Len(hist), SoundTo(s, z)
    PROVE  \E m \in 0..s :
              /\ \A i \in 1..m : IsIntact(hist[i])
              /\ m # s => ~IsIntact(hist[m + 1])
              /\ readEntry(file, Pos(m) + 1) # "more" /\ Pos(m) \in Nat
              /\ LoadLoop(file, 3) = [err |-> readEntry(file, Pos(m) + 1),
                                      at |-> [i \in 1..m |-> Pos(i - 1) + 1]]
<1>1. header = "ok" /\ Len(file) >= 2
  BY GoodHeader
<1>2. file \in Seq(Cells) /\ Len(file) \in Nat
  BY WreckCells
<1>3. hist \in Seq(Entries) /\ s \in Nat /\ Len(hist) \in Nat
  BY DEF Types
<1> DEFINE T == {i \in 0..s : readEntry(file, Pos(i) + 1) # "more"}
<1>4. s \in T
  <2>1. readEntry(file, Pos(s) + 1) # "more"
    BY <1>1, LoopEnd
  <2> QED
    BY <1>3, <2>1
<1>5. T \in SUBSET Nat /\ T # {}
  BY <1>3, <1>4
<1>6. PICK m \in T : \A i \in T : m <= i
  BY <1>5, LeastNat
<1>7. m \in 0..s /\ m \in Nat /\ readEntry(file, Pos(m) + 1) # "more"
  BY <1>3
<1>8. ASSUME NEW i \in 0..(m - 1) PROVE readEntry(file, Pos(i) + 1) = "more"
  <2>1. i \in 0..s /\ ~(m <= i)
    BY <1>3, <1>7
  <2>2. i \notin T
    <3> HIDE DEF T
    <3> QED
      BY <1>6, <2>1
  <2> QED
    BY <2>1, <2>2
<1> HIDE DEF T
<1>9. \A i \in 1..s : /\ readEntry(file, Pos(i - 1) + 1) = "more" <=> IsIntact(hist[i])
                      /\ Pos(i - 1) = hist[i].at /\ Pos(i) = hist[i].at + 2 + hist[i].len
                      /\ IsIntact(hist[i]) <=> Pos(i) <= Len(file) /\ Placed(file, hist[i])
  BY LoopEntry
<1>10. ASSUME NEW i \in 1..m PROVE IsIntact(hist[i])
  <2>1. i \in 1..s /\ i - 1 \in 0..(m - 1)
    BY <1>3, <1>7
  <2> QED
    BY <1>8, <1>9, <2>1
<1>11. ASSUME m # s PROVE ~IsIntact(hist[m + 1])
  <2>1. m + 1 \in 1..s /\ (m + 1) - 1 = m
    BY <1>3, <1>7, <1>11
  <2> QED
    BY <1>7, <1>9, <2>1
<1>12. \A i \in 0..m : Pos(i) \in Nat
  <2>1. \A i \in 0..m : i \in 0..Len(hist)
    BY <1>3, <1>7
  <2> QED
    BY <1>3, <2>1, PosNat
<1>13. Pos(0) = 2
  BY DEF Pos, entryHeaderSize
<1> DEFINE P == [i \in 0..m |-> Pos(i) + 1]
<1>14. ASSUME NEW i \in 0..m PROVE Pos(i) + 1 \in 3..(Len(file) + 1)
  <2>1. CASE i = 0
    BY <1>1, <1>2, <1>13, <2>1
  <2>2. CASE i # 0
    <3>1. i \in 1..m /\ i \in 1..s
      BY <1>3, <1>7, <2>2
    <3>2. Pos(i) <= Len(file)
      BY <1>9, <1>10, <3>1
    <3>3. Pos(i) >= 2
      <4>1. hist[i] \in Entries
        BY <1>3, <3>1
      <4>2. Pos(i) = End(hist[i]) /\ End(hist[i]) = hist[i].at + 2 + hist[i].len
        BY <1>3, <3>1, <4>1, PosNat, EntryNumbers
      <4>3. hist[i].at \in Nat /\ hist[i].len \in Nat
        BY <4>1, EntryNumbers
      <4> QED
        BY <4>2, <4>3
    <3> QED
      BY <1>2, <1>12, <3>2, <3>3
  <2> QED
    BY <2>1, <2>2
<1>15. P \in [0..m -> 3..(Len(file) + 1)]
  BY <1>14
<1>16. P[0] = 3
  BY <1>7, <1>13
<1>17. ASSUME NEW i \in 0..(m - 1)
       PROVE  readEntry(file, P[i]) = "more" /\ P[i + 1] = P[i] + 2 + file[P[i]].len
  <2>1. i \in 0..m /\ i + 1 \in 0..m /\ i + 1 \in 1..s /\ i + 1 \in 1..m /\ (i + 1) - 1 = i
    BY <1>3, <1>7
  <2>2. P[i] = Pos(i) + 1 /\ P[i + 1] = Pos(i + 1) + 1
    BY <2>1
  <2>3. Pos(i) = hist[i + 1].at /\ Pos(i + 1) = hist[i + 1].at + 2 + hist[i + 1].len
    BY <1>9, <2>1
  <2>4. IsIntact(hist[i + 1])
    BY <1>10, <2>1
  <2>5. Placed(file, hist[i + 1])
    BY <1>9, <2>1, <2>4
  <2>6. file[hist[i + 1].at + 1] = Base(hist[i + 1])
    BY <2>5 DEF Placed
  <2>7. file[Pos(i) + 1].len = hist[i + 1].len
    BY <2>3, <2>6, BaseIs
  <2>8. Pos(i) \in Nat /\ hist[i + 1].len \in Nat
    <3>1. hist[i + 1] \in Entries
      BY <1>3, <2>1
    <3> QED
      BY <1>12, <2>1, <3>1, EntryNumbers
  <2>9. Pos(i + 1) + 1 = (Pos(i) + 1) + 2 + file[Pos(i) + 1].len
    <3>1. \A x, y \in Nat : (x + 2 + y) + 1 = (x + 1) + 2 + y
      OBVIOUS
    <3>2. Pos(i + 1) = Pos(i) + 2 + hist[i + 1].len
      BY <2>3
    <3>3. (Pos(i) + 2 + hist[i + 1].len) + 1 = (Pos(i) + 1) + 2 + hist[i + 1].len
      BY <2>8, <3>1, Zenon
    <3> QED
      BY <2>7, <3>2, <3>3, Zenon
  <2> HIDE DEF P
  <2> QED
    BY <1>8, <2>2, <2>9
<1>18. P[m] = Pos(m) + 1
  BY <1>7
<1>19. 3 \in 1..(Len(file) + 1)
  BY <1>1, <1>2
<1>20. \A i \in 1..m : P[i - 1] = Pos(i - 1) + 1
  BY <1>7
<1> HIDE DEF P
<1>21. readEntry(file, P[m]) # "more"
  BY <1>7, <1>18
<1>22. LoadLoop(file, 3) = [err |-> readEntry(file, P[m]), at |-> [i \in 1..m |-> P[i - 1]]]
  BY <1>2, <1>7, <1>15, <1>16, <1>17, <1>19, <1>21, LoopIs
<1>23. [i \in 1..m |-> P[i - 1]] = [i \in 1..m |-> Pos(i - 1) + 1]
  BY <1>20
<1>24. LoadLoop(file, 3) = [err |-> readEntry(file, Pos(m) + 1),
                            at |-> [i \in 1..m |-> Pos(i - 1) + 1]]
  BY <1>18, <1>22, <1>23, Zenon
<1>25. Pos(m) \in Nat
  BY <1>7, <1>12
<1> QED
  BY <1>7, <1>10, <1>11, <1>24, <1>25

\* The record the loop makes of entry i.
RecOf(i) == [logOffset |-> hist[i].at + entryHeaderSize, off |-> hist[i].off, len |-> hist[i].len]

LEMMA RecOfIs ==
    ASSUME hist \in Seq(Entries), NEW i \in 1..Len(hist)
    PROVE  /\ RecOf(i) \in Records
           /\ \A a : Covers(RecOf(i), a) <=> Covers(hist[i], a)
           /\ \A a : LogOff(RecOf(i), a) = hist[i].at + entryHeaderSize + (a - hist[i].off)
<1>1. hist[i] \in Entries
  OBVIOUS
<1>2. hist[i].at \in Nat /\ hist[i].off \in Addrs /\ hist[i].len \in Lens
  BY <1>1 DEF Entries
<1>3. RecOf(i) \in Records
  <2>1. hist[i].at + entryHeaderSize \in Nat
    BY <1>2 DEF entryHeaderSize
  <2> QED
    BY <1>2, <2>1 DEF RecOf, Records, Lens
<1> QED
  BY <1>3 DEF RecOf, Covers, LogOff

\* An index of these records leads to the entries.
LEMMA RecordsLead ==
    ASSUME hist \in Seq(Entries), NEW m \in 0..Len(hist), NEW recs \in Seq(Records),
           Len(recs) = m, \A i \in 1..m : recs[i] = RecOf(i)
    PROVE  /\ AddAll(recs) \in [Addrs -> Records \cup {NoRec}]
           /\ Points(AddAll(recs), m)
<1>1. m \in Nat /\ Len(hist) \in Nat
  OBVIOUS
<1>2. ASSUME NEW i \in 1..m
      PROVE  /\ RecOf(i) \in Records
             /\ \A a : Covers(RecOf(i), a) <=> Covers(hist[i], a)
             /\ \A a : LogOff(RecOf(i), a) = hist[i].at + entryHeaderSize + (a - hist[i].off)
  <2>1. i \in 1..Len(hist)
    BY <1>1
  <2> QED
    BY <2>1, RecOfIs
<1>3. recs \in Seq(Records)
  OBVIOUS
<1>4. Len(recs) = m /\ \A i \in 1..m : recs[i] = RecOf(i)
  OBVIOUS
<1>5. PICK new : new = AddAll(recs)
  OBVIOUS
<1>6. /\ new = [a \in Addrs |-> new[a]]
      /\ \A a \in Addrs :
           /\ (\A i \in 1..m : ~Covers(recs[i], a)) => new[a] = NoRec
           /\ \A i \in 1..m :
                 Covers(recs[i], a) /\ (\A j \in (i + 1)..m : ~Covers(recs[j], a)) => new[a] = recs[i]
  <2>1. /\ AddAll(recs) = [a \in Addrs |-> AddAll(recs)[a]]
        /\ \A a \in Addrs :
             /\ (\A i \in 1..Len(recs) : ~Covers(recs[i], a)) => AddAll(recs)[a] = NoRec
             /\ \A i \in 1..Len(recs) :
                   Covers(recs[i], a) /\ (\A j \in (i + 1)..Len(recs) : ~Covers(recs[j], a))
                     => AddAll(recs)[a] = recs[i]
    BY <1>3, AddAllIs
  <2> QED
    BY <1>4, <1>5, <2>1
<1>7. ASSUME NEW a \in Addrs, \A i \in 1..m : ~Covers(hist[i], a) PROVE new[a] = NoRec
  BY <1>2, <1>4, <1>6, <1>7
<1>8. ASSUME NEW a \in Addrs, NEW i \in 1..m, LastOf(i, m, a) PROVE new[a] = RecOf(i)
  <2>1. Covers(hist[i], a) /\ \A j \in (i + 1)..m : ~Covers(hist[j], a)
    BY <1>8 DEF LastOf
  <2>2. \A j \in (i + 1)..m : j \in 1..m
    BY <1>1
  <2> QED
    BY <1>2, <1>4, <1>6, <2>1, <2>2
<1>9. ASSUME NEW a \in Addrs PROVE new[a] \in Records \cup {NoRec}
  <2>1. CASE \A i \in 1..m : ~Covers(hist[i], a)
    BY <1>7, <2>1
  <2>2. CASE ~ \A i \in 1..m : ~Covers(hist[i], a)
    <3>1. PICK i \in 1..m : LastOf(i, m, a)
      BY <1>1, <2>2, LastExists
    <3> QED
      BY <1>2, <1>8, <3>1
  <2> QED
    BY <2>1, <2>2
<1>10. new \in [Addrs -> Records \cup {NoRec}]
  BY <1>6, <1>9
<1>11. ASSUME NEW a \in Addrs, NEW i \in 1..m, LastOf(i, m, a)
       PROVE  /\ new[a] # NoRec
              /\ LogOff(new[a], a) = hist[i].at + entryHeaderSize + (a - hist[i].off)
  BY <1>2, <1>8, <1>11, NoRecApart
<1>12. Points(new, m)
  BY <1>7, <1>11 DEF Points
<1> QED
  BY <1>5, <1>10, <1>12

LEMMA RecordsPoint ==
    ASSUME hist \in Seq(Entries), NEW m \in 0..Len(hist), NEW recs, recs = [i \in 1..m |-> RecOf(i)]
    PROVE  /\ AddAll(recs) \in [Addrs -> Records \cup {NoRec}]
           /\ Points(AddAll(recs), m)
<1>1. m \in Nat /\ \A i \in 1..m : i \in 1..Len(hist)
  OBVIOUS
<1>2. \A i \in 1..m : RecOf(i) \in Records
  BY <1>1, RecOfIs
<1>3. recs \in Seq(Records)
  BY <1>1, <1>2
<1>4. Len(recs) = m /\ \A i \in 1..m : recs[i] = RecOf(i)
  BY <1>1
<1> QED
  BY <1>3, <1>4, RecordsLead

-----------------------------------------------------------------------------
(* What NewReader makes of a damaged file *)

LEMMA MinOfTwo ==
    ASSUME NEW x \in Nat, NEW y \in Nat
    PROVE  /\ Min({x, y}) \in Nat /\ Min({x, y}) <= x /\ Min({x, y}) <= y
           /\ Min({x, y}) = x \/ Min({x, y}) = y
<1>1. {x, y} \in SUBSET Nat /\ {x, y} # {}
  OBVIOUS
<1>2. Min({x, y}) \in {x, y} /\ \A m \in {x, y} : Min({x, y}) <= m
  BY <1>1, MinOfSet
<1> QED
  BY <1>2

LEMMA IntactPrefixIs ==
    ASSUME hist \in Seq(Entries), file \in Seq(Cells)
    PROVE  /\ IntactPrefix \in 0..Len(hist)
           /\ readHeader(file) # "nil" => IntactPrefix = 0
           /\ readHeader(file) = "nil" =>
                 /\ \A i \in 1..IntactPrefix : IsIntact(hist[i])
                 /\ \A m \in 0..Len(hist) : (\A i \in 1..m : IsIntact(hist[i])) => m <= IntactPrefix
<1>1. Len(hist) \in Nat
  OBVIOUS
<1>2. CASE readHeader(file) # "nil"
  <2>1. Len(file) < 2 \/ SubSeq(file, 1, 2) # Header
    BY <1>2, ReadHeaderIs
  <2>2. IntactPrefix = 0
    BY <2>1 DEF IntactPrefix
  <2> QED
    BY <1>1, <1>2, <2>2
<1>3. CASE readHeader(file) = "nil"
  <2> DEFINE T == {m \in 0..Len(hist) : \A i \in 1..m : IsIntact(hist[i])}
  <2>1. ~(Len(file) < 2 \/ SubSeq(file, 1, 2) # Header)
    BY <1>3, ReadHeaderIs
  <2>2. IntactPrefix = Max(T)
    BY <2>1 DEF IntactPrefix
  <2>3. T \in SUBSET Nat /\ 0 \in T /\ \A m \in T : m <= Len(hist)
    BY <1>1
  <2>4. Max(T) \in T /\ \A m \in T : m <= Max(T)
    BY <1>1, <2>3, MaxOfBounded
  <2>5. IntactPrefix \in T /\ \A m \in T : m <= IntactPrefix
    BY <2>2, <2>4
  <2> QED
    BY <1>3, <2>5
<1> QED
  BY <1>2, <1>3

\* Without the footer it has the entries before the first that is not sound or
\* not intact.
LEMMA LoopReader ==
    ASSUME Types, NEW g, NEW z, NEW idx, NEW n, NEW torn, NEW lost, Wreck(g, z, idx, n, torn, lost),
           readHeader(file) = "nil", ~readIndex(file).ok, NEW s \in 0..Len(hist), SoundTo(s, z),
           NEW m, m = Min({s, IntactPrefix}), NEW r, r = NewReader(file)
    PROVE  /\ m \in 0..s /\ m \in 0..Len(hist) /\ \A i \in 1..m : IsIntact(hist[i])
           /\ r.footer = FALSE /\ r.index \in [Addrs -> Records \cup {NoRec}] /\ Points(r.index, m)
           /\ \E p \in Nat : p >= 1 /\ r.err = readEntry(file, p) /\ r.err # "more"
<1>1. hist \in Seq(Entries) /\ file \in Seq(Cells) /\ Len(hist) \in Nat /\ s \in Nat
  BY WreckCells DEF Types
<1>2. PICK k \in 0..s :
        /\ \A i \in 1..k : IsIntact(hist[i])
        /\ k # s => ~IsIntact(hist[k + 1])
        /\ readEntry(file, Pos(k) + 1) # "more" /\ Pos(k) \in Nat
        /\ LoadLoop(file, 3) = [err |-> readEntry(file, Pos(k) + 1),
                                at |-> [i \in 1..k |-> Pos(i - 1) + 1]]
  BY LoopRecovers
<1>3. k \in Nat /\ k \in 0..Len(hist)
  BY <1>1
<1>4. m = k
  <2>1. /\ IntactPrefix \in 0..Len(hist)
        /\ \A i \in 1..IntactPrefix : IsIntact(hist[i])
        /\ \A j \in 0..Len(hist) : (\A i \in 1..j : IsIntact(hist[i])) => j <= IntactPrefix
    BY <1>1, IntactPrefixIs
  <2>2. k <= IntactPrefix
    BY <1>2, <1>3, <2>1
  <2>3. k # s => IntactPrefix <= k
    <3> SUFFICES ASSUME k # s, ~(IntactPrefix <= k) PROVE FALSE
      OBVIOUS
    <3>1. k + 1 \in 1..IntactPrefix
      BY <1>1, <1>3, <2>1
    <3> QED
      BY <1>2, <2>1, <3>1
  <2>4. /\ m <= s /\ m <= IntactPrefix /\ m \in Nat
        /\ m = s \/ m = IntactPrefix
    <3>1. IntactPrefix \in Nat
      BY <2>1
    <3> QED
      BY <1>1, <3>1, MinOfTwo
  <2> QED
    BY <1>1, <1>3, <2>1, <2>2, <2>3, <2>4
<1> DEFINE rec(p) == [logOffset |-> p - 1 + entryHeaderSize, off |-> file[p + 1].off,
                      len |-> file[p].len]
           at == [i \in 1..k |-> Pos(i - 1) + 1]
           recs == [i \in DOMAIN at |-> rec(at[i])]
<1>5. r = [err |-> readEntry(file, Pos(k) + 1), footer |-> FALSE, index |-> AddAll(recs)]
  <2>1. Len(Header) + 1 = 3
    BY DEF Header
  <2>2. LET loop == LoadLoop(file, 3)
        IN  r = [err |-> loop.err, footer |-> FALSE,
                 index |-> AddAll([i \in DOMAIN loop.at |-> rec(loop.at[i])])]
    BY <2>1 DEF NewReader
  <2>3. LoadLoop(file, 3).err = readEntry(file, Pos(k) + 1) /\ LoadLoop(file, 3).at = at
    BY <1>2
  <2> HIDE DEF at, rec
  <2> QED
    BY <2>2, <2>3
<1>6. ASSUME NEW i \in 1..k PROVE rec(Pos(i - 1) + 1) = RecOf(i)
  <2>1. i \in 1..s /\ hist[i] \in Entries
    BY <1>1, <1>3
  <2>2. /\ Pos(i - 1) = hist[i].at
        /\ IsIntact(hist[i]) <=> Pos(i) <= Len(file) /\ Placed(file, hist[i])
    BY <2>1, LoopEntry
  <2>3. Placed(file, hist[i])
    BY <1>2, <2>2
  <2>4. PICK t \in Nat : t = hist[i].at
    BY <2>1, EntryNumbers
  <2>5. file[t + 1] = Base(hist[i]) /\ file[t + 2] = [k |-> "offset", off |-> hist[i].off]
    BY <2>3, <2>4 DEF Placed
  <2>6. file[t + 1].len = hist[i].len /\ file[t + 2].off = hist[i].off
    BY <2>5, BaseIs
  <2>7. (t + 1) + 1 = t + 2 /\ (t + 1) - 1 + entryHeaderSize = t + entryHeaderSize
    BY DEF entryHeaderSize
  <2>8. rec(t + 1) = [logOffset |-> t + entryHeaderSize, off |-> hist[i].off, len |-> hist[i].len]
    BY <2>6, <2>7
  <2> HIDE DEF rec
  <2> QED
    BY <2>2, <2>4, <2>8 DEF RecOf
<1>7. recs = [i \in 1..k |-> RecOf(i)]
  <2> HIDE DEF rec
  <2>1. DOMAIN at = 1..k /\ \A i \in 1..k : at[i] = Pos(i - 1) + 1
    OBVIOUS
  <2> HIDE DEF at
  <2> QED
    BY <1>6, <2>1
<1> HIDE DEF recs
<1>8. AddAll(recs) \in [Addrs -> Records \cup {NoRec}] /\ Points(AddAll(recs), k)
  BY <1>1, <1>3, <1>7, RecordsPoint
<1>9. Pos(k) + 1 \in Nat /\ Pos(k) + 1 >= 1
  BY <1>2
<1>10. r.footer = FALSE /\ r.index = AddAll(recs) /\ r.err = readEntry(file, Pos(k) + 1)
  BY <1>5
<1>11. \E p \in Nat : p >= 1 /\ r.err = readEntry(file, p) /\ r.err # "more"
  BY <1>2, <1>9, <1>10
<1> QED
  BY <1>2, <1>3, <1>4, <1>8, <1>10, <1>11

\* With the footer it has all entries, as the writer's index had them.
LEMMA FooterReader ==
    ASSUME Types, NEW g, NEW z, NEW idx, NEW n, NEW torn, NEW lost, Wreck(g, z, idx, n, torn, lost),
           readHeader(file) = "nil", readIndex(file).ok, NEW r, r = NewReader(file)
    PROVE  /\ Len(file) = Len(g) /\ z < Len(g) /\ file[Len(file)].k = "end"
           /\ r.err = "nil" /\ r.footer = TRUE
           /\ r.index \in [Addrs -> Records \cup {NoRec}] /\ Points(r.index, Len(hist))
<1>1. /\ file \in Seq(Cells) /\ Len(file) \in Nat /\ Len(file) <= Len(g) /\ Len(g) \in Nat
      /\ z \in Nat /\ z <= Len(g)
      /\ z < Len(g) => IndexOK(idx)
      /\ \A i \in 1..Len(file) :
            \/ file[i] = g[i] /\ file[i].k \notin {"torn", "lost"}
            \/ file[i] = [k |-> "lost"] /\ i # 2
            \/ file[i].k = "torn" /\ i = Len(file)
  BY WreckCells
<1>2. Len(file) >= 2
  BY GoodHeader
<1>3. Layout(g, z) /\ Footed(g, z, idx) /\ (z < Len(g) => Matches(idx, Len(hist)))
  BY DEF Wreck
<1>4. PICK x : x = Len(file)
  OBVIOUS
<1>5. x \in 1..Len(file) /\ x \in Nat
  BY <1>1, <1>2, <1>4
<1>6. file[x].k = "end" /\ SubSeq(file, x - file[x].size, x - 1) = file[x].crc
  BY <1>4 DEF readIndex
<1>7. file[x] = g[x]
  BY <1>1, <1>5, <1>6
<1>8. z < Len(g) /\ x \in (z + 1)..Len(g)
  <2> SUFFICES ASSUME x <= z PROVE FALSE
    BY <1>1, <1>5
  <2>1. g[x].k \in BodyKinds
    BY <1>1, <1>3, <1>5 DEF Layout
  <2> QED
    BY <1>6, <1>7, <2>1 DEF BodyKinds
<1>9. IndexOK(idx)
  BY <1>1, <1>8
<1>10. x = Len(g) /\ g[x] = [k |-> "end", size |-> Len(IndexEntries(idx)), crc |-> IndexEntries(idx)]
  BY <1>1, <1>3, <1>6, <1>7, <1>8, <1>9, FooterCells
<1>11. SubSeq(file, x - file[x].size, x - 1) = IndexEntries(idx)
  BY <1>6, <1>7, <1>10
<1>12. readIndex(file).index = AddAll(IndexRecords(IndexEntries(idx)))
  <2>1. PICK es : es = SubSeq(file, x - file[x].size, x - 1)
    OBVIOUS
  <2>2. readIndex(file) =
          [ok |-> TRUE,
           index |-> AddAll([i \in DOMAIN es |-> [logOffset |-> es[i].logOffset,
                                                  off |-> es[i].off, len |-> es[i].len]])]
    BY <1>4, <2>1 DEF readIndex
  <2>3. IndexRecords(es) = [i \in DOMAIN es |-> [logOffset |-> es[i].logOffset,
                                                 off |-> es[i].off, len |-> es[i].len]]
    BY DEF IndexRecords, IndexRecord
  <2>4. readIndex(file).index = AddAll(IndexRecords(es))
    BY <2>2, <2>3
  <2> QED
    BY <1>11, <2>1, <2>4
<1>13. r = [err |-> "nil", index |-> readIndex(file).index, footer |-> TRUE]
  BY DEF NewReader
<1>14. PICK new : new = AddAll(IndexRecords(IndexEntries(idx)))
  OBVIOUS
<1>15. /\ new \in [Addrs -> Records \cup {NoRec}]
       /\ \A a \in Addrs :
             /\ new[a] = NoRec <=> idx[a] = NoRec
             /\ idx[a] # NoRec => LogOff(new[a], a) = LogOff(idx[a], a)
  BY <1>9, <1>14, FooterIndex
<1>16. Points(idx, Len(hist))
  <2>1. hist \in Seq(Entries) /\ Len(hist) \in 0..Len(hist)
    BY DEF Types
  <2> QED
    BY <1>3, <1>8, <2>1, MatchesPoints
<1>17. Points(new, Len(hist))
  BY <1>15, <1>16 DEF Points
<1>18. r.err = "nil" /\ r.footer = TRUE /\ r.index = new
  BY <1>12, <1>13, <1>14
<1> QED
  BY <1>4, <1>6, <1>8, <1>10, <1>15, <1>17, <1>18

-----------------------------------------------------------------------------
(* The opened log *)

LEMMA IntactCell ==
    ASSUME hist \in Seq(Entries), file \in Seq(Cells), NEW i \in 1..Len(hist), NEW a \in Addrs,
           Covers(hist[i], a), IsIntact(hist[i])
    PROVE  CellOf(i, a) \in DOMAIN file /\ file[CellOf(i, a)] = DataCell(hist[i].id, a)
<1>1. hist[i] \in Entries
  OBVIOUS
<1>2. End(hist[i]) <= Len(file) /\ Placed(file, hist[i])
  BY <1>1, IntactIs
<1>3. End(hist[i]) \in Nat /\ Len(file) \in Nat
  BY <1>1, EntryNumbers
<1>4. /\ CellOf(i, a) \in Nat /\ CellOf(i, a) >= 1 /\ CellOf(i, a) <= End(hist[i])
      /\ file[CellOf(i, a)] = DataCell(hist[i].id, a)
  BY <1>2, CellPlaced
<1> QED
  BY <1>2, <1>3, <1>4

LEMMA SoundCount ==
    ASSUME hist \in Seq(Entries), NEW z, NEW s \in 0..Len(hist), SoundTo(s, z)
    PROVE  (IF broken = 0 THEN Len(hist) ELSE Cardinality({i \in DOMAIN hist : hist[i].at < broken})) = s
<1>1. CASE broken = 0
  BY <1>1, AllSound
<1>2. CASE broken # 0
  <2> DEFINE T == {i \in DOMAIN hist : hist[i].at < broken}
  <2>1. T = 1..s
    BY <1>2 DEF SoundTo, Sound
  <2>2. Cardinality(1..s) = s
    <3>1. s \in Int /\ 1 \in Int /\ s - 1 + 1 = s /\ (1 > s => s = 0)
      OBVIOUS
    <3>2. Cardinality(1..s) = IF 1 > s THEN 0 ELSE s - 1 + 1
      BY <3>1, FS_Interval
    <3> QED
      BY <3>1, <3>2
  <2> HIDE DEF T
  <2>3. Cardinality(T) = s
    BY <2>1, <2>2
  <2> QED
    BY <1>2, <2>3 DEF T
<1> QED
  BY <1>1, <1>2

\* An index without records reads as zeros, as if nothing had been written.
LEMMA EmptyReads ==
    ASSUME NEW a \in Addrs
    PROVE  ReadAt(EmptyIndex, a) = Expected(a, 0)
<1>1. EmptyIndex[a] = NoRec
  BY DEF EmptyIndex
<1>2. Expected(a, 0) = Zero
  BY ExpectedIs
<1> QED
  BY <1>1, <1>2 DEF ReadAt

\* The three ways a log opens: without a header, from the footer, by the loop.
LEMMA OpenedAs ==
    ASSUME Types, NEW g, NEW z, NEW idx, NEW n, NEW torn, NEW lost, Wreck(g, z, idx, n, torn, lost),
           reader = NewWriteLogFromReader(file), NEW s \in 0..Len(hist), SoundTo(s, z)
    PROVE  /\ reader.state \in {"open", "refused"}
           /\ reader.index \in [Addrs -> Records \cup {NoRec}]
           /\ \/ /\ readHeader(file) # "nil"
                 /\ reader.index = EmptyIndex /\ reader.footer = FALSE /\ IntactPrefix = 0
                 /\ reader.state = "refused" => readHeader(file) = "invalid"
              \/ /\ reader.footer = TRUE /\ Points(reader.index, Len(hist)) /\ reader.state = "open"
                 /\ readHeader(file) = "nil"
                 /\ Len(file) = Len(g) /\ z < Len(g) /\ file[Len(file)].k = "end"
              \/ /\ reader.footer = FALSE /\ Points(reader.index, Min({s, IntactPrefix}))
                 /\ readHeader(file) = "nil"
                 /\ reader.state = "refused" =>
                       \E p \in Nat : p >= 1 /\ readEntry(file, p) = "EOF"
<1>1. PICK r : r = NewReader(file)
  OBVIOUS
<1>2. /\ reader.state = IF r.err \in {"nil", "unexpected", "corrupted"} THEN "open" ELSE "refused"
      /\ reader.index = r.index /\ reader.footer = r.footer
  BY <1>1 DEF NewWriteLogFromReader
<1>3. file \in Seq(Cells) /\ hist \in Seq(Entries)
  BY WreckCells DEF Types
<1>4. reader.state \in {"open", "refused"}
  BY <1>2
<1>5. CASE readHeader(file) # "nil"
  <2>1. r.err = readHeader(file) /\ r.index = EmptyIndex /\ r.footer = FALSE
    BY <1>1, <1>5 DEF NewReader
  <2>2. readHeader(file) \in {"invalid", "unexpected"} /\ IntactPrefix = 0
    BY <1>3, <1>5, ReadHeaderIs, IntactPrefixIs
  <2>3. EmptyIndex \in [Addrs -> Records \cup {NoRec}]
    BY DEF EmptyIndex
  <2> QED
    BY <1>2, <1>4, <1>5, <2>1, <2>2, <2>3
<1>6. CASE readHeader(file) = "nil" /\ readIndex(file).ok
  <2>1. /\ Len(file) = Len(g) /\ z < Len(g) /\ file[Len(file)].k = "end"
        /\ r.err = "nil" /\ r.footer = TRUE
        /\ r.index \in [Addrs -> Records \cup {NoRec}] /\ Points(r.index, Len(hist))
    BY <1>1, <1>6, FooterReader
  <2> QED
    BY <1>2, <1>4, <1>6, <2>1
<1>7. CASE readHeader(file) = "nil" /\ ~readIndex(file).ok
  <2>1. PICK m : m = Min({s, IntactPrefix})
    OBVIOUS
  <2>2. /\ r.footer = FALSE /\ r.index \in [Addrs -> Records \cup {NoRec}] /\ Points(r.index, m)
        /\ \E p \in Nat : p >= 1 /\ r.err = readEntry(file, p) /\ r.err # "more"
    BY <1>1, <1>7, <2>1, LoopReader
  <2>3. PICK p \in Nat : p >= 1 /\ r.err = readEntry(file, p) /\ r.err # "more"
    BY <2>2
  <2>4. readEntry(file, p) \in {"nil", "unexpected", "EOF", "corrupted", "more"}
    BY DEF readEntry
  <2>5. reader.state = "refused" => readEntry(file, p) = "EOF"
    BY <1>2, <2>3, <2>4
  <2> QED
    BY <1>2, <1>4, <1>7, <2>1, <2>2, <2>3, <2>5
<1> QED
  BY <1>5, <1>6, <1>7

\* What was written before the first damaged entry, and not since, reads back.
LEMMA IntactReads ==
    ASSUME hist \in Seq(Entries), file \in Seq(Cells), NEW m \in 0..Len(hist), NEW a \in Addrs,
           \A i \in 1..m : Sound(i) /\ IsIntact(hist[i]), NEW idx,
           \/ Points(idx, Len(hist)) /\ \A i \in (m + 1)..Len(hist) : ~Covers(hist[i], a)
           \/ Points(idx, m)
    PROVE  ReadAt(idx, a) = Expected(a, m)
<1>1. Len(hist) \in Nat /\ m \in Nat
  OBVIOUS
<1>2. ASSUME NEW i \in 1..m, LastOf(i, m, a)
      PROVE  /\ Sound(i) /\ CellOf(i, a) \in DOMAIN file
             /\ file[CellOf(i, a)] \in {DataCell(hist[i].id, a), [k |-> "lost"]}
  <2>1. i \in 1..Len(hist)
    BY <1>1
  <2>2. Sound(i) /\ Covers(hist[i], a) /\ IsIntact(hist[i])
    BY <1>2 DEF LastOf
  <2> QED
    BY <2>1, <2>2, IntactCell
<1>3. CASE Points(idx, Len(hist)) /\ \A i \in (m + 1)..Len(hist) : ~Covers(hist[i], a)
  <2>1. Len(hist) \in 0..Len(hist)
    BY <1>1
  <2> QED
    BY <1>2, <1>3, <2>1, ReadIs
<1>4. CASE Points(idx, m)
  <2>1. m \in 0..m /\ \A i \in (m + 1)..m : FALSE
    BY <1>1
  <2> QED
    BY <1>2, <1>4, <2>1, ReadIs
<1> QED
  BY <1>3, <1>4

LEMMA OpenedReads ==
    ASSUME Types, NEW g, NEW z, NEW idx, NEW n, NEW torn, NEW lost, Wreck(g, z, idx, n, torn, lost),
           reader = NewWriteLogFromReader(file), NEW s \in 0..Len(hist), SoundTo(s, z),
           NEW m, m = Min({s, IntactPrefix}), NEW a \in Addrs,
           reader.footer => \A i \in (m + 1)..Len(hist) : ~Covers(hist[i], a)
    PROVE  ReadAt(reader.index, a) = Expected(a, m)
<1>1. file \in Seq(Cells) /\ hist \in Seq(Entries) /\ Len(hist) \in Nat /\ s \in Nat
  BY WreckCells DEF Types
<1>2. /\ IntactPrefix \in 0..Len(hist) /\ IntactPrefix \in Nat
      /\ readHeader(file) = "nil" => \A i \in 1..IntactPrefix : IsIntact(hist[i])
  BY <1>1, IntactPrefixIs
<1>3. m \in Nat /\ m <= s /\ m <= IntactPrefix
  BY <1>1, <1>2, MinOfTwo
<1>4. m \in 0..Len(hist)
  BY <1>1, <1>3
<1>5. CASE readHeader(file) # "nil"
  <2>1. reader.index = EmptyIndex /\ IntactPrefix = 0
    BY <1>5, OpenedAs
  <2>2. m = 0
    BY <1>3, <2>1
  <2> QED
    BY <2>1, <2>2, EmptyReads
<1>6. CASE readHeader(file) = "nil"
  <2>1. ASSUME NEW i \in 1..m PROVE Sound(i) /\ IsIntact(hist[i])
    <3>1. i \in 1..IntactPrefix /\ i <= s /\ i \in DOMAIN hist
      BY <1>1, <1>2, <1>3
    <3> QED
      BY <1>2, <1>6, <3>1 DEF SoundTo
  <2>2. \/ reader.footer = TRUE /\ Points(reader.index, Len(hist))
        \/ Points(reader.index, m)
    BY <1>6, OpenedAs
  <2> QED
    BY <1>1, <1>4, <2>1, <2>2, IntactReads
<1> QED
  BY <1>5, <1>6

\* While no write had failed, that is everything up to the first damaged entry,
\* or everything if the footer survived.
LEMMA OpenedPrefix ==
    ASSUME Types, NEW g, NEW z, NEW idx, NEW n, NEW torn, NEW lost, Wreck(g, z, idx, n, torn, lost),
           reader = NewWriteLogFromReader(file), broken = 0, NEW a \in Addrs
    PROVE  ReadAt(reader.index, a) = Expected(a, IF reader.footer THEN Len(hist) ELSE IntactPrefix)
<1>1. PICK s \in 0..Len(hist) : SoundTo(s, z)
  BY DEF Wreck, Layout
<1>2. hist \in Seq(Entries) /\ Len(hist) \in Nat /\ Len(hist) \in 0..Len(hist)
  BY DEF Types
<1>3. s = Len(hist)
  BY <1>1, <1>2, AllSound
<1>4. /\ file \in Seq(Cells) /\ Len(file) \in Nat /\ z \in Nat
      /\ \A i \in 1..Len(file) :
            \/ file[i] = g[i] /\ file[i].k \notin {"torn", "lost"}
            \/ file[i] = [k |-> "lost"] /\ i # 2
            \/ file[i].k = "torn" /\ i = Len(file)
  BY WreckCells
<1>5. CASE reader.footer = FALSE
  <2>1. IntactPrefix \in 0..Len(hist)
    BY <1>2, <1>4, IntactPrefixIs
  <2>2. PICK m : m = Min({s, IntactPrefix})
    OBVIOUS
  <2>3. m = IntactPrefix
    <3>1. IntactPrefix \in Nat /\ IntactPrefix <= s /\ s \in Nat
      BY <1>2, <1>3, <2>1
    <3>2. m \in Nat /\ m <= IntactPrefix /\ (m = s \/ m = IntactPrefix)
      BY <2>2, <3>1, MinOfTwo
    <3> QED
      BY <3>1, <3>2
  <2>4. ReadAt(reader.index, a) = Expected(a, m)
    BY <1>1, <1>5, <2>2, OpenedReads
  <2> QED
    BY <1>5, <2>3, <2>4
<1>6. CASE reader.footer # FALSE
  <2>1. /\ reader.footer = TRUE /\ Points(reader.index, Len(hist))
        /\ Len(file) = Len(g) /\ z < Len(g)
    BY <1>1, <1>6, OpenedAs
  <2>2. ASSUME NEW i \in 1..Len(hist), LastOf(i, Len(hist), a)
        PROVE  /\ Sound(i) /\ CellOf(i, a) \in DOMAIN file
               /\ file[CellOf(i, a)] \in {DataCell(hist[i].id, a), [k |-> "lost"]}
    <3>1. Sound(i) /\ Covers(hist[i], a)
      BY <2>2 DEF Sound, LastOf
    <3>2. End(hist[i]) <= z /\ Placed(g, hist[i]) /\ hist[i] \in Entries
      BY <1>2 DEF Wreck, Layout
    <3>3. End(hist[i]) \in Nat
      BY <3>2, EntryNumbers
    <3>4. /\ CellOf(i, a) \in Nat /\ CellOf(i, a) >= 1 /\ CellOf(i, a) <= End(hist[i])
          /\ g[CellOf(i, a)] = DataCell(hist[i].id, a)
      BY <1>2, <3>1, <3>2, CellPlaced
    <3>5. CellOf(i, a) \in 1..Len(file) /\ CellOf(i, a) # Len(file)
      BY <1>4, <2>1, <3>2, <3>3, <3>4
    <3>6. file[CellOf(i, a)] = g[CellOf(i, a)] \/ file[CellOf(i, a)] = [k |-> "lost"]
      BY <1>4, <3>5
    <3> QED
      BY <1>4, <3>1, <3>4, <3>5, <3>6
  <2>3. \A i \in (Len(hist) + 1)..Len(hist) : FALSE
    BY <1>2
  <2>4. ReadAt(reader.index, a) = Expected(a, Len(hist))
    BY <1>2, <2>1, <2>2, <2>3, ReadIs
  <2> QED
    BY <2>1, <2>4
<1> QED
  BY <1>5, <1>6

\* A log is refused, though no page was lost, if its header could not be
\* written or if it ends behind the base of an entry.
LEMMA RefusedLog ==
    ASSUME Types, NEW g, NEW z, NEW idx, NEW n, NEW torn, NEW lost, Wreck(g, z, idx, n, torn, lost),
           reader = NewWriteLogFromReader(file), reader.state = "refused",
           \A i \in DOMAIN file : file[i].k # "lost", header # "failed"
    PROVE  \E e \in {Len(file), Len(file) - 1} \cap DOMAIN file :
              /\ file[e].k = "base" /\ file[e].type = "data"
              /\ \A i \in (e + 1)..Len(file) : file[i].k = "torn"
<1>1. PICK s \in 0..Len(hist) : SoundTo(s, z)
  BY DEF Wreck, Layout
<1>2. /\ file \in Seq(Cells) /\ Len(file) \in Nat
      /\ \A i \in 1..Len(file) :
            \/ file[i].k \notin {"torn", "lost"}
            \/ file[i] = [k |-> "lost"] /\ i # 2
            \/ file[i].k = "torn" /\ i = Len(file)
  BY WreckCells
<1>3. readHeader(file) # "invalid"
  BY BadHeader
<1>4. PICK p \in Nat : p >= 1 /\ readEntry(file, p) = "EOF"
  BY <1>1, <1>3, OpenedAs
<1>5. p \in 1..Len(file) /\ file[p].k = "base" /\ file[p].type # "footer" /\ ~Whole(file, p + 1)
  <2>1. p <= Len(file)
    BY <1>4 DEF readEntry
  <2>2. p \in 1..Len(file) /\ p \in DOMAIN file
    BY <1>2, <1>4, <2>1
  <2>3. file[p].k # "lost"
    BY <2>2
  <2> QED
    BY <1>4, <2>2, <2>3 DEF readEntry
<1>6. file[p].type = "data"
  <2>1. file[p] \in Cells
    BY <1>2, <1>5
  <2>2. file[p] \in BaseCells
    BY <1>5, <2>1, NoOtherKind
  <2> QED
    BY <1>5, <2>2 DEF BaseCells
<1>7. CASE Len(file) < p + 1
  <2>1. p = Len(file) /\ \A i \in (p + 1)..Len(file) : FALSE
    BY <1>2, <1>5, <1>7
  <2> QED
    BY <1>2, <1>5, <1>6, <2>1
<1>8. CASE ~(Len(file) < p + 1)
  <2>1. p + 1 \in 1..Len(file) /\ file[p + 1].k = "torn"
    BY <1>2, <1>5, <1>8 DEF Whole
  <2>2. p + 1 = Len(file)
    BY <1>2, <2>1
  <2>3. p = Len(file) - 1 /\ \A i \in (p + 1)..Len(file) : i = p + 1
    BY <1>2, <1>5, <2>2
  <2> QED
    BY <1>2, <1>5, <1>6, <2>1, <2>3
<1> QED
  BY <1>7, <1>8

-----------------------------------------------------------------------------
(* The properties *)

LEMMA DamagedFile ==
    ASSUME WalInv, ~Running
    PROVE  /\ Types
           /\ \E g, z, idx, n, torn, lost : Wreck(g, z, idx, n, torn, lost)
           /\ rd = NoRead /\ index = EmptyIndex
           /\ \/ reader = [NotOpened EXCEPT !.state = "down"]
              \/ reader = NewWriteLogFromReader(file)
  BY DEF WalInv, Damaged

LEMMA InvTypeOK == WalInv => WalTypeOK
<1> SUFFICES ASSUME WalInv PROVE WalTypeOK
  OBVIOUS
<1>1. Types
  BY DEF WalInv
<1>2. EmptyIndex \in [Addrs -> Records \cup {NoRec}]
  BY DEF EmptyIndex
<1>3. /\ file \in Seq(Cells)
      /\ index \in [Addrs -> Records \cup {NoRec}]
      /\ reader.index \in [Addrs -> Records \cup {NoRec}]
      /\ reader.state \in {"none", "down", "open", "refused"}
  <2>1. CASE Running
    <3>1. RunInv
      BY <2>1 DEF WalInv
    <3>2. file \in Seq(Cells)
      BY <3>1 DEF RunInv, RunningFile, Layout
    <3>3. index \in [Addrs -> Records \cup {NoRec}]
      BY <3>1 DEF RunInv, Matches
    <3>4. reader.index = EmptyIndex /\ reader.state = "none"
      BY <3>1 DEF RunInv, NotOpened
    <3> QED
      BY <1>2, <3>2, <3>3, <3>4
  <2>2. CASE ~Running
    <3>1. PICK g, z, idx, n, torn, lost : Wreck(g, z, idx, n, torn, lost)
      BY <2>2, DamagedFile
    <3>2. file \in Seq(Cells)
      BY <1>1, <3>1, WreckCells
    <3>3. index \in [Addrs -> Records \cup {NoRec}]
      BY <1>2, <2>2, DamagedFile
    <3>4. CASE reader = [NotOpened EXCEPT !.state = "down"]
      <4>1. reader.index = EmptyIndex /\ reader.state = "down"
        BY <3>4 DEF NotOpened
      <4> QED
        BY <1>2, <3>2, <3>3, <4>1
    <3>5. CASE reader = NewWriteLogFromReader(file)
      <4>1. PICK s \in 0..Len(hist) : SoundTo(s, z)
        BY <3>1 DEF Wreck, Layout
      <4>2. reader.state \in {"open", "refused"} /\ reader.index \in [Addrs -> Records \cup {NoRec}]
        BY <1>1, <3>1, <3>5, <4>1, OpenedAs
      <4> QED
        BY <3>2, <3>3, <4>2
    <3> QED
      BY <2>2, <3>4, <3>5, DamagedFile
  <2> QED
    BY <2>1, <2>2
<1>4. \A i \in DOMAIN file : file[i].k \in CellKinds
  <2>1. ASSUME NEW i \in DOMAIN file PROVE file[i] \in Cells
    BY <1>3
  <2> QED
    BY <2>1, NoOtherKind
<1>5. \A a \in Addrs : /\ index[a] \in Records \cup {NoRec}
                       /\ reader.index[a] \in Records \cup {NoRec}
  BY <1>3
<1>6. \A t \in Writers : wr[t].pc \in {"idle", "start", "logged", "indexing"}
  BY <1>1 DEF Types, WrType
<1>7. rd.pc \in {"idle", "lookup", "io", "done"}
  BY <1>1 DEF Types, RdType, ReadCalls
<1> QED
  BY <1>1, <1>3, <1>4, <1>5, <1>6, <1>7 DEF Types, WalTypeOK

LEMMA InvReadsCurrent == WalInv => ReadsCurrent
<1> SUFFICES ASSUME WalInv, rd.pc = "done", broken = 0, NEW i \in DOMAIN rd.buf
             PROVE  rd.buf[i] \in rd.seen[rd.first + i - 1]
  BY DEF ReadsCurrent
<1>1. Running
  <2> SUFFICES ASSUME ~Running PROVE FALSE
    OBVIOUS
  <2>1. rd = NoRead
    BY DamagedFile
  <2> QED
    BY <2>1 DEF NoRead
<1>2. Reading
  BY <1>1 DEF WalInv, RunInv
<1>3. i \in 1..Len(rd.buf)
  <2>1. rd.buf \in Seq(Bytes)
    BY DEF WalInv, Types, RdType, ReadCalls
  <2> QED
    BY <2>1
<1> QED
  BY <1>2, <1>3 DEF Reading

LEMMA InvRecoversPrefix == WalInv => RecoversPrefix
<1> SUFFICES ASSUME WalInv, reader.state = "open", broken = 0, NEW a \in Addrs
             PROVE  ReadAt(reader.index, a)
                      = Expected(a, IF reader.footer THEN Len(hist) ELSE IntactPrefix)
  BY DEF RecoversPrefix
<1>1. ~Running /\ reader # [NotOpened EXCEPT !.state = "down"]
  BY DEF Running, NotOpened
<1>2. PICK g, z, idx, n, torn, lost : Wreck(g, z, idx, n, torn, lost)
  BY <1>1, DamagedFile
<1>3. Types /\ reader = NewWriteLogFromReader(file)
  BY <1>1, DamagedFile
<1> QED
  BY <1>2, <1>3, OpenedPrefix

LEMMA InvCutLogOpens == WalInv => CutLogOpens
<1> SUFFICES ASSUME WalInv, reader.state = "refused", \A i \in DOMAIN file : file[i].k # "lost",
                    header # "failed"
             PROVE  \E e \in {Len(file), Len(file) - 1} \cap DOMAIN file :
                       /\ file[e].k = "base" /\ file[e].type = "data"
                       /\ \A i \in (e + 1)..Len(file) : file[i].k = "torn"
  BY DEF CutLogOpens
<1>1. ~Running /\ reader # [NotOpened EXCEPT !.state = "down"]
  BY DEF Running, NotOpened
<1>2. PICK g, z, idx, n, torn, lost : Wreck(g, z, idx, n, torn, lost)
  BY <1>1, DamagedFile
<1>3. Types /\ reader = NewWriteLogFromReader(file)
  BY <1>1, DamagedFile
<1> QED
  BY <1>2, <1>3, RefusedLog

\* The two halves of WritesReadBack, with the number of sound entries named.
LEMMA RunningBack ==
    ASSUME WalInv, Running, NEW z, Layout(file, z), NEW s \in 0..Len(hist), SoundTo(s, z),
           NEW a \in Addrs, \A i \in (s + 1)..Indexed : ~Covers(hist[i], a)
    PROVE  ReadAt(index, a) = Expected(a, Min({s, Indexed}))
<1>1. Types /\ RunInv
  BY DEF WalInv
<1>2. hist \in Seq(Entries) /\ Len(hist) \in Nat /\ s \in Nat
  BY <1>1 DEF Types
<1>3. Indexed = Done
  BY <1>1, IndexedIsDone
<1>4. Done \in 0..Len(hist)
  BY <1>1, DoneIn DEF RunInv
<1>5. PICK d \in 0..Len(hist) : d = Done
  BY <1>4
<1>6. PICK m : m = Min({s, d})
  OBVIOUS
<1>7. d \in Nat /\ m \in Nat /\ m <= s /\ m <= d /\ (m = s \/ m = d) /\ m \in 0..d
  <2>1. d \in Nat
    BY <1>2
  <2>2. m \in Nat /\ m <= s /\ m <= d /\ (m = s \/ m = d)
    BY <1>2, <1>6, <2>1, MinOfTwo
  <2> QED
    BY <2>1, <2>2
<1>8. \A i \in (m + 1)..d : ~Covers(hist[i], a)
  <2>1. CASE m = s
    BY <1>3, <1>5, <2>1
  <2>2. CASE m = d
    <3>1. \A i \in (m + 1)..d : FALSE
      BY <1>7, <2>2
    <3> QED
      BY <3>1
  <2> QED
    BY <1>7, <2>1, <2>2
<1>9. \A i \in 1..m : Sound(i)
  <2>1. \A i \in 1..m : i \in DOMAIN hist /\ i <= s
    BY <1>2, <1>7
  <2> QED
    BY <2>1 DEF SoundTo
<1>10. Matches(index, d)
  BY <1>1, <1>5 DEF RunInv
<1>11. z \in 0..Len(file)
  BY DEF Layout
<1>12. ReadAt(index, a) = Expected(a, m)
  BY <1>2, <1>7, <1>8, <1>9, <1>10, <1>11, RunningRead
<1> QED
  BY <1>3, <1>5, <1>6, <1>12

LEMMA InvWritesReadBack == WalInv => WritesReadBack
<1> SUFFICES ASSUME WalInv PROVE WritesReadBack
  OBVIOUS
<1> DEFINE sound == IF broken = 0 THEN Len(hist)
                    ELSE Cardinality({i \in DOMAIN hist : hist[i].at < broken})
<1>1. Types /\ hist \in Seq(Entries)
  BY DEF WalInv, Types
<1>2. ASSUME Running, NEW a \in Addrs, \A i \in (sound + 1)..Indexed : ~Covers(hist[i], a)
      PROVE  ReadAt(index, a) = Expected(a, Min({sound, Indexed}))
  <2>1. PICK z : Layout(file, z)
    BY <1>2 DEF WalInv, RunInv, RunningFile
  <2>2. PICK s \in 0..Len(hist) : SoundTo(s, z)
    BY <2>1 DEF Layout
  <2>3. sound = s
    BY <1>1, <2>2, SoundCount
  <2> HIDE DEF sound
  <2> QED
    BY <1>2, <2>1, <2>2, <2>3, RunningBack
<1>3. ASSUME reader.state = "open", NEW a \in Addrs, NEW m, m = Min({sound, IntactPrefix}),
             \A i \in (m + 1)..Len(hist) : ~Covers(hist[i], a)
      PROVE  ReadAt(reader.index, a) = Expected(a, m)
  <2>1. ~Running /\ reader # [NotOpened EXCEPT !.state = "down"]
    BY <1>3 DEF Running, NotOpened
  <2>2. PICK g, z, idx, n, torn, lost : Wreck(g, z, idx, n, torn, lost)
    BY <2>1, DamagedFile
  <2>3. reader = NewWriteLogFromReader(file)
    BY <2>1, DamagedFile
  <2>4. PICK s \in 0..Len(hist) : SoundTo(s, z)
    BY <2>2 DEF Wreck, Layout
  <2>5. sound = s
    BY <1>1, <2>4, SoundCount
  <2> HIDE DEF sound
  <2>6. m = Min({s, IntactPrefix})
    BY <1>3, <2>5
  <2> QED
    BY <1>1, <1>3, <2>2, <2>3, <2>4, <2>6, OpenedReads
<1> HIDE DEF sound
<1> QED
  BY <1>2, <1>3 DEF WritesReadBack, sound

-----------------------------------------------------------------------------
(* The theorems *)

\* Every variable keeps to its type, and writeLock and indexLock are each held
\* by exactly the WriteAt call that is between taking and releasing it
\* (wal/writer.go:216).
THEOREM WalTypes == Spec => []WalTypeOK
  BY WalInvariant, InvTypeOK, PTL

\* ReadAtFrom, which drops indexLock while it reads the file, returns for each
\* address a value it had at some time during the read, whatever writes
\* overlap it (as long as no write has failed half-way).
THEOREM ReadsAreCurrent == Spec => []ReadsCurrent
  BY WalInvariant, InvReadsCurrent, PTL

\* Through the index every address reads as the last write in the order of the
\* log; a write that fails half-way does no harm to what was written before it,
\* neither in the running log nor in a recovered one.
THEOREM LogReadsBack == Spec => []WritesReadBack
  BY WalInvariant, InvWritesReadBack, PTL

\* A log that opens after a crash, wherever its file was cut and whichever page
\* was lost, holds exactly the writes before the first damaged entry; or all of
\* them, as the writer's index had them, if the footer survived.
THEOREM PrefixRecovered == Spec => []RecoversPrefix
  BY WalInvariant, InvRecoversPrefix, PTL

\* A log that was only cut off is refused in no other case than the bare io.EOF
\* of wal/reader.go:198 and a header that could not be written.
THEOREM OnlyBareEOFRefused == Spec => []CutLogOpens
  BY WalInvariant, InvCutLogOpens, PTL

=============================================================================
