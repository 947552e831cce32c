------------------------------ MODULE DataPath ------------------------------
(***************************************************************************)
(* From a write to a read through the data structures in between: write    *)
(* logs with their extent maps, the block index with its bitmap map,       *)
(* tables in the sparse block format, the stack of readers and the byte    *)
(* adaptor on top.  BlockFile and ReaderTracker take each of these for the *)
(* function it represents; here the structures themselves are at work.     *)
(*                                                                         *)
(* A byte is a pair <<version of its block, position in it>>, version 0    *)
(* being zeros.  One client writes runs of blocks, another reads byte      *)
(* ranges; the steps of a read interleave with writes, rotations, merges   *)
(* and compactions.  Files are numbered in the order of their creation; a  *)
(* file's number is its value in the index.  Maps, index and tables count  *)
(* in blocks, where the code multiplies their positions by the block size; *)
(* bytes appear where the code copies or cuts inside a block.              *)
(***************************************************************************)
EXTENDS Integers, Sequences, SequencesExt

CONSTANTS NumBlocks,        \* size of the device
          BlockSize, LeafSize, MaxRangeEntries, MaxEntryLength, MaxOffset,
          HeaderSize, BufferSize,
          Runs,             \* the <<offset, length>> of writes, in blocks
          Requests,         \* the <<offset, length>> of reads, in bytes
          MaxWrites, MaxFiles,   \* bounds
          MaxDuring         \* bound: other steps during one read

ASSUME DataSizesAssumption ==
    /\ {NumBlocks, BlockSize, LeafSize, MaxRangeEntries, MaxEntryLength, BufferSize}
         \subseteq Nat \ {0}
    /\ {MaxOffset, HeaderSize, MaxWrites, MaxFiles, MaxDuring} \subseteq Nat
    /\ \A r \in Runs : r[2] > 0 /\ r[1]..(r[1] + r[2] - 1) \subseteq 0..(NumBlocks - 1)
    /\ \A r \in Requests : r[1] \in 0..(NumBlocks * BlockSize - 1) /\ r[2] \in Nat \ {0}

VARIABLES
    files,    \* the contents of each file, by number
    stack,    \* the logs on top of the index, newest first; the first is active
    pending,  \* pending write logs, oldest first
    index,    \* the block index: the file of each block
    rs,       \* the files pushed to the index
    cleaning, \* a table has been built, unused files are not removed yet
    writes,   \* number of writes
    read,     \* the read in progress
    during,   \* number of other steps during the read
    ref,      \* per block, the version written last
    content,  \* what each file stands for: a function of blocks
    where     \* what the index stands for: the file of each block, 0 if none

vars == <<files, stack, pending, index, rs, cleaning, writes, read, during, ref, content, where>>

Ext == INSTANCE ExtentRangeMap
Bm == INSTANCE BitmapRangeMap
SB == INSTANCE SparseBlock
Ad == INSTANCE Adaptor

EOF == -1
Blocks == 0..(NumBlocks - 1)
Hole == [b \in Blocks |-> 0]
LogOf(ext) == [kind |-> "log", ext |-> ext]
TableOf(tab) == [kind |-> "table", tab |-> tab]
BlockBytes(v) == [i \in 1..BlockSize |-> <<v, i - 1>>]
Zeros(n) == [i \in 1..(n * BlockSize) |-> <<0, (i - 1) % BlockSize>>]
NewFile == Len(files) + 1

-----------------------------------------------------------------------------
(* Files and the index as readers of blocks *)

FileNextData(f, off) ==
    IF files[f].kind = "log" THEN Ext!NextKey(files[f].ext, off)
    ELSE SB!NextData(files[f].tab, off)

FileNextHole(f, off) ==
    IF files[f].kind = "log" THEN Ext!NextEmpty(files[f].ext, off)
    ELSE SB!NextHole(files[f].tab, off)

\* A log is read extent by extent (Wal); the reader of a table is extended with
\* zeros to the size of the device.
FileRead(f, off, n) ==
    LET LogBlock(b) == LET hit == Ext!GetWithRange(files[f].ext, b) IN
                       IF hit = {} THEN 0 ELSE (CHOOSE e \in hit : TRUE).val
        got == SB!ReadAt(files[f].tab, off, n)
    IN  IF files[f].kind = "log"
        THEN FlattenSeq([i \in 1..n |-> BlockBytes(LogBlock(off + i - 1))])
        ELSE got \o Zeros(n - Len(got) \div BlockSize)

ReadFile == [f, o, n \in Nat |-> FileRead(f, o, n)]

\* NextBlockData and NextBlockHole of a blockmap.Reader
MapReader(map) == [NextBlockData |-> [o \in Nat |-> Bm!NextKey(map, o)],
                   NextBlockHole |-> [o \in Nat |-> Bm!NextEmpty(map, o)]]

\* blockmap.Reader.PushReader: every run of the reader br, whose fields say what
\* its operations return, is added to the map.
PushReader(map, f, br) ==
    LET runs[off \in Nat] ==
            LET Upto(start, end) == <<[off |-> start, len |-> end - start]>> \o runs[end]
                Run(start) == IF start = EOF THEN <<>> ELSE Upto(start, br.NextBlockHole[start])
            IN  Run(br.NextBlockData[off])
        AddRange(m, r) == Bm!Add(m, r.off, r.len, f)
    IN  FoldLeft(AddRange, map, runs[0])

PushFile(map, f) ==
    PushReader(map, f, [NextBlockData |-> [o \in Nat |-> FileNextData(f, o)],
                        NextBlockHole |-> [o \in Nat |-> FileNextHole(f, o)]])

\* blockmap.Reader.ReadBlocks: consecutive blocks of one file are read at once.
IndexRead(map, Read, off, n) ==
    LET from[o \in Nat] ==
            LET Upto(f, end) == Read[f, o, end - o] \o from[end]
                Find(f) == Upto(f, Min({k \in (o + 1)..(off + n) :
                                    k = off + n \/ ~Bm!Has(map, k) \/ Bm!Get(map, k) # f}))
            IN  IF o >= off + n THEN <<>>
                ELSE IF ~Bm!Has(map, o) THEN Zeros(1) \o from[o + 1]
                ELSE Find(Bm!Get(map, o))
    IN  from[off]

\* GetLiveBlocks
LiveBlocks(f) ==
    FoldLeft(LAMBDA n, r : IF r.val = f THEN n + r.len ELSE n, 0, Bm!Iterate(index, 0))

\* ReaderForLiveBytes: the part of the index that points to the files es.
ReaderForLiveBytes(es) ==
    LET Keep(m, r) == IF r.val \in es THEN Bm!Add(m, r.off, r.len, r.val) ELSE m
    IN  FoldLeft(Keep, Bm!EmptyMap, Bm!Iterate(index, 0))

-----------------------------------------------------------------------------
IdleRead == [pc |-> "idle", off |-> 0, n |-> 0, layers |-> <<>>, ends |-> <<>>, pos |-> 0,
             upto |-> 0, buf |-> <<>>, lo |-> Hole]

Init ==
    /\ files = <<LogOf({})>>
    /\ stack = <<1>>
    /\ pending = <<>>
    /\ index = Bm!EmptyMap
    /\ rs = {}
    /\ cleaning = FALSE
    /\ writes = 0
    /\ read = IdleRead
    /\ during = 0
    /\ ref = Hole
    /\ content = <<Hole>>
    /\ where = Hole

\* BlockReadWriter.WriteBlocks and the log's WriteAt: a run of blocks.
WriteBlocks(off, n) ==
    /\ writes < MaxWrites
    /\ writes' = writes + 1
    /\ files' = [files EXCEPT ![Head(stack)].ext = Ext!Add(@, off, n, writes')]
    /\ content' = [content EXCEPT ![Head(stack)] =
                      [b \in Blocks |-> IF b \in off..(off + n - 1) THEN writes' ELSE @[b]]]
    /\ ref' = [b \in Blocks |-> IF b \in off..(off + n - 1) THEN writes' ELSE ref[b]]
    /\ UNCHANGED <<stack, pending, index, rs, cleaning, read, where>>

\* The active log becomes a pending reader: a rotation, or the device has been
\* closed and opened again.
Rotate ==
    /\ ~cleaning
    /\ NewFile <= MaxFiles
    /\ files[Head(stack)].ext # {}
    /\ files' = Append(files, LogOf({}))
    /\ content' = Append(content, Hole)
    /\ pending' = Append(pending, Head(stack))
    /\ stack' = <<NewFile>> \o stack
    /\ UNCHANGED <<index, rs, cleaning, writes, read, ref, where>>

\* The merge loop: pending readers enter the index, the oldest first.
Merge ==
    /\ Len(stack) > 1
    /\ ~cleaning
    /\ index' = FoldRight(LAMBDA f, m : PushFile(m, f), Tail(stack), index)
    /\ where' = [b \in Blocks |->
                    LET hits == {i \in 2..Len(stack) : content[stack[i]][b] # 0}
                    IN  IF hits = {} THEN where[b] ELSE stack[Min(hits)]]
    /\ rs' = rs \cup ToSet(Tail(stack))
    /\ stack' = <<Head(stack)>>
    /\ UNCHANGED <<files, pending, cleaning, writes, read, ref, content>>

\* compactPendingWriters: the pending logs on top of the live blocks of the
\* tables es, indexed on their own, are built into a table.  Which tables are
\* taken is BlockFile's subject.
Compact(es) ==
    LET live == NewFile   \* the value of the compaction reader
        BlockReader(map, liveMap) ==
            LET ReadPart == [f, o, n \in Nat |-> IF f = live THEN IndexRead(liveMap, ReadFile, o, n)
                                                 ELSE FileRead(f, o, n)]
            IN  [o, n \in Nat |-> IndexRead(map, ReadPart, o, n)]
        HoleReader(br, ReadBlocks) ==
            [NextData |-> [o \in Nat |-> Ad!NextData(br.NextBlockData, o)],
             NextHole |-> [o \in Nat |-> Ad!NextHole(br.NextBlockHole, o)],
             ReadAt |-> [o, n \in Nat |-> Ad!ReadAt(ReadBlocks, o, n)]]
        Stacked(liveMap) ==
            FoldLeft(PushFile, PushReader(Bm!EmptyMap, live, MapReader(liveMap)), pending)
        InLogs(b) == {i \in DOMAIN pending : content[pending[i]][b] # 0}
    IN  /\ Len(stack) = 1
        /\ pending # <<>>
        /\ ~cleaning
        /\ NewFile <= MaxFiles
        /\ \E liveMap \in {ReaderForLiveBytes(es)} : \E map \in {Stacked(liveMap)} :
              files' = Append(files, TableOf(SB!BuildFromReader(
                                  HoleReader(MapReader(map), BlockReader(map, liveMap)))))
        /\ content' = Append(content, [b \in Blocks |->
                          IF InLogs(b) # {} THEN content[pending[Max(InLogs(b))]][b]
                          ELSE IF where[b] \in es THEN content[where[b]][b]
                          ELSE 0])
        /\ cleaning' = TRUE
        /\ UNCHANGED <<stack, pending, index, rs, writes, read, ref, where>>

\* PushCompactedReader and RemovePending: the table is pushed to the index, and
\* the logs are no longer pending.
Install ==
    /\ cleaning
    /\ Len(files) \notin rs
    /\ index' = PushFile(index, Len(files))
    /\ where' = [b \in Blocks |-> IF content[Len(files)][b] # 0 THEN Len(files) ELSE where[b]]
    /\ rs' = rs \cup {Len(files)}
    /\ pending' = <<>>
    /\ UNCHANGED <<files, stack, cleaning, writes, read, ref, content>>

\* removeUnusedTables, once no read uses the files any longer.
RemoveUnused ==
    /\ cleaning
    /\ Len(files) \in rs
    /\ read.pc = "idle"
    /\ rs' = {f \in rs : LiveBlocks(f) > 0}
    /\ cleaning' = FALSE
    /\ UNCHANGED <<files, stack, pending, index, writes, read, ref, content, where>>

-----------------------------------------------------------------------------
(* A read of n bytes: adaptor.Reader.ReadAt and StackedBlockReader.ReadBlocks. *)
(* readBlocksFrom calls itself for the layer below with a part of its buffer;  *)
(* all calls in progress share the position pos, and ends[i] is where the one  *)
(* for layer i ends.  The last layer is the index.                             *)

Layers == Len(read.layers) + 1
Depth == Len(read.ends)

LayerNextHole(off) ==
    IF Depth < Layers THEN FileNextHole(read.layers[Depth], off) ELSE Bm!NextEmpty(index, off)
LayerNextData(off) ==
    IF Depth < Layers THEN FileNextData(read.layers[Depth], off) ELSE Bm!NextKey(index, off)
LayerRead(off, n) ==
    IF Depth < Layers THEN FileRead(read.layers[Depth], off, n)
    ELSE IndexRead(index, ReadFile, off, n)

\* The calls that have filled their buffer return.
Unwind(ends, pos) == SelectSeq(ends, LAMBDA e : e > pos)

ReadStart(off, n) ==
    /\ read.pc = "idle"
    /\ read' = [IdleRead EXCEPT !.pc = "hole", !.off = off, !.n = n, !.layers = stack,
                                !.pos = Ad!startBlock(off), !.ends = <<Ad!endBlock(off, n)>>,
                                !.lo = ref]
    /\ UNCHANGED <<files, stack, pending, index, rs, cleaning, writes, ref, content, where>>

\* The head of the loop: the end of the device, or how far the layer has data.
ReadHole ==
    /\ read.pc = "hole"
    /\ \/ /\ read.pos >= NumBlocks
          /\ read' = [read EXCEPT !.pc = "done"]
       \/ /\ read.pos < NumBlocks
          /\ \E hole \in {LayerNextHole(read.pos)} :
                read' = IF hole > read.pos
                        THEN [read EXCEPT !.pc = "read", !.upto = Min({hole, Last(read.ends)})]
                        ELSE [read EXCEPT !.pc = "data"]
    /\ UNCHANGED <<files, stack, pending, index, rs, cleaning, writes, ref, content, where>>

\* That data is read; if more is wanted, the next question is asked.
ReadLayer ==
    LET ends == Unwind(read.ends, read.upto) IN
    /\ read.pc = "read"
    /\ read' = [read EXCEPT !.buf = @ \o LayerRead(read.pos, read.upto - read.pos),
                            !.pos = read.upto,
                            !.ends = ends,
                            !.pc = IF ends = <<>> THEN "done"
                                   ELSE IF ends = read.ends THEN "data"
                                   ELSE "hole"]
    /\ UNCHANGED <<files, stack, pending, index, rs, cleaning, writes, ref, content, where>>

\* Mutated form: the layer below is read up to the end of the buffer.
ReadBelowAll ==
    LET end == Last(read.ends)
        ends == Unwind(read.ends, end)
    IN
    /\ read.pc = "data"
    /\ read' = IF Depth = Layers
               THEN [read EXCEPT !.buf = @ \o Zeros(end - read.pos), !.pos = end, !.ends = ends,
                                 !.pc = IF ends = <<>> THEN "done" ELSE "hole"]
               ELSE [read EXCEPT !.pc = "hole", !.ends = Append(@, end)]
    /\ UNCHANGED <<files, stack, pending, index, rs, cleaning, writes, ref, content, where>>

\* Up to the next data of the layer, the layer below is asked; there are zeros
\* below the last one.
ReadBelow ==
    LET Zeroed(end, ends) ==
            [read EXCEPT !.buf = @ \o Zeros(end - read.pos), !.pos = end, !.ends = ends,
                         !.pc = IF ends = <<>> THEN "done" ELSE "hole"]
        Called(end) == [read EXCEPT !.pc = "hole",
                                    !.ends = IF end = read.pos THEN @ ELSE Append(@, end)]
        Data(next) == Min({Last(read.ends), IF next = EOF THEN NumBlocks ELSE next})
    IN
    /\ read.pc = "data"
    /\ \E end \in {Data(LayerNextData(read.pos))} :
          read' = IF Depth = Layers THEN Zeroed(end, Unwind(read.ends, end)) ELSE Called(end)
    /\ UNCHANGED <<files, stack, pending, index, rs, cleaning, writes, ref, content, where>>

\* What the adaptor hands to the client.
Result ==
    IF Ad!Aligned(read.off, read.n) THEN read.buf ELSE Ad!Cut(read.buf, read.off, read.n)

ReadReturn ==
    /\ read.pc = "done"
    /\ read' = IdleRead
    /\ UNCHANGED <<files, stack, pending, index, rs, cleaning, writes, ref, content, where>>

ReadStep ==
    \/ \E r \in Requests : ReadStart(r[1], r[2])
    \/ ReadHole \/ ReadLayer \/ ReadBelow \/ ReadReturn

OtherStep ==
    \/ \E r \in Runs : WriteBlocks(r[1], r[2])
    \/ Rotate
    \/ Merge
    \/ \E es \in SUBSET {f \in rs : files[f].kind = "table" /\ LiveBlocks(f) > 0} : Compact(es)
    \/ Install
    \/ RemoveUnused

Next ==
    \/ /\ ReadStep
       /\ during' = IF read'.pc = "idle" THEN 0 ELSE during
    \/ /\ read.pc = "idle" \/ during < MaxDuring
       /\ OtherStep
       /\ during' = IF read.pc = "idle" THEN 0 ELSE during + 1

Spec == Init /\ [][Next]_vars

-----------------------------------------------------------------------------
\* The answers of a reader of blocks are those of the function c.
Answers(NextBlockData(_), NextBlockHole(_), c) ==
    \A b \in Blocks :
        LET data == {x \in Blocks : x >= b /\ c[x] # 0}
            holes == {x \in Blocks : x >= b /\ c[x] = 0} \cup {NumBlocks}
        IN  /\ NextBlockData(b) = IF data = {} THEN EOF ELSE Min(data)
            /\ NextBlockHole(b) = Min(holes)

\* Iterate's ranges cut c into runs of equal values, none of them missing.
RunsOf(runs, c) ==
    /\ \A i \in DOMAIN runs : \A x \in runs[i].off..(runs[i].off + runs[i].len - 1) :
          c[x] = runs[i].val
    /\ \A i, j \in DOMAIN runs : i < j => runs[i].off + runs[i].len <= runs[j].off
    /\ {b \in Blocks : c[b] # 0}
         = UNION {runs[i].off..(runs[i].off + runs[i].len - 1) : i \in DOMAIN runs}

\* The extent map of the active log is the function of what was written to the
\* log, whatever ranges were overwritten in part, at either end or in the
\* middle: its extents are disjoint, and NextKey, NextEmpty and Iterate answer
\* as the function would.
LogsMatch ==
    LET m == files[Head(stack)].ext
        written == content[Head(stack)]
    IN  /\ \A e, g \in m : e # g => ~Ext!Overlaps(e, g)
        /\ \A b \in Blocks : {e.val : e \in Ext!GetWithRange(m, b)} = {written[b]} \ {0}
        /\ Answers(LAMBDA b : Ext!NextKey(m, b), LAMBDA b : Ext!NextEmpty(m, b), written)
        /\ \A b \in Blocks : RunsOf(Ext!Iterate(m, b),
                                    [x \in Blocks |-> IF x < b THEN 0 ELSE written[x]])

\* The bitmap map of the index is the function of the file each block was put
\* in last, across leaf boundaries and full leaves, and a file is dropped from
\* the index only when no block is left in it.
IndexMatches ==
    /\ \A b \in Blocks : /\ Bm!Has(index, b) <=> where[b] # 0
                         /\ where[b] # 0 => Bm!Get(index, b) = where[b] /\ where[b] \in rs
    /\ Answers(LAMBDA b : Bm!NextKey(index, b), LAMBDA b : Bm!NextEmpty(index, b), where)
    /\ \A b \in Blocks : RunsOf(Bm!Iterate(index, b),
                                [x \in Blocks |-> IF x < b THEN 0 ELSE where[x]])

\* A table holds exactly the blocks that were compacted into it and can be
\* searched and read at any position and length, although they were split into
\* short entries and ranges, and copied through a buffer that does not respect
\* block boundaries; its data size is the number of its blocks.  No step changes
\* a table, so the newest one is looked at.
TablesMatch ==
    LET f == Len(files) IN
    files[f].kind = "table" =>
        /\ SB!DataSize(files[f].tab) = Cardinality({b \in Blocks : content[f][b] # 0})
        /\ Answers(LAMBDA b : FileNextData(f, b), LAMBDA b : FileNextHole(f, b), content[f])
        /\ \A off \in Blocks : \A n \in 1..(NumBlocks - off) :
              FileRead(f, off, n) = FlattenSeq([i \in 1..n |-> BlockBytes(content[f][off + i - 1])])

\* A read of any byte range returns all of it, up to the end of the device, and
\* each byte, at its place, from a version its block had during the read,
\* although the logs of its stack are written and merged meanwhile.
ReadsRight ==
    read.pc = "done" =>
        /\ Len(Result) = Min({read.n, NumBlocks * BlockSize - read.off})
        /\ \A i \in DOMAIN Result :
              LET at == read.off + i - 1
                  b == at \div BlockSize
              IN  /\ Result[i][2] = at % BlockSize
                  /\ Result[i][1] \in read.lo[b]..ref[b]
=============================================================================
