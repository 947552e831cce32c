----------------------------- MODULE SparseBlock ----------------------------
(***************************************************************************)
(* sparseblock/: the format of tables.  A table lists its runs of blocks as *)
(* entries of limited length, grouped in ranges of limited size whose       *)
(* entries hold 16-bit offsets from the range's start; the data of all      *)
(* entries follows without gaps.  Marshalling keeps the fields as they are  *)
(* apart from their width.                                                  *)
(***************************************************************************)
EXTENDS Integers, Sequences, SequencesExt

CONSTANTS BlockSize,        \* in bytes
          MaxRangeEntries,  \* maxRangeEntries (64): entries of a range
          MaxEntryLength,   \* maxEntryLength (127): blocks of an entry
          MaxOffset,        \* math.MaxUint16: offset of an entry in its range
          HeaderSize,       \* bytes before the index; protobuf, hence any number
          BufferSize        \* writeBufferSize (64 KiB): of the bufio.Writer

EOF == -1
rangeEntrySize == 16
blockEntrySize == 3

-----------------------------------------------------------------------------
(* Builder *)

NewBuilder == [ranges |-> <<>>, entries |-> <<>>, dataOffset |-> 0, prevEnd |-> 0]

\* Mutated form: the 16-bit offset is compared with >= against its modulus.
AddEntryWide(b, blockOffset, eLen) ==
    LET full == \/ b.ranges = <<>>
                \/ Last(b.ranges).numEntries >= MaxRangeEntries
                \/ blockOffset - Last(b.ranges).startOffset > MaxOffset + 1
        rs == IF full THEN Append(b.ranges, [startOffset |-> blockOffset,
                                             dataOffset |-> b.dataOffset, numEntries |-> 0])
              ELSE b.ranges
    IN  [b EXCEPT !.ranges = [rs EXCEPT ![Len(rs)].numEntries = @ + 1],
                  !.entries = Append(@, [offset |-> (blockOffset - Last(rs).startOffset)
                                                       % (MaxOffset + 1),
                                         length |-> eLen]),
                  !.dataOffset = @ + eLen]

\* The body of AddBlocks' loop: an entry for eLen blocks, in the last range or,
\* if that is full or too far away, in a new one.
AddEntry(b, blockOffset, eLen) ==
    LET full == \/ b.ranges = <<>>
                \/ Last(b.ranges).numEntries >= MaxRangeEntries
                \/ blockOffset - Last(b.ranges).startOffset > MaxOffset
        rs == IF full THEN Append(b.ranges, [startOffset |-> blockOffset,
                                             dataOffset |-> b.dataOffset, numEntries |-> 0])
              ELSE b.ranges
    IN  [b EXCEPT !.ranges = [rs EXCEPT ![Len(rs)].numEntries = @ + 1],
                  !.entries = Append(@, [offset |-> (blockOffset - Last(rs).startOffset)
                                                       % (MaxOffset + 1),
                                         length |-> eLen]),
                  !.dataOffset = @ + eLen]

\* Runs are added in order: offset >= b.prevEnd, or the code panics.
AddBlocks(b, offset, length) ==
    LET Chunk(acc, eOffset) ==
            AddEntry(acc, offset + eOffset, Min({length - eOffset, MaxEntryLength}))
        chunks == (length + MaxEntryLength - 1) \div MaxEntryLength
    IN  [FoldLeft(Chunk, b, [k \in 1..chunks |-> (k - 1) * MaxEntryLength])
            EXCEPT !.prevEnd = offset + length]

\* Build's copy of one run through the write buffer, after fill bytes: as many
\* as the buffer has room for are asked for at a time, wherever blocks end.
CopyRun(src, run, fill) ==
    LET copied[n \in 0..run.len] ==
            IF n = run.len THEN <<>>
            ELSE LET room == BufferSize - ((fill + n) % BufferSize)
                     Put(got) == got \o copied[n + Len(got)]
                 IN  Put(src.ReadAt[run.off + n, Min({room, run.len - n})])
    IN  copied[0]

\* Build: the header and the index go through the write buffer, then the runs.
Build(b, src, runs) ==
    LET index == HeaderSize + Len(b.ranges) * rangeEntrySize + Len(b.entries) * blockEntrySize
        AppendRun(data, run) == data \o CopyRun(src, run, index + Len(data))
    IN  [ranges |-> b.ranges, entries |-> b.entries, totalBlocks |-> b.dataOffset,
         endBlock |-> b.prevEnd, data |-> FoldLeft(AppendRun, <<>>, runs)]

\* BuildFromReader without a limit: the runs src reports, in bytes, are added,
\* then the file is built.  The fields of src say what its operations return.
BuildFromReader(src) ==
    LET from[off \in Nat] ==
            LET Upto(start, end) == <<[off |-> start, len |-> end - start]>> \o from[end]
                Run(start) == IF start = EOF THEN <<>> ELSE Upto(start, src.NextHole[start])
            IN  Run(src.NextData[off])
        AddRun(acc, run) == AddBlocks(acc, run.off \div BlockSize, run.len \div BlockSize)
        BuildRuns(runs) == Build(FoldLeft(AddRun, NewBuilder, runs), src, runs)
    IN  BuildRuns(from[0])

-----------------------------------------------------------------------------
(* Reader.  Every call comes through adaptor.BlockReader, so that offsets and *)
(* lengths are whole blocks; a table has at least one entry (TableNotEmpty).  *)

\* readIndex: where the entries of range i begin.
firstEntryIndex(t, i) ==
    1 + FoldLeft(LAMBDA n, r : n + r.numEntries, 0, SubSeq(t.ranges, 1, i - 1))

\* Entry ei of range ri, with the offset of its data.
fillEntry(t, ri, ei, dataOffset) ==
    [offset |-> t.ranges[ri].startOffset + t.entries[ei].offset,
     length |-> t.entries[ei].length, dataOffset |-> dataOffset]

EntryContains(e, off) == off >= e.offset /\ off < e.offset + e.length
NoEntry == [offset |-> EOF, length |-> 0, dataOffset |-> 0]

\* The entries of range ri with their data offsets, as the linear search in it
\* accumulates them.
EntriesOf(t, ri) ==
    LET before(first, k) == FoldLeft(LAMBDA n, e : n + e.length, 0,
                                     SubSeq(t.entries, first, first + k - 2))
        From(first) == [k \in 1..t.ranges[ri].numEntries |->
                           fillEntry(t, ri, first + k - 1,
                                     t.ranges[ri].dataOffset + before(first, k))]
    IN  From(firstEntryIndex(t, ri))

\* The first entry of the range after ri.
EntryAfter(t, ri) ==
    IF ri + 1 <= Len(t.ranges)
    THEN fillEntry(t, ri + 1, firstEntryIndex(t, ri + 1), t.ranges[ri + 1].dataOffset)
    ELSE NoEntry

\* The entry off is in or the next one: the last range that starts at or before
\* off is searched, then the range after it.
getNextEntry(t, off) ==
    LET Hit(e) == e.offset >= off \/ EntryContains(e, off)
        Search(ri) == IF ri = 0 THEN fillEntry(t, 1, 1, 0)
                      ELSE Head(SelectSeq(EntriesOf(t, ri), Hit) \o <<EntryAfter(t, ri)>>)
    IN  Search(Max({0} \cup {i \in DOMAIN t.ranges : t.ranges[i].startOffset <= off}))

NextData(t, off) ==
    LET Found(e) == IF e = NoEntry THEN EOF ELSE IF EntryContains(e, off) THEN off ELSE e.offset
    IN  Found(getNextEntry(t, off))

NextHole(t, off) ==
    LET past[o \in Nat] ==
            LET Past(e) == IF EntryContains(e, o) THEN past[e.offset + e.length] ELSE o
            IN  Past(getNextEntry(t, o))
    IN  past[off]

\* ReadAt for n blocks, as bytes: zeros up to the next entry, then as much of it
\* as is wanted; it ends early after the last entry.
ReadAt(t, off, n) ==
    LET zeros(k) == [i \in 1..(k * BlockSize) |-> <<0, (i - 1) % BlockSize>>]
        Data(e, start, stop) ==
            SubSeq(t.data, (e.dataOffset + start - e.offset) * BlockSize + 1,
                           (e.dataOffset + stop - e.offset) * BlockSize)
        from[o \in Nat] ==
            LET Piece(e, start, stop) ==
                    IF start = off + n THEN zeros(start - o)
                    ELSE zeros(start - o) \o Data(e, start, stop) \o from[stop]
                Read(e) == IF e = NoEntry THEN <<>>
                           ELSE Piece(e, Min({Max({o, e.offset}), off + n}),
                                         Min({e.offset + e.length, off + n}))
            IN  IF o >= off + n THEN <<>> ELSE Read(getNextEntry(t, o))
    IN  from[off]

DataSize(t) == t.totalBlocks
=============================================================================
