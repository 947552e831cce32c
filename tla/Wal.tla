-------------------------------- MODULE Wal --------------------------------
(***************************************************************************)
(* The write-ahead log: wal/writer.go, wal/reader.go and the decision of   *)
(* block/write_log.go whether a log that was cut off can be used.          *)
(*                                                                         *)
(* The file is a sequence of cells.  A cell is what the reader asks for in *)
(* one piece: the magic, the rest of the header, the 8-byte base of an     *)
(* entry, its offset, one address worth of data, one index entry, the 16   *)
(* bytes that end the footer.  A checksum is the list of cells it covers.  *)
(* After a crash the last cell may be "torn" (some of its bytes are there) *)
(* and one cell may be "lost" (a page that was not written: zeros).        *)
(* Trim has no caller, and the reader panics on it: it is left out.        *)
(***************************************************************************)
EXTENDS Integers, Sequences, FiniteSets, FiniteSetsExt, SequencesExt

CONSTANTS Writers,      \* threads calling WriteAt
          NoThread,     \* owner of a free lock
          MaxAddr,      \* addresses are 0..MaxAddr
          MaxWrites,    \* bound on the appends tried
          MaxFailures,  \* bound on the writes that fail half-way
          MaxReads,     \* bound on the calls of ReadAtFrom
          MinRead,      \* the fewest addresses such a call reads
          MaxCrashes,   \* 1 if the process may stop and the log be opened again
          PagesLost     \* whether a crash may lose a page in mid-file

ASSUME NoThreadAssumption == NoThread \notin Writers
ASSUME MaxAddrAssumption == MaxAddr \in Nat
ASSUME BoundsAssumption == /\ MaxWrites \in Nat /\ MaxFailures \in Nat
                           /\ MaxReads \in Nat /\ MinRead \in Nat /\ MaxCrashes \in {0, 1}
                           /\ PagesLost \in BOOLEAN

VARIABLES
    file,       \* the cells of the log file
    offset,     \* w.offset, in cells
    closing,    \* "open", "closing" (w.w = nil, footer not written), "closed"
    header,     \* w.headerOnce and w.headerErr: "none", "ok" or "failed"
    index,      \* w.index: per address, a logRecord or NoRec
    writeLock,  \* its owner
    indexLock,  \* the thread holding it for writing
    wr,         \* per thread, its WriteAt call
    rd,         \* the ReadAtFrom call
    reader,     \* what NewWriteLogFromReader made of the file after a crash
    hist,       \* ghost: the entries written completely, in file order
    tries,      \* ghost: number of appends tried
    broken,     \* ghost: where the first half-written entry begins, 0 if none
    failures,   \* writes that failed
    reads       \* calls of ReadAtFrom

vars == <<file, offset, closing, header, index, writeLock, indexLock, wr, rd,
          reader, hist, tries, broken, failures, reads>>
filevars == <<file, offset, closing, header>>
lockvars == <<writeLock, indexLock>>
ghosts == <<hist, tries, broken>>
bounds == <<failures, reads>>

Addrs == 0..MaxAddr
Ranges == {r \in [off : Addrs, len : 1..(MaxAddr + 1)] : r.off + r.len - 1 <= MaxAddr}
Covers(r, a) == r.off <= a /\ a < r.off + r.len

-----------------------------------------------------------------------------
(* Cells *)

NoRec == [logOffset |-> -1, off |-> 0, len |-> 0]
EmptyIndex == [a \in Addrs |-> NoRec]

\* ExtentRangeMap.Add: the new extent replaces what it overlaps.
Add(idx, rec) == [a \in Addrs |-> IF Covers(rec, a) THEN rec ELSE idx[a]]

\* The index made by adding records one after the other.
AddAll(recs) == FoldLeft(Add, EmptyIndex, recs)

\* The byte at address a of write number id; holes read as Zero.
Byte(id, a) == <<id, a>>
Zero == <<0, 0>>
Junk == <<0, 1>>
CellByte(c) == CASE c.k = "data" -> Byte(c.id, c.addr)
                 [] c.k = "lost" -> Zero
                 [] OTHER -> Junk

Header == <<[k |-> "magic"], [k |-> "header"]>>

\* An entry: its base, whose checksum covers the rest, then offset and data.
Payload(id, r) ==
    <<[k |-> "offset", off |-> r.off]>>
      \o [i \in 1..r.len |-> [k |-> "data", id |-> id, addr |-> r.off + i - 1]]
makeLogEntry(id, r) ==
    <<[k |-> "base", type |-> "data", len |-> r.len, crc |-> Payload(id, r)]>>
      \o Payload(id, r)
FooterEntry == [k |-> "base", type |-> "footer", len |-> 0, crc |-> <<>>]
entryHeaderSize == 2   \* base and offset

-----------------------------------------------------------------------------
(* The footer: one index entry per extent, that is, per maximal run of      *)
(* addresses with the same record.  A record may have lost its beginning to *)
(* a later write, hence the adjustment of the log offset.                   *)

ExtentStarts(idx) ==
    {a \in Addrs : idx[a] # NoRec /\ (a = 0 \/ idx[a - 1] # idx[a])}
ExtentEnd(idx, a) == Max({b \in a..MaxAddr : \A c \in a..b : idx[c] = idx[a]})

\* Mutated form: the log offset of a partly overwritten record is not adjusted.
IndexEntryUnadjusted(idx, a) ==
    [k |-> "index", off |-> a, len |-> ExtentEnd(idx, a) - a + 1,
     logOffset |-> idx[a].logOffset]

IndexEntry(idx, a) ==
    [k |-> "index", off |-> a, len |-> ExtentEnd(idx, a) - a + 1,
     logOffset |-> idx[a].logOffset + (a - idx[a].off)]

IndexEntries(idx) ==
    LET starts == CHOOSE s \in SetToSeqs(ExtentStarts(idx)) :
                    \A i, j \in DOMAIN s : i < j => s[i] < s[j]
    IN  [i \in DOMAIN starts |-> IndexEntry(idx, starts[i])]

Footer(idx) ==
    LET es == IndexEntries(idx)
    IN  <<FooterEntry>> \o es \o <<[k |-> "end", size |-> Len(es), crc |-> es]>>

-----------------------------------------------------------------------------
(* The reader *)

Whole(f, n) == Len(f) >= n /\ f[n].k # "torn"

\* readHeader: a cut header is an unexpected end; anything else in its place
\* is rejected.
readHeader(f) ==
    IF Len(f) >= 1 /\ f[1].k \notin {"magic", "torn"} THEN "invalid"
    ELSE IF ~Whole(f, 1) \/ ~Whole(f, 2) THEN "unexpected"
    ELSE IF f[2].k # "header" THEN "invalid"
    ELSE "nil"

\* readIndex: the last cell says how many index entries precede it.
readIndex(f) ==
    LET e == f[Len(f)]
        first == Len(f) - e.size
        es == SubSeq(f, first, Len(f) - 1)
    IN  IF e.k # "end" \/ first < 1 \/ es # e.crc
        THEN [ok |-> FALSE, index |-> EmptyIndex]
        ELSE [ok |-> TRUE,
              index |-> AddAll([i \in DOMAIN es |-> [logOffset |-> es[i].logOffset,
                                                     off |-> es[i].off, len |-> es[i].len]])]

\* Mutated form: io.EOF in the middle of the data is not turned into
\* ErrUnexpectedEOF either.
readEntryBareEOF(f, p) ==
    IF p > Len(f) THEN "nil"
    ELSE IF f[p].k = "torn" THEN "unexpected"
    ELSE IF f[p].k = "base" /\ f[p].type = "footer" THEN "nil"
    ELSE IF f[p].k # "base" \/ ~Whole(f, p + 1 + f[p].len) THEN "EOF"
    ELSE IF SubSeq(f, p + 1, p + 1 + f[p].len) # f[p].crc THEN "corrupted"
    ELSE "more"

\* One turn of the loop of NewReader, at cell p.  "more": the entry is good.
\* The base of a lost page is all zeros: a data entry of size 0, whose
\* remaining length underflows, so that the loop reads to the end of the file.
\* No other kind of cell is ever met here.
readEntry(f, p) ==
    IF p > Len(f) THEN "nil"
    ELSE IF f[p].k = "torn" THEN "unexpected"
    ELSE IF f[p].k = "base" /\ f[p].type = "footer" THEN "nil"
    ELSE IF f[p].k \in {"base", "lost"} /\ ~Whole(f, p + 1) THEN "EOF"
    ELSE IF f[p].k # "base" \/ ~Whole(f, p + 1 + f[p].len) THEN "unexpected"
    ELSE IF SubSeq(f, p + 1, p + 1 + f[p].len) # f[p].crc THEN "corrupted"
    ELSE "more"

\* The loop from cell p on: the entries it accepts and the error it ends with.
LoadLoop(f, start) ==
    LET load[p \in start..(Len(f) + 1)] ==
            IF readEntry(f, p) # "more"
            THEN [err |-> readEntry(f, p), at |-> <<>>]
            ELSE LET rest == load[p + 2 + f[p].len]
                 IN  [err |-> rest.err, at |-> <<p>> \o rest.at]
    IN  load[start]

NewReader(f) ==
    IF readHeader(f) # "nil"
    THEN [err |-> readHeader(f), index |-> EmptyIndex, footer |-> FALSE]
    ELSE IF readIndex(f).ok
    THEN [err |-> "nil", index |-> readIndex(f).index, footer |-> TRUE]
    ELSE LET loop == LoadLoop(f, Len(Header) + 1)
             rec(p) == [logOffset |-> p - 1 + entryHeaderSize,
                        off |-> f[p + 1].off, len |-> f[p].len]
         IN  [err |-> loop.err, footer |-> FALSE,
              index |-> AddAll([i \in DOMAIN loop.at |-> rec(loop.at[i])])]

\* Reader.ReadAt and ReadAtFrom, for one address that has a record: the cell
\* its record points to.
LogOff(rec, a) == rec.logOffset + (a - rec.off)
ReadCell(rec, a) ==
    IF LogOff(rec, a) + 1 \in DOMAIN file THEN CellByte(file[LogOff(rec, a) + 1]) ELSE Junk
ReadAt(idx, a) == IF idx[a] = NoRec THEN Zero ELSE ReadCell(idx[a], a)

\* NewWriteLogFromReader: a truncated or corrupted log is used as far as it
\* goes, any other error stops the device from opening.
NewWriteLogFromReader(f) ==
    LET r == NewReader(f)
    IN  [state |-> IF r.err \in {"nil", "unexpected", "corrupted"} THEN "open" ELSE "refused",
         index |-> r.index, footer |-> r.footer]

-----------------------------------------------------------------------------
(* The writer *)

Idle == [pc |-> "idle", id |-> 0, off |-> 0, len |-> 0, logOffset |-> 0]
NoRead == [pc |-> "idle", first |-> 0, end |-> 0, off |-> 0, rec |-> NoRec,
           n |-> 0, buf |-> <<>>, seen |-> [a \in Addrs |-> {}]]
NotOpened == [state |-> "none", index |-> EmptyIndex, footer |-> FALSE]

Init ==
    /\ file = <<>> /\ offset = 0 /\ closing = "open" /\ header = "none"
    /\ index = EmptyIndex
    /\ writeLock = NoThread /\ indexLock = NoThread
    /\ wr = [t \in Writers |-> Idle]
    /\ rd = NoRead
    /\ reader = NotOpened
    /\ hist = <<>> /\ tries = 0 /\ broken = 0
    /\ failures = 0 /\ reads = 0

Running == reader.state = "none"

\* WriteAt is called: writeHeader runs once, without writeLock; everybody else
\* waits in the Once.  After a failure it fails for ever.
WriteHeader(t) ==
    /\ Running
    /\ wr[t].pc = "idle" /\ tries < MaxWrites
    /\ header # "failed"
    /\ IF header = "none"
       THEN file' = file \o Header /\ offset' = Len(Header) /\ header' = "ok"
       ELSE UNCHANGED <<file, offset, header>>
    /\ \E r \in Ranges :
         wr' = [wr EXCEPT ![t] = [pc |-> "start", id |-> tries + 1, off |-> r.off,
                                  len |-> r.len, logOffset |-> 0]]
    /\ tries' = tries + 1
    /\ UNCHANGED <<closing, index, lockvars, rd, reader, hist, broken, bounds>>

\* iou.WriteMany fails after the first n of its pieces.
WriteHeaderFails(t) ==
    /\ Running
    /\ wr[t].pc = "idle" /\ tries < MaxWrites /\ failures < MaxFailures
    /\ header = "none"
    /\ \E n \in 0..(Len(Header) - 1) :
         /\ file' = file \o SubSeq(Header, 1, n)
         /\ offset' = n
    /\ header' = "failed"
    /\ tries' = tries + 1 /\ failures' = failures + 1
    /\ UNCHANGED <<closing, index, lockvars, wr, rd, reader, hist, broken, reads>>

\* Mutated form: writeLock is released right after the write.
WriteLogUnlocked(t) ==
    /\ Running
    /\ wr[t].pc = "start" /\ writeLock = NoThread /\ closing = "open"
    /\ file' = file \o makeLogEntry(wr[t].id, wr[t])
    /\ offset' = offset + entryHeaderSize + wr[t].len
    /\ wr' = [wr EXCEPT ![t].pc = "logged", ![t].logOffset = offset + entryHeaderSize]
    /\ hist' = Append(hist, [id |-> wr[t].id, off |-> wr[t].off, len |-> wr[t].len,
                             at |-> Len(file)])
    /\ UNCHANGED <<closing, header, index, lockvars, rd, reader, tries, broken, bounds>>

\* Under writeLock: the entry is written and the offset advanced.  The lock is
\* kept until the thread has indexLock.
WriteLog(t) ==
    /\ Running
    /\ wr[t].pc = "start" /\ writeLock = NoThread /\ closing = "open"
    /\ file' = file \o makeLogEntry(wr[t].id, wr[t])
    /\ offset' = offset + entryHeaderSize + wr[t].len
    /\ wr' = [wr EXCEPT ![t].pc = "logged", ![t].logOffset = offset + entryHeaderSize]
    /\ writeLock' = t
    /\ hist' = Append(hist, [id |-> wr[t].id, off |-> wr[t].off, len |-> wr[t].len,
                             at |-> Len(file)])
    /\ UNCHANGED <<closing, header, index, indexLock, rd, reader, tries, broken, bounds>>

\* ErrWriterClosed.
WriteRefused(t) ==
    /\ Running
    /\ wr[t].pc = "start" /\ writeLock = NoThread /\ closing # "open"
    /\ wr' = [wr EXCEPT ![t] = Idle]
    /\ UNCHANGED <<filevars, index, lockvars, rd, reader, ghosts, bounds>>

\* writeLogEntry fails after the first n cells; the offset is left alone.
WriteLogFails(t) ==
    /\ Running
    /\ wr[t].pc = "start" /\ writeLock = NoThread /\ closing = "open"
    /\ failures < MaxFailures
    /\ \E n \in 0..(entryHeaderSize + wr[t].len - 1) :
         /\ file' = file \o SubSeq(makeLogEntry(wr[t].id, wr[t]), 1, n)
         /\ broken' = IF broken = 0 /\ n > 0 THEN Len(file) + 1 ELSE broken
    /\ wr' = [wr EXCEPT ![t] = Idle]
    /\ failures' = failures + 1
    /\ UNCHANGED <<offset, closing, header, index, lockvars, rd, reader, hist, tries, reads>>

\* Mutated form: writeLock is not released.
WriteIndexLockKeeps(t) ==
    /\ Running
    /\ wr[t].pc = "logged" /\ indexLock = NoThread
    /\ indexLock' = t
    /\ wr' = [wr EXCEPT ![t].pc = "indexing"]
    /\ UNCHANGED <<filevars, index, writeLock, rd, reader, ghosts, bounds>>

\* indexLock is taken before writeLock is released, so that the index is
\* updated in the order of the log.
WriteIndexLock(t) ==
    /\ Running
    /\ wr[t].pc = "logged" /\ indexLock = NoThread
    /\ indexLock' = t
    /\ writeLock' = NoThread
    /\ wr' = [wr EXCEPT ![t].pc = "indexing"]
    /\ UNCHANGED <<filevars, index, rd, reader, ghosts, bounds>>

\* The index is updated, indexLock released, WriteAt returns.
WriteIndex(t) ==
    /\ Running
    /\ wr[t].pc = "indexing"
    /\ index' = Add(index, [logOffset |-> wr[t].logOffset, off |-> wr[t].off,
                            len |-> wr[t].len])
    /\ indexLock' = NoThread
    /\ wr' = [wr EXCEPT ![t] = Idle]
    /\ rd' = IF rd.pc \in {"lookup", "io"}
             THEN [rd EXCEPT !.seen = [a \in Addrs |->
                     IF Covers(wr[t], a) THEN rd.seen[a] \cup {Byte(wr[t].id, a)}
                                         ELSE rd.seen[a]]]
             ELSE rd
    /\ UNCHANGED <<filevars, writeLock, reader, ghosts, bounds>>

\* CloseWriter, first part: an empty log is left open, and a second call
\* returns ErrWriterClosed.
CloseWriter ==
    /\ Running
    /\ writeLock = NoThread /\ closing = "open" /\ offset # 0
    /\ closing' = "closing"
    /\ UNCHANGED <<file, offset, header, index, lockvars, wr, rd, reader, ghosts, bounds>>

\* CloseWriter, second part, under indexLock shared: the footer.
CloseFooter ==
    /\ Running
    /\ closing = "closing" /\ indexLock = NoThread
    /\ file' = file \o Footer(index)
    /\ closing' = "closed"
    /\ UNCHANGED <<offset, header, index, lockvars, wr, rd, reader, ghosts, bounds>>

-----------------------------------------------------------------------------
(* ReadAtFrom *)

\* The writes that have reached the index: all but those between the two.
Indexed == Len(hist) - Cardinality({t \in Writers : wr[t].pc \in {"logged", "indexing"}})

\* What address a should read as after the first k entries.
Expected(a, k) ==
    LET is == {i \in 1..k : Covers(hist[i], a)}
        e == hist[Max(is)]
        cell == file[e.at + entryHeaderSize + (a - e.off) + 1]
    IN  IF is = {} THEN Zero
        ELSE IF cell.k = "lost" THEN Zero ELSE Byte(e.id, a)

ReadStart ==
    /\ Running
    /\ rd.pc \in {"idle", "done"} /\ reads < MaxReads
    /\ \E r \in {x \in Ranges : x.len >= MinRead} :
         rd' = [NoRead EXCEPT !.pc = "lookup", !.first = r.off, !.off = r.off,
                              !.end = r.off + r.len,
                              !.seen = [a \in Addrs |-> {Expected(a, Indexed)}]]
    /\ reads' = reads + 1
    /\ UNCHANGED <<filevars, index, lockvars, wr, reader, ghosts, failures>>

Zeros(n) == [i \in 1..n |-> Zero]

\* Mutated form: the length is that of the record, not of what is left of it.
ReadLookupWholeRecord ==
    /\ Running
    /\ rd.pc = "lookup" /\ indexLock = NoThread
    /\ LET keys == {a \in Addrs : a >= rd.off /\ index[a] # NoRec}
           next == Min(keys)
       IN  rd' = IF keys = {} THEN [rd EXCEPT !.pc = "done"]
                 ELSE IF next >= rd.end
                 THEN [rd EXCEPT !.pc = "done", !.off = rd.end,
                                 !.buf = @ \o Zeros(rd.end - rd.off)]
                 ELSE [rd EXCEPT !.pc = "io", !.off = next,
                                 !.buf = @ \o Zeros(next - rd.off),
                                 !.rec = index[next],
                                 !.n = Min({index[next].off + index[next].len, rd.end}) - next]
    /\ UNCHANGED <<filevars, index, lockvars, wr, reader, ghosts, bounds>>

\* Under indexLock shared: zeros up to the next extent (the end of the file if
\* there is none), then the record to read is chosen and the lock dropped.
ReadLookup ==
    /\ Running
    /\ rd.pc = "lookup" /\ indexLock = NoThread
    /\ LET keys == {a \in Addrs : a >= rd.off /\ index[a] # NoRec}
           next == Min(keys)
       IN  rd' = IF keys = {} THEN [rd EXCEPT !.pc = "done"]
                 ELSE IF next >= rd.end
                 THEN [rd EXCEPT !.pc = "done", !.off = rd.end,
                                 !.buf = @ \o Zeros(rd.end - rd.off)]
                 ELSE [rd EXCEPT !.pc = "io", !.off = next,
                                 !.buf = @ \o Zeros(next - rd.off),
                                 !.rec = index[next],
                                 !.n = Min({ExtentEnd(index, next) + 1, rd.end}) - next]
    /\ UNCHANGED <<filevars, index, lockvars, wr, reader, ghosts, bounds>>

\* The file is read without the lock.
ReadIO ==
    /\ Running
    /\ rd.pc = "io"
    /\ rd' = [rd EXCEPT !.buf = @ \o [i \in 1..rd.n |-> ReadCell(rd.rec, rd.off + i - 1)],
                        !.off = @ + rd.n, !.rec = NoRec, !.n = 0,
                        !.pc = IF rd.off + rd.n = rd.end THEN "done" ELSE "lookup"]
    /\ UNCHANGED <<filevars, index, lockvars, wr, reader, ghosts, bounds>>

-----------------------------------------------------------------------------
(* Crash and recovery *)

\* The process or the machine stops: a prefix of the file is left, perhaps
\* with a part of the next cell, and one page of it may have been lost (the
\* header is never lost without the magic before it).  Two bounds: a lost page
\* and a half-written entry are not combined; and reads leave no trace in the
\* file, so only crashes without them are explored.
Crash ==
    /\ Running /\ MaxCrashes = 1 /\ reads = 0
    /\ \E n \in 0..Len(file), torn \in BOOLEAN, lost \in 0..Len(file) :
         /\ torn => n < Len(file)
         /\ lost <= n /\ lost # 2 /\ (lost > 0 => PagesLost /\ broken = 0)
         /\ file' = [i \in 1..n |-> IF i = lost THEN [k |-> "lost"] ELSE file[i]]
                      \o (IF torn THEN <<[k |-> "torn"]>> ELSE <<>>)
    /\ offset' = 0 /\ closing' = "open"
    /\ index' = EmptyIndex
    /\ writeLock' = NoThread /\ indexLock' = NoThread
    /\ wr' = [t \in Writers |-> Idle]
    /\ rd' = NoRead
    /\ reader' = [NotOpened EXCEPT !.state = "down"]
    /\ tries' = 0 /\ failures' = 0
    /\ UNCHANGED <<header, hist, broken, reads>>

Open ==
    /\ reader.state = "down"
    /\ reader' = NewWriteLogFromReader(file)
    /\ UNCHANGED <<filevars, index, lockvars, wr, rd, ghosts, bounds>>

Next ==
    \/ \E t \in Writers : \/ WriteHeader(t) \/ WriteHeaderFails(t)
                          \/ WriteLog(t) \/ WriteRefused(t) \/ WriteLogFails(t)
                          \/ WriteIndexLock(t) \/ WriteIndex(t)
    \/ CloseWriter \/ CloseFooter
    \/ ReadStart \/ ReadLookup \/ ReadIO
    \/ Crash \/ Open

Spec == Init /\ [][Next]_vars

-----------------------------------------------------------------------------
(* Properties *)

Records == [logOffset : Nat, off : Addrs, len : 1..(MaxAddr + 1)]
CellKinds == {"magic", "header", "base", "offset", "data", "index", "end", "torn", "lost"}

\* The types, and that each lock is held exactly by the WriteAt call that is
\* between taking and releasing it.
WalTypeOK ==
    /\ \A i \in DOMAIN file : file[i].k \in CellKinds
    /\ offset \in Nat
    /\ closing \in {"open", "closing", "closed"}
    /\ header \in {"none", "ok", "failed"}
    /\ \A a \in Addrs : index[a] \in Records \cup {NoRec} /\ reader.index[a] \in Records \cup {NoRec}
    /\ \A t \in Writers : /\ wr[t].pc \in {"idle", "start", "logged", "indexing"}
                          /\ writeLock = t <=> wr[t].pc = "logged"
                          /\ indexLock = t <=> wr[t].pc = "indexing"
    /\ writeLock \in Writers \cup {NoThread} /\ indexLock \in Writers \cup {NoThread}
    /\ rd.pc \in {"idle", "lookup", "io", "done"}
    /\ reader.state \in {"none", "down", "open", "refused"}
    /\ tries \in 0..MaxWrites /\ failures \in 0..MaxFailures /\ reads \in 0..MaxReads

\* A read that overlaps writes, and drops indexLock while it reads the file,
\* returns for each address a value it had at some time during the read (while
\* no write has failed half-way).
ReadsCurrent ==
    (rd.pc = "done" /\ broken = 0) => \A i \in DOMAIN rd.buf : rd.buf[i] \in rd.seen[rd.first + i - 1]

\* The entries that survived whole, up to the first that did not.
IsIntact(e) ==
    /\ e.at + entryHeaderSize + e.len <= Len(file)
    /\ SubSeq(file, e.at + 1, e.at + entryHeaderSize + e.len) = makeLogEntry(e.id, e)
IntactPrefix ==
    IF Len(file) < 2 \/ SubSeq(file, 1, 2) # Header THEN 0
    ELSE Max({k \in 0..Len(hist) : \A i \in 1..k : IsIntact(hist[i])})

\* A log that opens after a crash (wal/reader.go:145) holds exactly the writes
\* before the first damaged entry, in their order; one whose footer survived
\* holds all of them, as the writer's index had them (if no write had failed
\* half-way).
RecoversPrefix ==
    (reader.state = "open" /\ broken = 0) =>
        \A a \in Addrs : ReadAt(reader.index, a)
            = Expected(a, IF reader.footer THEN Len(hist) ELSE IntactPrefix)

\* A log that was cut off at its end is used (block/write_log.go:54), with one
\* exception: NewReader returns the bare io.EOF when the log ends between the
\* base and the offset of an entry (wal/reader.go:198), and the device does not
\* open.  (A log whose header could not be written is refused too.)
CutLogOpens ==
    (reader.state = "refused" /\ \A i \in DOMAIN file : file[i].k # "lost") =>
        \/ header = "failed"
        \/ \E e \in {Len(file), Len(file) - 1} \cap DOMAIN file :
              /\ file[e].k = "base" /\ file[e].type = "data"
              /\ \A i \in (e + 1)..Len(file) : file[i].k = "torn"

\* "Make a record of the write so that it can be read back later"
\* (wal/writer.go:238): through the index, every address reads as the last
\* write in the order of the log, whatever writers overlap.  A write that fails
\* half-way does no harm to what was written before it: an address not written
\* since reads as before, from the running log and from a recovered one.
WritesReadBack ==
    LET sound == IF broken = 0 THEN Len(hist)
                 ELSE Cardinality({i \in DOMAIN hist : hist[i].at < broken})
        untouched(a, k, n) == \A i \in (k + 1)..n : ~Covers(hist[i], a)
    IN  /\ Running => \A a \in Addrs :
             untouched(a, sound, Indexed) =>
                 ReadAt(index, a) = Expected(a, Min({sound, Indexed}))
        /\ reader.state = "open" =>
             LET k == Min({sound, IntactPrefix})
             IN  \A a \in Addrs : untouched(a, k, Len(hist)) =>
                     ReadAt(reader.index, a) = Expected(a, k)
=============================================================================
