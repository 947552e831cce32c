# A TLA+ model of logblock2

logblock2 is a block device on top of a log-structured merge tree.  Writes go to
a write-ahead log; a log that has grown past a target is *rotated* (a new one
takes its place) and *compacted* into an immutable sparse table; a block index
says which file holds the current version of each block.  This directory models
the parts in which goroutines, files and crashes meet, checks them with TLC and
proves some of the results with TLAPS.

## The system

| component | state | operations | interacts with |
|---|---|---|---|
| `util.WaitBarrier` | current wait group | `Start`, `Done`, `Barrier` | locks of its users |
| `util.OneRunner` | `run`, `running`, condition variable | `Go`, `Run`, `Wait` | runs `compactWriter` |
| `tracker.Writer` | active log, pending logs, write count, two barriers | `WriteBlocks`, `Flush`, `PushNewLog`, `RemovePending`, `Close` | write logs, compaction goroutine, one closer goroutine per swapped log |
| `block.WriteLog`, `wal` | log file and its range map | write, read, freeze, flush, recover | log store |
| `tracker.Reader` | writers, pending readers, stack, compaction state, barrier | `ReadBlocks`, `PushWriter`, `PushReader`, `RemoveWriter`, `StartCompaction`, merge loop | `blockmap.Reader`, compaction goroutine |
| `blockmap.Reader` | range map of 16-bit values, value tables | push, remove, live counts, read | every file |
| `readers.StackedBlockReader` | a captured list of readers | `ReadBlocks` | logs, tables, index |
| `metadata.Metadata` | list of data files, oldest first | edits, `Save` | blob store |
| `block.BlockFile` | the trackers, metadata, next table number | open, read, write, flush, rotate, compact, close | everything above |
| `sparseblock`, `rangemap`, `adaptor` | table format, interval maps, addressing | build, load, read | sequential |
| `storage/local` | files | create, fsync, rename, remove | operating system |

Hard behaviour: a log captured by a write or a flush and swapped meanwhile;
reads that walk a stack whose files are merged, compacted and closed under them;
a crash between any two of: creating a log, saving the metadata, swapping,
publishing a table, saving again, deleting; a flush that races with the
compaction that retires its log; condition variables and barriers shared by
several goroutines; interval maps and a table format with many limits, met at
different times by sparse data.  `PROJECT.json` lists these hazards at their lines.

What makes the system correct: a read returns the last write; a crash loses
nothing but what the operating system had not been asked to keep, and nothing
that a `Flush` acknowledged; every file the metadata names exists; no closed
file is used; every wait ends; no file is left behind.

## Modules

* `BarrierSpec` - what a barrier promises: it waits for exactly the operations
  in flight when it was called.
* `WaitBarrier` - `util/wait_barrier.go`: wait groups handed from barrier to
  barrier.  Refines `BarrierSpec`; the refinement mapping computes, from the
  wait groups, whom each barrier still waits for.
* `OneRunner` - `util/one_runner.go`.
* `WriterTracker` - `tracker/writer.go` with the life of a write log.  It uses
  barriers through the promise: a wait is the set of calls still awaited.
  Handlers are cut at their locks: what happens under `pendingWritersLock` and
  `activeWriterLock` is one step, log writes, fsyncs and barrier waits are
  steps of their own.
* `WriterLocks` - extends `WriterTracker` with `pendingWritersLock`, which `Close`
  keeps at its first barrier, and cuts `Flush` between its two locks.
  `activeWriterLock` is always taken last and given back before any wait, so its
  sections stay single steps.  It implements `WriterTracker`
  (`LocksImplement`), which `BlockFile` builds on.
* `Metadata` - the edits of the list of data files.
* `BlockFile` - extends `WriterTracker` and `Metadata`: the whole device.  The
  files on disk (`logFiles`, `tables`, `diskMeta`, and the `entries` and
  `synced` of each log) survive `Kill` and `PowerLoss`; everything else is
  forgotten.  `pc` is the position of the one goroutine that opens, compacts
  and closes.  Contents are versions; ghost variables remember the last version
  written (`cur`), acknowledged (`acked`) and promised by a flush (`flushed`).
  Reads do not take time here: `MemView` is what a read would return.
* `BlockDevice` - what a block device promises, in four actions: a read returns
  the last write, a flush vouches for what it covers, a power failure loses no
  more than what was not vouched for.  `BlockFile` implements it
  (`ImplementsDevice`): the version a read returns is what memory gives while
  the device is open and what recovery would give while it is not, so that a
  kill, opening, rotating, compacting and closing are all stutters.
* `ReaderTracker` - `tracker/reader.go`, `blockmap/reader.go` and
  `readers/stacked_block_reader.go` in small steps: a read asks each layer of
  its captured stack two questions, then reads it; adding a file to the index
  is one step per block; sleeping on the condition variable is explicit.  The
  lists behave as in `BlockFile`, where merging is a single step.
* `Wal` - `wal/writer.go` and `wal/reader.go`, one log on its own.  The file is
  a sequence of cells, the pieces the reader asks for at a time; a checksum is
  the list of cells it covers.  `WriteAt` is cut at its locks (`writeLock` for
  the file, `indexLock` for the index, the second taken before the first is
  released); `CloseWriter` and `ReadAtFrom` take `indexLock` on their own.
  `Crash` leaves a prefix of the file, maybe with a torn cell or a page of
  zeros, and `Open` runs `NewReader` on it.  The range map is a function of the
  address.  `BlockFile`'s assumption that a log recovers to a prefix of its
  records is `RecoversPrefix` here.
* `ExtentRangeMap`, `BitmapRangeMap` - the two maps of `rangemap`, as operators:
  a set of extents; leaves with a bit set of the full and one of the non-empty
  ones.
* `SparseBlock` - the table format: the builder's entries and ranges and its copy
  through a buffer, the reader's search and its reads.
* `Adaptor` - byte ranges on top of blocks.
* `DataPath` - composes these four with the contents of `blockmap.Reader` and
  `StackedBlockReader`.  Where `BlockFile` and `ReaderTracker` take a log, a
  table or the index to be the function it stands for, here the structures are
  at work, next to the functions (`content`, `where`, `ref`) they are compared
  with.  A byte is the version of its block and its position in it, so that a
  misplaced copy shows.  Rotation and merge, whose steps the other modules have,
  are single steps, and a compaction is three (build, install, remove what is
  unused); a read is cut at the questions it asks, and `ends` is the stack of
  its recursive calls.  Which tables join a compaction
  is left open.  Maps, index and tables count in blocks, where the code scales
  their positions to bytes; bytes appear where it copies or cuts inside a block.
* `MC_*` - instances for TLC.
* `WaitBarrier_proofs`, `OneRunner_proofs`, `WriterTracker_proofs` (with
  `WriterLocks`), `ReaderTracker_proofs`, `BlockFile_proofs`, `Wal_proofs` - the
  theorems about these modules.
  `BlockContents_proofs` - what a device reads and recovers, on top of
  `BlockFile_proofs`.  `ReadsFresh_proofs` - the freshness of reads, on top
  of `ReaderTracker_proofs`.

Operators whose comment begins "Mutated form" are deliberately wrong variants,
used to show that the properties notice such a mistake; no specification uses
them.

## Runs

| run | question | bounds |
|---|---|---|
| `wait_barrier` | barriers overlap, return in order, keep the promise | 3 operations, 3 barriers, 5 wait groups: three barriers in a chain and reuse |
| `one_runner` | one at a time, no request lost, `Wait` returns | 3 callers, 2 threads, 4 calls |
| `writer_tracker` | captured logs, frozen logs, use after removal, no circular wait through barriers or locks (`WriterLocks`) | 3 logs, 3 blocks written once each, 1 flusher: a log swapped and dropped while calls on it and its successor run |
| `block_file_compact` | memory and disk always give the last write; nothing left over | 3 blocks, 7 writes, one call at a time: the smallest instance in which a table with an overwritten block is rewritten |
| `block_file_crash` | the same, with a crash anywhere | 2 blocks, 6 writes, 1 crash, 4 log names: two tables before the crash and one after |
| `block_file_flush` | a flush is durable; the whole is a `BlockDevice` | 1 block, 4 writes, 1 flusher, 1 crash |
| `block_file_window` | a flush while `RemovePending` waits (violated) | 2 blocks, 4 writes, 1 flusher |
| `block_file_live` | logs are rotated, compactions end, shutdowns leave no file | 1 block, 5 writes, 5 log names: a third request while the second is served; 1 shutdown and 1 crash |
| `reader_tracker` | reads are fresh and never use a closed file; the index is sound and frozen | 3 logs, 3 tables, 2 blocks, 1 client, 1 recovered file |
| `reader_tracker_live` | no wakeup is lost | 2 logs, 2 tables, 1 block, 1 client |
| `wal` | one log: what can be read back, what a cut or damaged log recovers to | 2 writers, 3 writes to 3 addresses (a write can leave both ends of another), 1 failed write, 1 read of 2 addresses or more, 1 crash |
| `data_path` | maps, index, tables and reads are what they stand for | 6 blocks of 2 bytes, leaves of 2 keys, entries of 2 blocks, ranges of 2 entries and offsets up to 4, a buffer of 3 bytes: every limit is reached; 3 writes of 4 shapes, 5 files (two compactions), a request that begins inside a block and ends behind the device and one for the whole device, 2 other steps while it runs |

Logs, blocks, flushers, writers and clients are symmetric and interchangeable; liveness
runs use no symmetry.  Bounds are CONSTANTS (`MaxVersion`, `MaxWrites`,
`MaxSeq`, `MaxCrashes`, `MaxCloses`, `MaxRecovered`, `MaxIv`, `MaxGen`,
`MaxCalls`, in `Wal` `MaxAddr`, `MaxFailures`, `MaxReads`, `MinRead`, in
`DataPath` `MaxFiles`, `MaxDuring`, `Runs`, `Requests`).  A deleted log's name may come back, so few names suffice.

### Results

All runs but one pass.  In particular:

* The metadata order the TODO at `block/block_file.go:371` worries about is
  safe: all logs but the active one are compacted together, so tables always
  precede logs in the list.
* `BlockFile` implements `BlockDevice` with writes, flushes and a kill or power
  failure in the middle of anything, for every flush that begins outside the
  window described below.
* `tracker.Writer` has no circular wait, through barriers or mutexes:
  `NoCircularWait` says that the calls a swap, a removal or a close waits for are
  running, wait at no barrier and are past both locks.  The order of the locks in
  `Flush` is what it rests on: a `Flush` that joined the barrier of the active log
  before it had `pendingWritersLock` could be awaited by a `Close` that holds that
  lock (the mutated form `LFlushActiveFirst`).  `LogsRotated` adds, without
  flushers and with barriers only, that rotations and shutdowns end.
* Every limit of the table format and of the maps can be reached in any order of
  writes, overwrites and compactions without a block being lost or misplaced; a
  read that is split between layers while the log is written gives each block
  some version it had during the read, though not one moment's versions of all.
* The write count of the comment at `block/block_file.go:487` is used to decide
  whether to rotate (`CompactWriterCheck`) and is never negative.

`block_file_window` is violated: `RemovePending` drops a swapped log from the
pending list and only then waits for the goroutine that fsyncs it.  A `Flush`
that begins in between finds neither the log nor the closer to wait for; it
returns while writes acknowledged before it are in a log that is not on stable
storage, and the stored metadata does not name the table yet.  A power failure
loses them.  `CountWindowFlushes = FALSE` leaves such flushes out of the promise,
and `block_file_flush` shows that no other flush has this problem.

Two weak spots of the log format show in what the properties of `wal` have to
leave out:

* `CutLogOpens` has an exception.  A log cut right after the 8-byte base of an
  entry, or inside the 8-byte offset behind it, makes `NewReader` return the
  bare `io.EOF` of its `Peek` where every other cut gives `ErrUnexpectedEOF`;
  `NewWriteLogFromReader` forgives only the latter, so the device does not open.
* `WritesReadBack` promises nothing for writes after one that failed half-way:
  the failure leaves `w.offset` behind the end of the file, and later writes,
  which succeed, are indexed at the wrong place.  What was written before the
  failure stays readable.  Writes fail at the end of a cell in the model; a
  failure inside a cell garbles the rest of the file in the same way.

An index read from the footer is trusted without looking at the entries.
`RecoversPrefix` therefore speaks of where the data of each address is: a page
of unflushed data that a power failure lost, while it kept the footer, reads as
zeros.

The run of `Wal` does not check for deadlock: a log that is closed, or recovered,
has nothing left to do.  `LiveBlocks` and the other walks over the index are
whole in `DataPath`: they hold the index lock.  A read through the index drops
that lock between files; the run takes it as one step, and `ReaderTracker` has
the interleaving.

## Fairness

Weak fairness of each goroutine: a started write, read or flush goes on (files
can be read and written), the closers, the merge loop and the compaction
goroutine run.  Clients need not call anything, and nobody has to crash.  Go's
scheduler and mutexes, which do not starve a goroutine, justify this; no strong
fairness is assumed.  `WaitBarrier` needs fairness only of the return from
`Wait`: the promise says nothing if an operation never calls `Done`.

## Proofs

Proved for all values of the constants:

* `WaitBarrier_proofs`: `TypeCorrect`; `OrderCorrect` - the conjunction of
  *counters are exact*, *a replaced wait group that is in use is guarded by the
  barrier that replaced it* and *later wait groups stay occupied as long as an
  earlier one is* is inductive together with the type invariant; `KeepsPromise`
  - each step is a step of `BarrierSpec` or a stutter, which needs the third
  fact to know that a barrier that can return has nothing earlier to wait for;
  `NoRace`.
* `OneRunner_proofs`: `RunnerCorrect` - mutual exclusion alone is not inductive;
  it is proved with the exact meaning of `running` and with the fact that a
  request always has a goroutine that will look at it.  `RunnerExclusive` is the
  mutual exclusion on its own.
* `WriterTracker_proofs`: `WTypeCorrect`, `WaitsCorrect` (barriers only), `WritesAccepted`,
  `RemovedUnused` and `SwappedCorrect`, from one invariant `WInv`.  Each of the
  properties speaks of a log somebody uses; what keeps it usable is somewhere
  else, so `WInv` says who holds each log: a write's log is the active one, or
  the one a `PushNewLog` or a `Close` that waits for this write is replacing; a
  flush's logs are in the lists, or a `RemovePending` waits for the flush; a
  closer's log is pending, or the removal or `Close` waits for the closer.  The
  phases of the three waiting calls exclude each other.  `LocksImplement` and
  `NobodyStuck` add the mutexes, from `LInv`: who holds `pendingWritersLock`, and
  that while a `Flush` is between its locks the list it copied is still the list
  and `Close` has not begun.
* `ReaderTracker_proofs`: `RTypeCorrect`, `ClosedUnread`, `IndexCorrect` and
  `FrozenCorrect`, from `RInv`.  It adds the shape of `m.writers` in each phase
  of a rotation, where the merge loop is in the list it copied, that index
  values and pushed files are one to one, that what compaction is about to close
  has no live block, and that `RemoveUnusedReader` waits for every read that
  captured the file before it was taken out of the index.  It rests on lemmas
  about what the loop of `slices.DeleteFunc` leaves of a list of any length.
  The loop is a recursive function; that it is well defined and that its result
  keeps order and multiplicity are inductions over the length, written as least
  counterexamples because the library's induction rules cannot be instantiated.
* `ReadsFresh_proofs`: `FreshReads`, that no read is stale.  `FInv` adds to
  `RInv` how versions lie in the files: the logs being written, the pending
  readers, the merge loop's copy and the index are ordered by age (`Newer`,
  `PendingOrder`, `WritersOrder`, `MergeOrder`); the index is older than
  everything not merged and not older than anything merged (`IndexBelow`,
  `IndexAbove`), with the exception, block by block, of the file being added;
  the table of a compaction holds what the index has (`TableSame`); the last
  version of a block is in a layer, or no layer has the block and it is in the
  index (`LastHeld`).  So the first layer of a captured stack that has the block
  is fresh enough, and this stays so until the read gets there (`FirstFresh`),
  although the layers below are merged, replaced and removed meanwhile.

* `BlockFile_proofs`: `BTypeCorrect`, `FilesCorrect`, `TablesKept` and
  `TrackerInDevice`, from `BInv`.  That the files of the metadata exist is not
  inductive: a deletion must not hit a file that is still named, so what a
  compaction or `Close` is about to delete is in neither list (`JobHeld`); it
  was taken out by removing one entry, so no list has a file twice
  (`ListsDistinct`); and so the entry that is added, a new log or a new table,
  was not there, because listed files exist and have smaller numbers than the
  next table (`FilesExist`, `SeqFresh`).  Numbers grow while a process runs and
  start after those of the stored list when one is opened; the readers of the
  new process come from that list.  `WInv` holds in the device because each of
  its steps is a step of the tracker (`TrackerStep`), the end of the process, or
  the opening, after which the recovered logs are pending, each once.  The
  lemmas about `Metadata` say what each edit does to the files of a list; those
  about its loops (`RemoveAll`, `LogNames`) are inductions written as least
  counterexamples.
* `BlockContents_proofs`: `LosesNothing`, that a killed process leaves the last
  write of every block in the files its metadata names, and `ReadsCorrect`, that
  an open device reads it.  `CInv` adds to `BInv` the order that both rest on: a
  log's records get newer (`RecordsOrder`), a file is not older than those listed
  before it and logs come after tables (`ListOrder`), and the last version of a
  block is in a listed file (`ListHolds`).  That order survives only because the
  logs being written are at the end of the list (`ListEnd`) and a new log is
  empty until it is listed and active (`NewLog`); because a compaction removes
  every log but the active one and its table has all their blocks (`NewTable`,
  `LogMembers`); and because a write that still goes to the log that a rotation
  has replaced finds nothing of its block in the new log (`LateWrites`), a client
  having one write per block in flight.  In memory, the stack and the index have the listed files,
  but for a new one (`Members`), the stack is in the order of the list
  (`StackOrder`, `WritersShape`) and the index has the newest version of what it
  covers (`IndexTop`).  `TablesFilled`, that no table is built from nothing, adds
  `LogsFilled`: the count that starts a rotation stands for records of the active
  log, because every late write to the log before it is counted before
  `PushNewLog` resets the count.  It holds for any target size and any number of
  concurrent calls, of which the runs of this property have one.

  `FlushesKept`, that what a `Flush` vouched for survives a power failure, and
  `DeviceImplemented`, that every step is a step of `BlockDevice` or a stutter,
  are proved from `DInv`, which follows a version from the write to the disk: it
  is `Durable` (fsynced, or in a table, of a listed file) or in a log of this
  session that somebody will fsync.  For an acknowledged write that log is one of
  the tracker's (`AckedSafe`), so a flush that begins finds it; for a flush under
  way it is one of those the flush has still to do (`NeedSafe`); a log that
  leaves the tracker's lists has been fsynced by its closer (`ClosedSynced`) and
  stays listed until the table that replaces it is (`RemovedListed`).  The step
  in between is the one that fails in the run `block_file_window`: both theorems
  have `~CountWindowFlushes` as a hypothesis, that is, they do not count what a
  flush vouches for when it begins in that window.  A crash leaves nothing newer
  than the last write and nothing older than the last flush (`CutBack`), which
  is what `BlockDevice` allows.

  `NothingLeft` rests on `Accounted`: until the first crash, a file that the
  metadata does not name is the new log or table that the next save will name,
  or is in the list of files that the step at hand deletes.

* `Wal_proofs`: `WalTypes`, `ReadsAreCurrent`, `LogReadsBack`,
  `PrefixRecovered` and `OnlyBareEOFRefused`, from `WalInv`.  What an address
  reads as depends on where the index leads in the file and on what is there, so
  the invariant has both.  `Layout`: each completed entry lies in the file at the
  place the history gives it; the entries up to the first half-written one
  (`SoundTo`) follow each other from the header on, which is why the loop of
  `NewReader`, that only ever adds lengths, finds each of them; and the cell at
  which a half-written entry breaks off is the base of what was written next or
  the end, never a cell its checksum could cover (`Partial`).  `Matches`: the
  index has, for each address, the record of the last entry that covers it,
  among those whose `WriteAt` has updated the index; with the wrong place in the
  file for entries behind a half-written one, because the offset was not
  advanced.  `Calls`: a `WriteAt` between its two locks wrote the last entry, or
  the last but one if it holds `indexLock` and another has written since: this
  is what taking the second lock before releasing the first is for.  `Reading`:
  what `ReadAtFrom` has read, and what it is about to read without the lock, are
  values the addresses had since it began.  After a crash the file is a cut and
  damaged form of such a file (`Damaged`); the invariant says no more than that
  and that the log was opened from it, and the recovery lemmas do the rest: an
  entry is accepted if and only if all of its cells are there (`LoopEntry`),
  nothing behind the last sound entry is (`LoopEnd`), so the loop stops at the
  first entry that is not intact (`LoopRecovers`); a footer that is accepted is
  the one that was written, and its adjusted records lead to the same cells as
  the index it was made from (`FooterIndex`).  The loop, the fold that builds an
  index (`AddAll`) and the sorted list of extents are each unfolded by a least
  counterexample.

The assumptions are those the modules state of their constants: nil is not a
log or file, logs and tables are different files, the bounds are natural
numbers, a device has finitely many blocks.  Each invariant was first checked by
TLC on the module's run (`CInv`, whose state space is too large for that once
every conjunct is evaluated, on all behaviours of some fifty steps; of `WalInv`
the part that describes a running log, on a run without crashes, as the part for
a damaged file quantifies over all files).

Model-checked only:

* liveness in every module (the prover has no fairness), the liveness part of
  `BarrierSpec` included;
* `DataPath`.  The contents of its tables and range maps are recursive functions
  or folds; each needs its own induction over data before an invariant can
  mention it.

## Not modelled

* User data that happens to look like the footer of a log.
* I/O errors, other than of log writes in `Wal`: most end in a panic, that is, a
  crash at the same point; an fsync error in `Flush` is only logged.
* Directory entries are taken to be durable once created or renamed, although
  `storage/local` does not fsync directories.
* The inside of `storage/local`: a blob is written to a temporary file, fsynced
  and renamed by one goroutine, and the context that could cancel it ends only
  afterwards.  `BlockFile` publishes it in one step.  The cloud store is a
  library's.
* Data recovered from a killed process and still in the page cache is never
  fsynced by a later `Flush`; a flush is held to its own session.
* `Trim` (no caller; `wal.NewReader` panics on it), `MaxDataSize` of the table
  builder (never set), `Begin` of the maps (no caller), damaged tables (they are
  published whole), protobuf encoding.
* Sizes: the 2^48 blocks of a table, the 65535 values of the index and the other
  limits that end in a panic by design.
* Requests that are not aligned are refused on the write path; the models do not
  issue them.
* The NBD server (external): it bounds concurrent calls and has stopped before
  `Close`.  A `Flush` that began after `Close` would not be waited for, and could
  meet closed logs; the models do not issue one.  A client has one write per block in flight.
* Flag parsing, size parsing, formatting and test helpers.

## Plan

1. Proofs: the range maps and tables of `DataPath`.
2. A blob store with its temporary files and error paths.
