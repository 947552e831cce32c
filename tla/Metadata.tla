------------------------------ MODULE Metadata ------------------------------
(***************************************************************************)
(* metadata/metadata.go.  The metadata of a device is the list of its data *)
(* files, oldest first; each is a write log or a sparse table.  The        *)
(* operations edit the list in memory, Save replaces the stored one.       *)
(***************************************************************************)
EXTENDS Naturals, Sequences, SequencesExt

LogFile(l) == [type |-> "log", name |-> l]
TableFile(s) == [type |-> "table", name |-> s]

PushWriteLog(files, l) == Append(files, LogFile(l))

\* The first such entry is removed; if there is none an error is logged.
RemoveWriteLog(files, l) == RemoveFirst(files, LogFile(l))
RemoveSparseDataFile(files, s) == RemoveFirst(files, TableFile(s))

\* A compacted log's entry becomes the entry of the table, in its place.  (The
\* code replaces the first match; no list has a log twice.)
CompactWriteLog(files, l, s) ==
    [i \in DOMAIN files |-> IF files[i] = LogFile(l) THEN TableFile(s) ELSE files[i]]

\* The edits of removeUnusedTables, in any order.
RemoveAll(files, unused) ==
    LET Drop(e, fs) == IF e.type = "log" THEN RemoveWriteLog(fs, e.name)
                       ELSE RemoveSparseDataFile(fs, e.name)
    IN  FoldSet(Drop, files, unused)

\* What OpenBlockFileWithOptions reads out of the list.
FileSet(files) == {files[i] : i \in DOMAIN files}
LogsOf(files) == {e.name : e \in {x \in FileSet(files) : x.type = "log"}}
TablesOf(files) == {e.name : e \in {x \in FileSet(files) : x.type = "table"}}
LogNames(files) ==
    LET names[i \in 0..Len(files)] ==
            IF i = 0 THEN <<>>
            ELSE IF files[i].type = "log" THEN Append(names[i - 1], files[i].name)
            ELSE names[i - 1]
    IN  names[Len(files)]
=============================================================================
