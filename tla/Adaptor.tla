------------------------------ MODULE Adaptor -------------------------------
(***************************************************************************)
(* adaptor/io_reader.go: byte addressing on top of a reader of blocks.     *)
(* The reader is given by what its operations return: ReadBlocks[off, n]   *)
(* is the sequence of the bytes of the blocks it could read, NextBlockData *)
(* and NextBlockHole are those of t.BlockHoley.                            *)
(***************************************************************************)
EXTENDS Integers, Sequences, FiniteSetsExt

CONSTANT BlockSize

EOF == -1

\* The blocks a byte range touches.
startBlock(off) == off \div BlockSize
endBlock(off, n) == (off + n + BlockSize - 1) \div BlockSize
Aligned(off, n) == off % BlockSize = 0 /\ n % BlockSize = 0

\* The bytes of the blocks read, from the offset inside the first one.
Cut(buf, off, n) ==
    LET skip == Min({off % BlockSize, Len(buf)})
    IN  SubSeq(buf, skip + 1, Min({Len(buf), skip + n}))

\* Reader.ReadAt: an unaligned range is cut out of the blocks it touches.
ReadAt(ReadBlocks, off, n) ==
    IF Aligned(off, n) THEN ReadBlocks[off \div BlockSize, n \div BlockSize]
    ELSE Cut(ReadBlocks[startBlock(off), endBlock(off, n) - startBlock(off)], off, n)

\* HoleReader: an offset inside the block that is found stays as it is.
NextData(NextBlockData, off) ==
    LET next == NextBlockData[startBlock(off)] IN
    IF next = EOF THEN EOF ELSE IF next = startBlock(off) THEN off ELSE next * BlockSize

NextHole(NextBlockHole, off) ==
    LET next == NextBlockHole[startBlock(off)] IN
    IF next = startBlock(off) THEN off ELSE next * BlockSize
=============================================================================
