------------------------------ MODULE Transfer -------------------------------
(***************************************************************************)
(* How fuseRead and fuseWrite move bytes (src/src/myondiskfs.cpp): through *)
(* the one-block cache of an open handle at both ends, and past it in      *)
(* between.  Bytes are "cells", BLOCK_SIZE of them to a block.             *)
(*                                                                         *)
(* The operators take a record [file, disk] of an open handle and the      *)
(* container, and return the new one.  The data loops are given here by    *)
(* what they do; TransferLoops.tla has the loops and compares the two.     *)
(***************************************************************************)
EXTENDS Fat

CONSTANTS BLOCK_SIZE, Cells     \* Cells: the values of a byte

ASSUME TransferAssumption == BLOCK_SIZE \in Nat \ {0}

Positions == 0..(BLOCK_SIZE - 1)
BlockData == [Positions -> Cells]

Disks == [Blocks -> BlockData]

\* struct OpenFile.
OpenFile == [isFree : BOOLEAN, dirty : BOOLEAN, blockNo : Links,
             buffer : BlockData, blockList : BlockLists]

\* Division of an off_t into a uint32_t.
BlockIndex(offset) == (offset \div BLOCK_SIZE) % WORD

\* A flush that leaves the block marked dirty (a mutant).
FlushLeavesDirty(c) ==
    IF c.file.dirty THEN [c EXCEPT !.disk[c.file.blockNo] = c.file.buffer] ELSE c

\* A flush that writes to the block behind (a mutant).
FlushNextBlock(c) ==
    IF c.file.dirty
    THEN [c EXCEPT !.file.dirty = FALSE,
                   !.disk[(c.file.blockNo + 1) % CONTAINER_BLOCKS] = c.file.buffer]
    ELSE c

flushCache(c) ==
    IF c.file.dirty
    THEN [file |-> [c.file EXCEPT !.dirty = FALSE],
          disk |-> [c.disk EXCEPT ![c.file.blockNo] = c.file.buffer]]
    ELSE c

\* Loading a block without flushing the one it replaces, or without reading
\* the new one (two mutants).
CacheDropsDirty(c, b) ==
    IF c.file.blockNo = b THEN c
    ELSE [c EXCEPT !.file.blockNo = b, !.file.buffer = c.disk[b], !.file.dirty = FALSE]

CacheKeepsBuffer(c, b) ==
    IF c.file.blockNo = b THEN c ELSE [flushCache(c) EXCEPT !.file.blockNo = b]

cacheBlock(c, b) ==
    IF c.file.blockNo = b THEN c
    ELSE LET clean == flushCache(c)
         IN  [file |-> [clean.file EXCEPT !.blockNo = b, !.buffer = clean.disk[b]],
              disk |-> clean.disk]

\* std::copy_n of part into the buffer, from position `at`.
FillBuffer(c, at, part) ==
    LET bytes == [p \in Positions |->
            IF p >= at /\ p < at + Len(part) THEN part[p - at + 1]
                                             ELSE c.file.buffer[p]]
    IN  [file |-> [c.file EXCEPT !.buffer = bytes, !.dirty = TRUE], disk |-> c.disk]

\* How a transfer of n bytes at an offset is cut: the bytes in its first
\* block, and the full blocks that go past the cache.  "Last" is what remains
\* of it, at most one block.
HeadSize(offset, n) ==
    LET room == BLOCK_SIZE - (offset % BLOCK_SIZE) IN IF n < room THEN n ELSE room

MiddleBlocks(offset, n) ==
    LET rest == n - HeadSize(offset, n)
    IN  IF rest = 0 THEN 0 ELSE (rest - 1) \div BLOCK_SIZE

\* The blocks a transfer touches, the first included.
BlocksTouched(offset, n) ==
    IF n = HeadSize(offset, n) THEN 1 ELSE MiddleBlocks(offset, n) + 2

\* The data loop of fuseWrite, into the blocks of c.file.blockList from the
\* one with (one-based) index `first`.
WriteData(c, first, offset, data) ==
    LET list == c.file.blockList
        head == HeadSize(offset, Len(data))
        middle == MiddleBlocks(offset, Len(data))
        done == head + middle * BLOCK_SIZE
        inHead == FillBuffer(cacheBlock(c, list[first]), offset % BLOCK_SIZE,
                             SubSeq(data, 1, head))
        Block(k) == [p \in Positions |-> data[head + (k - 1) * BLOCK_SIZE + p + 1]]
        Last(b) == CHOOSE k \in 1..middle :
                      /\ list[first + k] = b
                      /\ \A l \in (k + 1)..middle : list[first + l] # b
        inMiddle == [file |-> inHead.file,
                     disk |-> [b \in Blocks |->
                                 IF \E k \in 1..middle : list[first + k] = b
                                 THEN Block(Last(b)) ELSE inHead.disk[b]]]
    IN  IF done = Len(data) THEN inMiddle
        ELSE FillBuffer(cacheBlock(inMiddle, list[first + middle + 1]), 0,
                        SubSeq(data, done + 1, Len(data)))

\* The data loop of fuseRead, as the handle it leaves and the n bytes it found.
ReadData(c, first, offset, n) ==
    LET list == c.file.blockList
        middle == MiddleBlocks(offset, n)
        atHead == cacheBlock(c, list[first])
        atLast == IF BlocksTouched(offset, n) = 1 THEN atHead
                  ELSE cacheBlock(atHead, list[first + middle + 1])
        Cell(at) ==
            LET k == at \div BLOCK_SIZE - offset \div BLOCK_SIZE
                p == at % BLOCK_SIZE
            IN  IF k = 0 THEN atHead.file.buffer[p]
                ELSE IF k <= middle THEN atHead.disk[list[first + k]][p]
                ELSE atLast.file.buffer[p]
    IN  [cache |-> atLast, data |-> [j \in 1..n |-> Cell(offset + j - 1)]]
=============================================================================
