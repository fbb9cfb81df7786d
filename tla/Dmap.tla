-------------------------------- MODULE Dmap --------------------------------
(***************************************************************************)
(* The free-block bitmap of the container (src/src/Dmap.cpp).              *)
(*                                                                         *)
(* The bitmap is a function from block numbers to BOOLEAN (TRUE is "used") *)
(* and a cursor, nextBlock, where the next search for free blocks begins.  *)
(* The two loops of findNFreeBlocks are given here by what they return;    *)
(* DmapLoops.tla has the loops themselves and compares the two.            *)
(***************************************************************************)
EXTENDS Container, FiniteSets

ASSUME DmapAssumption ==
    /\ CONTAINER_BLOCKS \in Nat
    /\ DATA_START \in 1..(CONTAINER_BLOCKS - 1)

\* Dmap::init: the metadata blocks are used, every other block is free.
InitialFlags == [b \in Blocks |-> b < DATA_START]

InitialNextBlock == DATA_START % CONTAINER_BLOCKS

FreeBlocks(flags) == {b \in Blocks : ~flags[b]}

countFreeBlocks(flags) == Cardinality(FreeBlocks(flags))

\* When the search that begins at nextBlock and wraps around reaches block b.
ScanPosition(nextBlock, b) ==
    IF b >= nextBlock THEN b - nextBlock ELSE b - nextBlock + CONTAINER_BLOCKS

\* s lists free blocks in the order of the search, and leaves none of them out.
InScanOrder(flags, nextBlock, s) ==
    \A i \in DOMAIN s :
        {b \in FreeBlocks(flags) :
            ScanPosition(nextBlock, b) < ScanPosition(nextBlock, s[i])}
        = {s[j] : j \in 1..(i - 1)}

\* The search throws when there are fewer than n free blocks.
CanFind(flags, n) == n <= countFreeBlocks(flags)

\* The search when it returns the block before each it found (a mutant).
FindsOneBefore(flags, nextBlock, n) ==
    LET s == CHOOSE s \in [1..n -> FreeBlocks(flags)] : InScanOrder(flags, nextBlock, s)
    IN  [i \in 1..n |-> s[i] - 1]

\* The first n free blocks the search meets.
findNFreeBlocks(flags, nextBlock, n) ==
    CHOOSE s \in [1..n -> FreeBlocks(flags)] : InScanOrder(flags, nextBlock, s)

\* A cursor that wraps around into the metadata (a mutant).
CursorUnclamped(s) == (s[Len(s)] + 1) % CONTAINER_BLOCKS

\* The cursor after a search that found the blocks of s, its last one last.
CursorAfter(s) ==
    LET next == (s[Len(s)] + 1) % CONTAINER_BLOCKS
    IN  IF next < DATA_START THEN DATA_START ELSE next

\* A write or truncate that forgets to mark what it found (a mutant).
MarkNothing(flags, S) == flags

\* markUsed and markFree, for every block of a set.
markUsed(flags, S) == [b \in Blocks |-> flags[b] \/ b \in S]

markFree(flags, S) == [b \in Blocks |-> flags[b] /\ b \notin S]
=============================================================================
