------------------------------ MODULE MCLoops -------------------------------
(***************************************************************************)
(* The container and the files of the transfers that TLC looks at.         *)
(***************************************************************************)
EXTENDS Loops

\* Every byte stored or written has a value of its own, and a last block of
\* values is nowhere in the container.
StoredCells == CONTAINER_BLOCKS * BLOCK_SIZE
BlockFrom(first) == [p \in 0..(BLOCK_SIZE - 1) |-> first + p]

MCCells == 0..(2 * StoredCells + BLOCK_SIZE)
MCStored == [b \in 0..(CONTAINER_BLOCKS - 1) |-> BlockFrom(b * BLOCK_SIZE)]
MCOther == BlockFrom(StoredCells)
MCWritten == [k \in 1..StoredCells |-> StoredCells + BLOCK_SIZE + k]

\* The blocks of a file, and a shorter file has the first of them: which ones
\* they are makes no difference to a transfer.
LongestList == <<3, 1, 4, 2>>
MCLists == {SubSeq(LongestList, 1, k) : k \in 1..Len(LongestList)}
=============================================================================
