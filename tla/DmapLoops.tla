----------------------------- MODULE DmapLoops ------------------------------
(***************************************************************************)
(* The two loops of Dmap::findNFreeBlocks, one step per block they look at,*)
(* from every bitmap, cursor and request.  They are compared with what     *)
(* Dmap.tla says the function returns, which is what OnDiskFS uses.        *)
(***************************************************************************)
EXTENDS Dmap

VARIABLES
    flags, nextBlock,   \* of the Dmap
    wanted,             \* the argument n
    nextBlockOld, block, freeBlocks,    \* the locals
    pc,
    entry               \* flags and nextBlock at the call

vars == <<flags, nextBlock, wanted, nextBlockOld, block, freeBlocks, pc, entry>>

\* Any call on a bitmap whose metadata blocks are used.  A cursor that has
\* been read from a container may stand before the data blocks.
Init ==
    /\ flags \in {f \in [Blocks -> BOOLEAN] : \A b \in Blocks \ DataBlocks : f[b]}
    /\ nextBlock \in Blocks
    /\ wanted \in 1..(CONTAINER_BLOCKS + 1)
    /\ nextBlockOld = nextBlock
    /\ block = nextBlock
    /\ freeBlocks = <<>>
    /\ pc = "scanUp"
    /\ entry = [flags |-> flags, nextBlock |-> nextBlock]

AtLeast(a, b) == IF a < b THEN b ELSE a

\* The update of the cursor without std::max (a mutant).
AdvancedUnclamped == block % CONTAINER_BLOCKS

\* nextBlock = std::max(block % flags.size(), dataStart)
Advanced == AtLeast(block % CONTAINER_BLOCKS, DATA_START)

\* One turn of a loop that stops at `end`.
Look(end) ==
    /\ block < end /\ Len(freeBlocks) < wanted
    /\ freeBlocks' = IF flags[block] THEN freeBlocks ELSE Append(freeBlocks, block)
    /\ block' = block + 1
    /\ UNCHANGED <<flags, nextBlock, wanted, nextBlockOld, pc, entry>>

\* A loop that looks for one block more than there is (a mutant).
LoopEndsLate(end) == block > end \/ Len(freeBlocks) >= wanted

LoopEnds(end) == block >= end \/ Len(freeBlocks) >= wanted

\* From the cursor to the end of the bitmap.
ScanUp == pc = "scanUp" /\ Look(CONTAINER_BLOCKS)

\* The first update of the cursor without its condition (a mutant).
CursorMovedAlways == Advanced

\* The first update of the cursor, when its loop has found all.
CursorAfterScanUp == IF Len(freeBlocks) = wanted THEN Advanced ELSE nextBlock

WrapAround ==
    /\ pc = "scanUp" /\ LoopEnds(CONTAINER_BLOCKS)
    /\ nextBlock' = CursorAfterScanUp
    /\ block' = 0
    /\ pc' = "scanWrapped"
    /\ UNCHANGED <<flags, wanted, nextBlockOld, freeBlocks, entry>>

\* From the beginning to where the cursor was.
ScanWrapped == pc = "scanWrapped" /\ Look(nextBlockOld)

Throw ==
    /\ pc = "scanWrapped" /\ LoopEnds(nextBlockOld) /\ Len(freeBlocks) < wanted
    /\ pc' = "thrown"
    /\ UNCHANGED <<flags, nextBlock, wanted, nextBlockOld, block, freeBlocks, entry>>

\* The second update, when the second loop has looked at a block.
Finish ==
    /\ pc = "scanWrapped" /\ LoopEnds(nextBlockOld) /\ Len(freeBlocks) >= wanted
    /\ nextBlock' = IF block > 0 THEN Advanced ELSE nextBlock
    /\ pc' = "returned"
    /\ UNCHANGED <<flags, wanted, nextBlockOld, block, freeBlocks, entry>>

Next == ScanUp \/ WrapAround \/ ScanWrapped \/ Throw \/ Finish

\* The loops are plain code: they run on.
Spec == Init /\ [][Next]_vars /\ WF_vars(Next)

\* A result has the blocks and the order that findNFreeBlocks of Dmap.tla
\* gives, and leaves the cursor where CursorAfter does: the two updates of the
\* cursor, one behind each loop, never undo one another.
ReturnsWhatDmapSays ==
    pc = "returned" =>
        /\ CanFind(entry.flags, wanted)
        /\ freeBlocks = findNFreeBlocks(entry.flags, entry.nextBlock, wanted)
        /\ nextBlock = CursorAfter(freeBlocks)

\* The exception comes exactly when there are too few free blocks, and leaves
\* the Dmap as it was, so that a caller may answer ENOSPC and go on.
ThrowChangesNothing ==
    pc = "thrown" => /\ ~CanFind(entry.flags, wanted)
                     /\ flags = entry.flags /\ nextBlock = entry.nextBlock

\* The search ends, with a result whenever there is one to be had.
SearchEnds ==
    /\ pc = "scanUp" ~> pc \in {"returned", "thrown"}
    /\ pc = "scanUp" /\ CanFind(flags, wanted) ~> pc = "returned"
=============================================================================
