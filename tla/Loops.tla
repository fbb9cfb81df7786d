------------------------------- MODULE Loops --------------------------------
(***************************************************************************)
(* One call of a loop of the on-disk file system, from any state it may be *)
(* called in: the search of the bitmap, a walk or an append on the file    *)
(* allocation table, or the transfer of a read or a write.  The other      *)
(* modules say what these loops do, and this one that they do it.          *)
(***************************************************************************)
EXTENDS Transfer

CONSTANTS
    MaxNew,         \* of FatLoops
    Lists, Stored, Other, Written, DeviceFails      \* of TransferLoops

\* The file of a transfer has blocks, and a write passes bytes for all of them
\* if need be.
ASSUME LoopsAssumption ==
    /\ Lists \subseteq BlockLists \ {<<>>}
    /\ Stored \in Disks /\ Other \in BlockData
    /\ Written \in Seq(Cells)
    /\ \A list \in Lists : Len(list) * BLOCK_SIZE <= Len(Written)
    /\ DeviceFails \in BOOLEAN

VARIABLES
    flags, nextBlock, wanted, nextBlockOld, freeBlocks,     \* of DmapLoops
    table, firstBlock, newBlocks, blockList, caller,        \* of FatLoops
    file, disk, call, offset, size, index, done, out,       \* of TransferLoops
    block, pc, entry                                        \* of the loop that runs

searchVars == <<flags, nextBlock, wanted, nextBlockOld, freeBlocks>>
chainVars == <<table, firstBlock, newBlocks, blockList, caller>>
transferVars == <<file, disk, call, offset, size, index, done, out>>
vars == <<searchVars, chainVars, transferVars, block, pc, entry>>

Search == INSTANCE DmapLoops
Chain == INSTANCE FatLoops
Data == INSTANCE TransferLoops

Unused == <<>>

NoSearch ==
    /\ flags = Unused /\ nextBlock = Unused /\ wanted = Unused
    /\ nextBlockOld = Unused /\ freeBlocks = Unused

NoChain ==
    /\ table = Unused /\ firstBlock = Unused /\ newBlocks = Unused
    /\ blockList = Unused /\ caller = Unused

NoTransfer ==
    /\ file = Unused /\ disk = Unused /\ call = Unused /\ offset = Unused
    /\ size = Unused /\ index = Unused /\ done = Unused /\ out = Unused

AnyCall ==
    \/ Search!Init /\ NoChain /\ NoTransfer
    \/ Chain!Init /\ NoSearch /\ NoTransfer
    \/ Data!Init /\ NoSearch /\ NoChain /\ block = Unused

SearchStep == Search!Next /\ UNCHANGED <<chainVars, transferVars>>

ChainStep == Chain!Next /\ UNCHANGED <<searchVars, transferVars>>

TransferStep == Data!Next /\ UNCHANGED <<searchVars, chainVars, block>>

AnyStep == SearchStep \/ ChainStep \/ TransferStep

\* The loops are plain code: they run on.
LoopsSpec == AnyCall /\ [][AnyStep]_vars /\ WF_vars(AnyStep)

-----------------------------------------------------------------------------
\* A search returns the blocks, and leaves the cursor, that Dmap.tla says.
ReturnsWhatDmapSays == Search!ReturnsWhatDmapSays

\* A search throws exactly when there are too few free blocks, and leaves the
\* Dmap as it was.
ThrowChangesNothing == Search!ThrowChangesNothing

\* A search ends, with a result whenever there is one to be had.
SearchEnds == Search!SearchEnds

\* getBlockList returns the chain that Fat.tla says.
ListsTheChain == Chain!ListsTheChain

\* Blocks appended one by one make the table and the list that Fat.tla says.
AppendsTheChain == Chain!AppendsTheChain

\* Walks that can end, and appends, do.
LoopsEnd == Chain!LoopsEnd

\* A transfer leaves the handle, the container and the bytes that Transfer.tla
\* says.
MovesWhatTransferSays == Data!MovesWhatTransferSays

\* When fuseWrite returns the number of bytes, they are in the file.
WrittenIsThere == Data!WrittenIsThere
=============================================================================
