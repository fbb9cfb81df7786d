------------------------------ MODULE FatLoops ------------------------------
(***************************************************************************)
(* The loops over the file allocation table: getBlockList, and the loops of *)
(* fuseWrite and fuseTruncate that allocate the first block of an empty    *)
(* file and append the rest one by one, with the walk of getLastBlock      *)
(* inside.  They are compared with what Fat.tla says they do, which is     *)
(* what OnDiskFS uses.  blockList is the list of the handle in fuseWrite,  *)
(* and what that list would be in fuseTruncate, which keeps none.          *)
(***************************************************************************)
EXTENDS Fat

CONSTANT MaxNew     \* bound on the blocks appended in one call

VARIABLES
    table,
    firstBlock,     \* of the file
    newBlocks,      \* the free blocks still to be put behind it
    blockList,      \* of the handle, or the result of getBlockList
    block,          \* where the walk stands
    pc,
    caller,         \* which handler appends: fuseWrite or fuseTruncate
    entry           \* table, firstBlock, newBlocks and blockList at the call

vars == <<table, firstBlock, newBlocks, blockList, block, pc, caller, entry>>

\* Chains that end, and the tables that have at least this one; the entries of
\* all the other blocks are whatever earlier files left there.
Tables == {t \in [Blocks -> Links] : \A b \in Blocks \ DataBlocks : t[b] = FREE}

FileChains == {s \in BlockLists : SetOfBlocks(s) \subseteq DataBlocks}

StartWalk ==
    /\ table \in Tables
    /\ firstBlock \in DataBlocks \cup {END_OF_CLUSTER}
    /\ newBlocks = <<>> /\ blockList = <<>>
    /\ block = firstBlock
    /\ pc = "walk" /\ caller = "write"

StartAppend ==
    \E s \in FileChains, new \in FileChains :
        /\ Len(new) \in 1..MaxNew
        /\ SetOfBlocks(s) \cap SetOfBlocks(new) = {}
        /\ table \in {t \in Tables : IsChain(t, s)}
        /\ firstBlock = IF s = <<>> THEN END_OF_CLUSTER ELSE s[1]
        /\ newBlocks = new /\ blockList = s
        /\ block = firstBlock
        /\ pc = "append" /\ caller \in {"write", "truncate"}

Init ==
    /\ StartWalk \/ StartAppend
    /\ entry = [table |-> table, first |-> firstBlock, new |-> newBlocks,
                list |-> blockList]

\* One turn of the loop of getBlockList.
Walk ==
    /\ pc = "walk" /\ block # END_OF_CLUSTER
    /\ Len(blockList) < CONTAINER_BLOCKS + 1    \* the bound on an endless walk
    /\ blockList' = Append(blockList, block)
    /\ block' = table[block]
    /\ UNCHANGED <<table, firstBlock, newBlocks, pc, caller, entry>>

\* A walk that stops before the last block (a mutant).
WalkStopsShort ==
    /\ pc = "walk" /\ block # END_OF_CLUSTER /\ table[block] = END_OF_CLUSTER
    /\ pc' = "listed"
    /\ UNCHANGED <<table, firstBlock, newBlocks, blockList, block, caller, entry>>

WalkReturns ==
    /\ pc = "walk" /\ block = END_OF_CLUSTER
    /\ pc' = "listed"
    /\ UNCHANGED <<table, firstBlock, newBlocks, blockList, block, caller, entry>>

\* The empty file: setFirstBlock, allocateBlock, push_back.
AllocateFirst ==
    /\ pc = "append" /\ firstBlock = END_OF_CLUSTER /\ newBlocks # <<>>
    /\ firstBlock' = Head(newBlocks)
    /\ table' = [table EXCEPT ![Head(newBlocks)] = END_OF_CLUSTER]
    /\ blockList' = Append(blockList, Head(newBlocks))
    /\ newBlocks' = Tail(newBlocks)
    /\ UNCHANGED <<block, pc, caller, entry>>

\* Where appendBlock is told to start: fuseWrite passes blockList.back(),
\* fuseTruncate the first block.
AppendFrom(list, first) == IF caller = "write" THEN list[Len(list)] ELSE first

BeginAppend ==
    /\ pc = "append" /\ firstBlock # END_OF_CLUSTER /\ newBlocks # <<>>
    /\ block' = AppendFrom(blockList, firstBlock)
    /\ pc' = "seek"
    /\ UNCHANGED <<table, firstBlock, newBlocks, blockList, caller, entry>>

\* One turn of the loop of getLastBlock.
Seek ==
    /\ pc = "seek" /\ table[block] # END_OF_CLUSTER
    /\ block' = table[block]
    /\ UNCHANGED <<table, firstBlock, newBlocks, blockList, pc, caller, entry>>

\* The new block linked, but not made an end (a mutant).
LinkedOpen(last, new) == [table EXCEPT ![last] = new]

LinkedTo(last, new) == [table EXCEPT ![last] = new, ![new] = END_OF_CLUSTER]

LinkBehind ==
    /\ pc = "seek" /\ table[block] = END_OF_CLUSTER
    /\ table' = LinkedTo(block, Head(newBlocks))
    /\ blockList' = Append(blockList, Head(newBlocks))
    /\ newBlocks' = Tail(newBlocks)
    /\ pc' = "append"
    /\ UNCHANGED <<firstBlock, block, caller, entry>>

AppendReturns ==
    /\ pc = "append" /\ newBlocks = <<>>
    /\ pc' = "appended"
    /\ UNCHANGED <<table, firstBlock, newBlocks, blockList, block, caller, entry>>

Next ==
    \/ Walk \/ WalkReturns
    \/ AllocateFirst \/ BeginAppend \/ Seek \/ LinkBehind \/ AppendReturns

Spec == Init /\ [][Next]_vars /\ WF_vars(Next)

\* A walk that returns has followed the chain that getBlockList of Fat.tla
\* chooses; that the chain exists is what WalkEnds means.
ListsTheChain ==
    pc = "listed" => /\ WalkEnds(entry.table, entry.first)
                     /\ blockList = getBlockList(entry.table, entry.first)

\* Appending block by block, each behind the last, builds the chain that the
\* whole call is said to build, leaves the rest of the table alone, and the
\* handle's list and the first block speak of that chain.
AppendsTheChain ==
    pc = "appended" =>
        /\ table = IF entry.list = <<>> THEN Linked(entry.table, entry.new)
                   ELSE appendBlocks(entry.table, AppendFrom(entry.list, entry.first), entry.new)
        /\ blockList = entry.list \o entry.new
        /\ IsChain(table, blockList) /\ firstBlock = blockList[1]

\* The walk ends on every chain that does, and every append ends.
LoopsEnd ==
    /\ pc = "walk" /\ WalkEnds(table, firstBlock) ~> pc = "listed"
    /\ pc = "append" ~> pc = "appended"
=============================================================================
