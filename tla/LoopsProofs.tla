----------------------------- MODULE LoopsProofs -----------------------------
(***************************************************************************)
(* The loops do what the other modules say: for every container, bitmap,   *)
(* cursor, table and file.  Each invariant says how far the call that runs *)
(* has come, and the last turn of its loop what is returned.               *)
(***************************************************************************)
EXTENDS Loops, TransferProofs, SequenceTheorems

Searches == {"scanUp", "scanWrapped", "returned", "thrown"}
Chainings == {"walk", "listed", "append", "seek", "appended"}
Transfers == {"first", "rest", "moved"}

\* A step is one of the loop that runs, and leaves that loop running.
LEMMA OneLoopRuns ==
    ASSUME AnyStep
    PROVE  /\ pc \in Searches <=> pc' \in Searches
           /\ pc' \in Searches => Search!Next
           /\ pc \in Chainings <=> pc' \in Chainings
           /\ pc' \in Chainings => Chain!Next
           /\ pc \in Transfers <=> pc' \in Transfers
           /\ pc' \in Transfers => Data!Next
<1>1. ASSUME Search!Next PROVE pc \in Searches /\ pc' \in Searches
    BY <1>1 DEF Search!Next, Search!ScanUp, Search!Look, Search!WrapAround,
       Search!ScanWrapped, Search!Throw, Search!Finish, Searches
<1>2. ASSUME Chain!Next PROVE pc \in Chainings /\ pc' \in Chainings
    BY <1>2 DEF Chain!Next, Chain!Walk, Chain!WalkReturns, Chain!AllocateFirst,
       Chain!BeginAppend, Chain!Seek, Chain!LinkBehind, Chain!AppendReturns, Chainings
<1>3. ASSUME Data!Next PROVE pc \in Transfers /\ pc' \in Transfers
    BY <1>3 DEF Data!Next, Data!ReadFirst, Data!ReadMiddle, Data!ReadLast,
       Data!WriteFirst, Data!WriteMiddle, Data!WriteLast, Data!Return, Transfers
<1>4. /\ \A x \in Searches : x \notin Chainings /\ x \notin Transfers
      /\ \A x \in Chainings : x \notin Transfers
    BY DEF Searches, Chainings, Transfers
<1>5. Search!Next \/ Chain!Next \/ Data!Next
    BY DEF AnyStep, SearchStep, ChainStep, TransferStep
<1>6. QED BY <1>1, <1>2, <1>3, <1>4, <1>5

-----------------------------------------------------------------------------
(* Dmap::findNFreeBlocks.                                                  *)

\* DmapLoops speaks of the operators of Dmap.tla.
LEMMA SearchNames ==
    /\ Search!Blocks = Blocks /\ Search!DataBlocks = DataBlocks
    /\ \A f, n : Search!CanFind(f, n) = CanFind(f, n)
    /\ \A f, b, n : Search!findNFreeBlocks(f, b, n) = findNFreeBlocks(f, b, n)
    /\ \A s : Search!CursorAfter(s) = CursorAfter(s)
<1>1. Search!Blocks = Blocks /\ Search!DataBlocks = DataBlocks
    BY DEF Search!Blocks, Blocks, Search!DataBlocks, DataBlocks
<1>2. \A f : Search!FreeBlocks(f) = FreeBlocks(f)
    BY <1>1 DEF Search!FreeBlocks, FreeBlocks
<1>3. \A f, n : Search!CanFind(f, n) = CanFind(f, n)
    BY <1>2, Zenon DEF Search!CanFind, CanFind, Search!countFreeBlocks, countFreeBlocks,
       Search!Cardinality, Cardinality
<1>4. \A n, b : Search!ScanPosition(n, b) = ScanPosition(n, b)
    BY DEF Search!ScanPosition, ScanPosition
<1>5. \A f, b, s : Search!InScanOrder(f, b, s) = InScanOrder(f, b, s)
    BY <1>2, <1>4, Zenon DEF Search!InScanOrder, InScanOrder
<1>6. \A f, b, n : Search!findNFreeBlocks(f, b, n) = findNFreeBlocks(f, b, n)
    BY <1>2, <1>5, Zenon DEF Search!findNFreeBlocks, findNFreeBlocks
<1>7. \A s : Search!CursorAfter(s) = CursorAfter(s)
    BY DEF Search!CursorAfter, CursorAfter
<1>8. QED BY <1>1, <1>3, <1>6, <1>7

\* The last block the search looked at was the last it wanted.
FoundLast == block > 0 /\ freeBlocks[wanted] = block - 1

\* How far the search has come: between the calls of Look, freeBlocks holds the
\* free blocks among those passed, and the cursor moves when it is complete.
SearchInv ==
    /\ flags \in [Blocks -> BOOLEAN] /\ nextBlockOld \in Blocks /\ wanted \in Nat \ {0}
    /\ entry.flags = flags /\ entry.nextBlock = nextBlockOld
    /\ freeBlocks \in Seq(FreeBlocks(flags)) /\ Len(freeBlocks) <= wanted
    /\ InScanOrder(flags, nextBlockOld, freeBlocks)
    /\ pc = "scanUp" =>
          /\ block \in nextBlockOld..CONTAINER_BLOCKS /\ nextBlock = nextBlockOld
          /\ FoundBefore(flags, nextBlockOld, block - nextBlockOld, freeBlocks)
          /\ Len(freeBlocks) = wanted => FoundLast
    /\ pc = "scanWrapped" =>
          \/ Len(freeBlocks) = wanted /\ block = 0 /\ nextBlock = CursorAfter(freeBlocks)
          \/ /\ block \in 0..nextBlockOld /\ nextBlock = nextBlockOld
             /\ FoundBefore(flags, nextBlockOld, CONTAINER_BLOCKS - nextBlockOld + block,
                            freeBlocks)
             /\ Len(freeBlocks) = wanted => FoundLast
    /\ pc = "returned" => Len(freeBlocks) = wanted /\ nextBlock = CursorAfter(freeBlocks)
    /\ pc = "thrown" => ~CanFind(flags, wanted) /\ nextBlock = nextBlockOld

\* The cursor moved behind the block found last is the one of CursorAfter.
LEMMA AdvancedIsCursorAfter ==
    ASSUME SearchInv, Len(freeBlocks) = wanted, FoundLast, block \in Nat
    PROVE  Search!Advanced = CursorAfter(freeBlocks)
<1>1. freeBlocks[Len(freeBlocks)] + 1 = block
    BY DEF FoundLast
<1>2. block % CONTAINER_BLOCKS \in Int
    BY DmapAssumption
<1>3. QED BY <1>1, <1>2, DmapAssumption DEF Search!Advanced, Search!AtLeast, CursorAfter

\* A turn of either loop adds the block it looks at if that is free.
LEMMA LookAdds ==
    ASSUME SearchInv, NEW end \in Nat, end <= CONTAINER_BLOCKS, Search!Look(end),
           block \in Nat,
           FoundBefore(flags, nextBlockOld, ScanPosition(nextBlockOld, block), freeBlocks)
    PROVE  /\ freeBlocks' \in Seq(FreeBlocks(flags)) /\ Len(freeBlocks') <= wanted
           /\ InScanOrder(flags, nextBlockOld, freeBlocks')
           /\ FoundBefore(flags, nextBlockOld, ScanPosition(nextBlockOld, block) + 1, freeBlocks')
           /\ Len(freeBlocks') = wanted => block' > 0 /\ freeBlocks'[wanted] = block' - 1
           /\ block' = block + 1 /\ block < end
<1>1. block \in Blocks /\ block < end /\ block' = block + 1
    BY DmapAssumption DEF Search!Look, Blocks
<1>2. freeBlocks' = IF flags[block] THEN freeBlocks ELSE Append(freeBlocks, block)
    BY DEF Search!Look
<1>3. ScanPosition(nextBlockOld, block) \in Nat
    BY <1>1, ScanPositionNat DEF SearchInv
<1>4. FoundBefore(flags, nextBlockOld, ScanPosition(nextBlockOld, block) + 1, freeBlocks')
    BY <1>1, <1>2, <1>3, FoundNext DEF SearchInv
<1>5. freeBlocks' \in Seq(FreeBlocks(flags)) /\ InScanOrder(flags, nextBlockOld, freeBlocks')
    BY <1>4 DEF FoundBefore
<1>6. /\ Len(freeBlocks) \in Nat /\ wanted \in Nat /\ Len(freeBlocks) < wanted
      /\ freeBlocks \in Seq(FreeBlocks(flags))
    BY DEF SearchInv, Search!Look
<1>7. Len(freeBlocks') <= wanted
      /\ (Len(freeBlocks') = wanted => block' > 0 /\ freeBlocks'[wanted] = block' - 1)
    <2>1. CASE flags[block]
        BY <1>2, <1>6, <2>1
    <2>2. CASE ~flags[block]
        <3>1. Len(freeBlocks') = Len(freeBlocks) + 1 /\ freeBlocks'[Len(freeBlocks) + 1] = block
            <4>1. block \in FreeBlocks(flags)
                BY <1>1, <2>2 DEF FreeBlocks
            <4>2. QED BY <1>2, <1>6, <2>2, <4>1
        <3>2. QED BY <1>1, <1>6, <3>1
    <2>3. QED BY <2>1, <2>2
<1>8. QED BY <1>1, <1>4, <1>5, <1>7

\* Every call begins with SearchInv, and every step keeps it.
LEMMA SearchBegins == Search!Init => SearchInv
<1> SUFFICES ASSUME Search!Init PROVE SearchInv
    OBVIOUS
<1>1. /\ flags \in [Blocks -> BOOLEAN] /\ nextBlock \in Blocks /\ nextBlockOld = nextBlock
      /\ block = nextBlock /\ freeBlocks = <<>> /\ pc = "scanUp"
      /\ entry.flags = flags /\ entry.nextBlock = nextBlock
      /\ wanted \in Nat \ {0}
    BY SearchNames, DmapAssumption DEF Search!Init
<1>2. FoundBefore(flags, nextBlockOld, 0, <<>>)
    BY <1>1, FoundNothing
<1>3. <<>> \in Seq(FreeBlocks(flags)) /\ Len(<<>>) = 0
      /\ InScanOrder(flags, nextBlockOld, <<>>)
    BY <1>2 DEF FoundBefore
<1>4. block - nextBlockOld = 0 /\ block \in nextBlockOld..CONTAINER_BLOCKS
    BY <1>1, DmapAssumption DEF Blocks
<1>5. QED BY <1>1, <1>2, <1>3, <1>4 DEF SearchInv

\* Every step of the search keeps its invariant.
LEMMA SearchGoesOn == SearchInv /\ Search!Next => SearchInv'
<1> SUFFICES ASSUME SearchInv, Search!Next PROVE SearchInv'
    OBVIOUS
<1>1. /\ nextBlockOld \in Nat /\ nextBlockOld < CONTAINER_BLOCKS /\ CONTAINER_BLOCKS \in Nat
      /\ wanted \in Nat /\ wanted # 0 /\ Len(freeBlocks) \in Nat /\ Len(freeBlocks) <= wanted
    BY DmapAssumption DEF SearchInv, Blocks
<1>2. CASE Search!ScanUp
    <2>1. /\ pc = "scanUp" /\ Search!Look(CONTAINER_BLOCKS)
          /\ UNCHANGED <<flags, nextBlock, wanted, nextBlockOld, pc, entry>>
        BY <1>2 DEF Search!ScanUp, Search!Look
    <2>2. /\ block \in Nat /\ nextBlockOld <= block /\ nextBlock = nextBlockOld
          /\ FoundBefore(flags, nextBlockOld, block - nextBlockOld, freeBlocks)
        BY <1>1, <2>1 DEF SearchInv
    <2>3. ScanPosition(nextBlockOld, block) = block - nextBlockOld
        BY <1>1, <2>2 DEF ScanPosition
    <2>4. /\ freeBlocks' \in Seq(FreeBlocks(flags)) /\ Len(freeBlocks') <= wanted
          /\ InScanOrder(flags, nextBlockOld, freeBlocks')
          /\ FoundBefore(flags, nextBlockOld, block - nextBlockOld + 1, freeBlocks')
          /\ Len(freeBlocks') = wanted => block' > 0 /\ freeBlocks'[wanted] = block' - 1
          /\ block' = block + 1 /\ block < CONTAINER_BLOCKS
        BY <1>1, <2>1, <2>2, <2>3, LookAdds
    <2>5. block - nextBlockOld + 1 = block' - nextBlockOld
          /\ block' \in nextBlockOld..CONTAINER_BLOCKS
        BY <1>1, <2>2, <2>4
    <2>6. QED BY <2>1, <2>2, <2>4, <2>5 DEF SearchInv, FoundLast
<1>3. CASE Search!WrapAround
    <2>1. /\ pc = "scanUp" /\ pc' = "scanWrapped" /\ block' = 0
          /\ block >= CONTAINER_BLOCKS \/ Len(freeBlocks) >= wanted
          /\ nextBlock' = IF Len(freeBlocks) = wanted THEN Search!Advanced ELSE nextBlock
          /\ UNCHANGED <<flags, wanted, nextBlockOld, freeBlocks, entry>>
        BY <1>3 DEF Search!WrapAround, Search!LoopEnds, Search!CursorAfterScanUp
    <2>2. /\ block \in nextBlockOld..CONTAINER_BLOCKS /\ nextBlock = nextBlockOld
          /\ FoundBefore(flags, nextBlockOld, block - nextBlockOld, freeBlocks)
          /\ Len(freeBlocks) = wanted => FoundLast
        BY <2>1 DEF SearchInv
    <2>3. CASE Len(freeBlocks) = wanted
        <3>1. nextBlock' = CursorAfter(freeBlocks)
            <4>1. block \in Nat
                BY <1>1, <2>2
            <4>2. QED BY <2>1, <2>2, <2>3, <4>1, AdvancedIsCursorAfter
        <3>2. QED BY <2>1, <2>3, <3>1 DEF SearchInv
    <2>4. CASE Len(freeBlocks) # wanted
        <3>1. block = CONTAINER_BLOCKS /\ nextBlock' = nextBlockOld
              /\ block' \in 0..nextBlockOld
            BY <1>1, <2>1, <2>2, <2>4
        <3>2. block - nextBlockOld = CONTAINER_BLOCKS - nextBlockOld + block'
            BY <1>1, <2>1, <3>1
        <3>3. QED BY <2>1, <2>2, <2>4, <3>1, <3>2 DEF SearchInv
    <2>5. QED BY <2>3, <2>4
<1>4. CASE Search!ScanWrapped
    <2>1. /\ pc = "scanWrapped" /\ Search!Look(nextBlockOld) /\ Len(freeBlocks) < wanted
          /\ UNCHANGED <<flags, nextBlock, wanted, nextBlockOld, pc, entry>>
        BY <1>4 DEF Search!ScanWrapped, Search!Look
    <2>2. /\ block \in 0..nextBlockOld /\ nextBlock = nextBlockOld /\ block < nextBlockOld
          /\ FoundBefore(flags, nextBlockOld, CONTAINER_BLOCKS - nextBlockOld + block, freeBlocks)
        BY <1>1, <2>1 DEF SearchInv, Search!Look
    <2>3. ScanPosition(nextBlockOld, block) = CONTAINER_BLOCKS - nextBlockOld + block
          /\ block \in Nat
        BY <1>1, <2>2 DEF ScanPosition
    <2>4. /\ freeBlocks' \in Seq(FreeBlocks(flags)) /\ Len(freeBlocks') <= wanted
          /\ InScanOrder(flags, nextBlockOld, freeBlocks')
          /\ FoundBefore(flags, nextBlockOld,
                         CONTAINER_BLOCKS - nextBlockOld + block + 1, freeBlocks')
          /\ Len(freeBlocks') = wanted => block' > 0 /\ freeBlocks'[wanted] = block' - 1
          /\ block' = block + 1
        BY <1>1, <2>1, <2>2, <2>3, LookAdds
    <2>5. CONTAINER_BLOCKS - nextBlockOld + block + 1 = CONTAINER_BLOCKS - nextBlockOld + block'
          /\ block' \in 0..nextBlockOld
        BY <1>1, <2>2, <2>3, <2>4
    <2>6. QED BY <2>1, <2>2, <2>4, <2>5 DEF SearchInv, FoundLast
<1>5. CASE Search!Throw
    <2>1. /\ pc = "scanWrapped" /\ pc' = "thrown" /\ Len(freeBlocks) < wanted
          /\ block >= nextBlockOld
          /\ UNCHANGED <<flags, nextBlock, wanted, nextBlockOld, freeBlocks, entry>>
        BY <1>1, <1>5 DEF Search!Throw, Search!LoopEnds
    <2>2. /\ block \in 0..nextBlockOld /\ nextBlock = nextBlockOld
          /\ FoundBefore(flags, nextBlockOld, CONTAINER_BLOCKS - nextBlockOld + block, freeBlocks)
        BY <1>1, <2>1 DEF SearchInv
    <2>3. CONTAINER_BLOCKS - nextBlockOld + block = CONTAINER_BLOCKS
        BY <1>1, <2>1, <2>2
    <2>4. ~CanFind(flags, wanted)
        BY <1>1, <2>1, <2>2, <2>3, FoundAll DEF SearchInv
    <2>5. QED BY <2>1, <2>2, <2>4 DEF SearchInv
<1>6. CASE Search!Finish
    <2>1. /\ pc = "scanWrapped" /\ pc' = "returned" /\ Len(freeBlocks) = wanted
          /\ nextBlock' = IF block > 0 THEN Search!Advanced ELSE nextBlock
          /\ UNCHANGED <<flags, wanted, nextBlockOld, freeBlocks, entry>>
        BY <1>1, <1>6 DEF Search!Finish
    <2>2. nextBlock' = CursorAfter(freeBlocks)
        <3>1. CASE block = 0 /\ nextBlock = CursorAfter(freeBlocks)
            BY <2>1, <3>1
        <3>2. CASE block \in 0..nextBlockOld /\ FoundLast
            <4>1. block \in Nat /\ block > 0
                BY <1>1, <3>2 DEF FoundLast
            <4>2. QED BY <2>1, <3>2, <4>1, AdvancedIsCursorAfter
        <3>3. QED BY <2>1, <3>1, <3>2 DEF SearchInv
    <2>3. QED BY <2>1, <2>2 DEF SearchInv
<1>7. QED BY <1>2, <1>3, <1>4, <1>5, <1>6 DEF Search!Next

\* What SearchInv says of a search that is over.
LEMMA SearchResult == SearchInv => ReturnsWhatDmapSays /\ ThrowChangesNothing
<1> SUFFICES ASSUME SearchInv PROVE ReturnsWhatDmapSays /\ ThrowChangesNothing
    OBVIOUS
<1>1. /\ CanFind(flags, Len(freeBlocks))
      /\ findNFreeBlocks(flags, nextBlockOld, Len(freeBlocks)) = freeBlocks
    BY FoundIsReturned DEF SearchInv
<1>2. ReturnsWhatDmapSays
    BY <1>1, SearchNames DEF SearchInv, ReturnsWhatDmapSays, Search!ReturnsWhatDmapSays
<1>3. ThrowChangesNothing
    BY SearchNames DEF SearchInv, ThrowChangesNothing, Search!ThrowChangesNothing
<1>4. QED BY <1>2, <1>3

-----------------------------------------------------------------------------
(* Fat::getBlockList, and the appending loops of fuseWrite and fuseTruncate. *)

\* FatLoops speaks of the operators of Fat.tla.
LEMMA ChainNames ==
    /\ Chain!Blocks = Blocks /\ Chain!DataBlocks = DataBlocks /\ Chain!Links = Links
    /\ Chain!END_OF_CLUSTER = END_OF_CLUSTER
    /\ Chain!BlockLists = BlockLists
    /\ \A s : Chain!SetOfBlocks(s) = SetOfBlocks(s)
    /\ \A t, s : Chain!IsChain(t, s) = IsChain(t, s)
    /\ \A t, b : Chain!WalkEnds(t, b) = WalkEnds(t, b)
    /\ \A t, b : Chain!getBlockList(t, b) = getBlockList(t, b)
    /\ \A t, s : Chain!Linked(t, s) = Linked(t, s)
    /\ \A t, b, s : Chain!appendBlocks(t, b, s) = appendBlocks(t, b, s)
<1>1. /\ Chain!Blocks = Blocks /\ Chain!DataBlocks = DataBlocks
      /\ Chain!END_OF_CLUSTER = END_OF_CLUSTER
    BY DEF Chain!Blocks, Blocks, Chain!DataBlocks, DataBlocks,
       Chain!END_OF_CLUSTER, END_OF_CLUSTER
<1>2. Chain!Links = Links
    BY <1>1 DEF Chain!Links, Links
<1>3. Chain!BlockLists = BlockLists
    BY Zenon DEF Chain!BlockLists, BlockLists, Chain!Blocks, Blocks
<1>4. \A s : Chain!SetOfBlocks(s) = SetOfBlocks(s)
    BY DEF Chain!SetOfBlocks, SetOfBlocks
<1>5. \A t, s : Chain!IsChain(t, s) = IsChain(t, s)
    BY <1>1, Zenon DEF Chain!IsChain, IsChain
<1>6. Chain!BlockListsFrom = BlockListsFrom
    BY <1>1, <1>2, <1>3, Zenon DEF Chain!BlockListsFrom, BlockListsFrom
<1>7. \A t, b : Chain!WalkEnds(t, b) = WalkEnds(t, b)
    BY <1>5, <1>6, Zenon DEF Chain!WalkEnds, WalkEnds
<1>8. \A t, b : Chain!getBlockList(t, b) = getBlockList(t, b)
    BY <1>5, <1>6, Zenon DEF Chain!getBlockList, getBlockList
<1>9. \A t, s : Chain!Linked(t, s) = Linked(t, s)
    BY <1>1, Zenon DEF Chain!Linked, Linked
<1>10. \A t, b : Chain!getLastBlock(t, b) = getLastBlock(t, b)
    BY <1>8, Zenon DEF Chain!getLastBlock, getLastBlock
<1>11. \A t, b, s : Chain!appendBlocks(t, b, s) = appendBlocks(t, b, s)
    BY <1>9, <1>10, Zenon DEF Chain!appendBlocks, appendBlocks
<1>12. QED BY <1>1, <1>2, <1>3, <1>4, <1>5, <1>7, <1>8, <1>9, <1>11

Walks == {"walk", "listed"}
Appends == {"append", "seek", "appended"}

\* blockList is the way the walk has come, block where it goes next.
WalkInv ==
    /\ table \in [Blocks -> Links] /\ firstBlock \in Links /\ block \in Links
    /\ entry.table = table /\ entry.first = firstBlock
    /\ blockList \in Seq(Blocks)
    /\ IF blockList = <<>> THEN block = firstBlock ELSE blockList[1] = firstBlock
    /\ \A i \in 1..Len(blockList) :
          table[blockList[i]] = IF i = Len(blockList) THEN block ELSE blockList[i + 1]
    /\ pc = "listed" => block = END_OF_CLUSTER

\* The blocks that have been appended are a chain with those of the file, the
\* others are still to come, and the rest of the table is as it was.
AppendInv ==
    /\ entry.table \in [Blocks -> Links]
    /\ entry.list \in BlockLists /\ entry.new \in BlockLists /\ entry.new # <<>>
    /\ SetOfBlocks(entry.list) \cap SetOfBlocks(entry.new) = {}
    /\ IsChain(entry.table, entry.list)
    /\ entry.list # <<>> => entry.first = entry.list[1]
    /\ table \in [Blocks -> Links]
    /\ blockList \in BlockLists /\ newBlocks \in Seq(Blocks)
    /\ blockList \o newBlocks = entry.list \o entry.new
    /\ IsChain(table, blockList)
    /\ \A b \in Blocks \ SetOfBlocks(blockList) : table[b] = entry.table[b]
    /\ firstBlock = IF blockList = <<>> THEN END_OF_CLUSTER ELSE blockList[1]
    /\ pc = "seek" => newBlocks # <<>> /\ block \in SetOfBlocks(blockList)
    /\ pc = "appended" => newBlocks = <<>>

ChainInv == (pc \in Walks => WalkInv) /\ (pc \in Appends => AppendInv)

\* Every walk and every append begins within its invariant.
LEMMA ChainBegins == Chain!Init => ChainInv
<1> SUFFICES ASSUME Chain!Init PROVE ChainInv
    OBVIOUS
<1>1. Chain!Tables \subseteq [Blocks -> Links] /\ Chain!FileChains \subseteq BlockLists
    BY ChainNames DEF Chain!Tables, Chain!FileChains
<1>2. /\ entry.table = table /\ entry.first = firstBlock /\ entry.new = newBlocks
      /\ entry.list = blockList
    BY DEF Chain!Init
<1>3. CASE Chain!StartWalk
    <2>1. /\ table \in [Blocks -> Links] /\ firstBlock \in Links /\ blockList = <<>>
          /\ block = firstBlock /\ pc = "walk"
        BY <1>1, <1>3, ChainNames, EndIsNoBlock, DmapAssumption
        DEF Chain!StartWalk, DataBlocks, Links, Blocks
    <2>2. <<>> \in Seq(Blocks) /\ Len(<<>>) = 0
        OBVIOUS
    <2>3. WalkInv
        BY <1>2, <2>1, <2>2 DEF WalkInv
    <2>4. QED BY <2>1, <2>3 DEF ChainInv, Appends
<1>4. CASE Chain!StartAppend
    <2>1. /\ blockList \in BlockLists /\ newBlocks \in BlockLists
          /\ SetOfBlocks(blockList) \cap SetOfBlocks(newBlocks) = {}
          /\ table \in [Blocks -> Links] /\ IsChain(table, blockList)
          /\ firstBlock = IF blockList = <<>> THEN END_OF_CLUSTER ELSE blockList[1]
          /\ Len(newBlocks) # 0 /\ pc = "append"
        BY <1>1, <1>4, ChainNames DEF Chain!StartAppend
    <2>2. newBlocks \in Seq(Blocks) /\ newBlocks # <<>>
        BY <2>1, BlockListType
    <2>3. AppendInv
        BY <1>2, <2>1, <2>2 DEF AppendInv
    <2>4. QED BY <2>1, <2>3 DEF ChainInv, Walks
<1>5. QED BY <1>3, <1>4 DEF Chain!Init

\* One step along the chain.
LEMMA WalkGoesOn ==
    ASSUME WalkInv, Chain!Walk \/ Chain!WalkReturns
    PROVE  WalkInv'
<1>1. CASE Chain!Walk
    <2> DEFINE n == Len(blockList)
    <2>1. /\ block \in Blocks /\ blockList' = Append(blockList, block)
          /\ block' = table[block] /\ pc' = "walk"
          /\ UNCHANGED <<table, firstBlock, entry>>
        BY <1>1, ChainNames DEF WalkInv, Chain!Walk, Links
    <2>2. n \in Nat /\ blockList \in Seq(Blocks)
        BY DEF WalkInv
    <2>3. /\ blockList' \in Seq(Blocks) /\ Len(blockList') = n + 1
          /\ blockList'[n + 1] = block
          /\ \A i \in 1..n : blockList'[i] = blockList[i]
        BY <2>1, <2>2
    <2>4. block' \in Links
        BY <2>1 DEF WalkInv
    <2>5. blockList' # <<>> /\ blockList'[1] = firstBlock
        <3>1. CASE blockList = <<>>
            BY <2>1, <2>3, <3>1 DEF WalkInv
        <3>2. CASE blockList # <<>>
            <4>1. 1 \in 1..n
                BY <2>2, <3>2
            <4>2. QED BY <2>2, <2>3, <3>2, <4>1 DEF WalkInv
        <3>3. QED BY <3>1, <3>2
    <2> HIDE DEF n
    <2>6. ASSUME NEW i \in 1..(n + 1)
          PROVE  table[blockList'[i]] = IF i = n + 1 THEN block' ELSE blockList'[i + 1]
        <3>1. CASE i = n + 1
            BY <2>1, <2>3, <3>1
        <3>2. CASE i = n
            <4>1. n \in 1..n
                BY <2>2, <3>2
            <4>2. table[blockList[n]] = block
                BY <4>1 DEF WalkInv, n
            <4>3. QED BY <2>2, <2>3, <3>2, <4>1, <4>2
        <3>3. CASE i # n + 1 /\ i # n
            <4>1. i \in 1..n /\ i + 1 \in 1..n
                BY <2>2, <3>3
            <4>2. table[blockList[i]] = blockList[i + 1]
                BY <3>3, <4>1 DEF WalkInv, n
            <4>3. QED BY <2>3, <3>3, <4>1, <4>2
        <3>4. QED BY <3>1, <3>2, <3>3
    <2>7. QED BY <2>1, <2>3, <2>4, <2>5, <2>6 DEF WalkInv
<1>2. CASE Chain!WalkReturns
    BY <1>2, ChainNames DEF WalkInv, Chain!WalkReturns
<1>3. QED BY <1>1, <1>2

\* The block that is appended next is in no chain of the file yet.
LEMMA NextIsNew ==
    ASSUME AppendInv, newBlocks # <<>>
    PROVE  /\ Head(newBlocks) \in Blocks \ SetOfBlocks(blockList)
           /\ Tail(newBlocks) \in Seq(Blocks)
           /\ Append(blockList, Head(newBlocks)) \o Tail(newBlocks) = entry.list \o entry.new
<1> DEFINE s == blockList
           new == newBlocks
           whole == s \o new
           n == Len(s)
<1>1. /\ s \in Seq(Blocks) /\ n \in Nat /\ new \in Seq(Blocks)
      /\ SetOfBlocks(s) = {s[i] : i \in 1..n}
    BY BlockListType DEF AppendInv
<1>2. /\ Head(new) \in Blocks /\ Tail(new) \in Seq(Blocks) /\ Len(new) \in Nat
      /\ Len(new) # 0 /\ Head(new) = new[1] /\ Len(Tail(new)) = Len(new) - 1
      /\ \A i \in 1..(Len(new) - 1) : Tail(new)[i] = new[i + 1]
    BY <1>1
<1>3. whole = entry.list \o entry.new /\ whole \in BlockLists
    BY ConcatBlockLists DEF AppendInv
<1>4. /\ Len(whole) = n + Len(new) /\ \A i \in 1..n : whole[i] = s[i]
      /\ \A i \in 1..Len(new) : whole[n + i] = new[i]
    BY <1>1
<1>5. \A i, j \in 1..Len(whole) : whole[i] = whole[j] => i = j
    BY <1>3, BlockListType
<1>6. Head(new) \notin SetOfBlocks(s)
    <2>1. ASSUME NEW i \in 1..n, s[i] = new[1] PROVE FALSE
        <3>1. whole[i] = whole[n + 1] /\ n + 1 \in 1..Len(whole) /\ i \in 1..Len(whole)
            BY <1>1, <1>2, <1>4, <2>1
        <3>2. QED BY <1>1, <1>5, <3>1
    <2>2. QED BY <1>1, <1>2, <2>1
<1>7. Append(s, Head(new)) \o Tail(new) = whole
    <2> DEFINE left == Append(s, Head(new))
               q == left \o Tail(new)
    <2>1. /\ left \in Seq(Blocks) /\ Len(left) = n + 1 /\ left[n + 1] = new[1]
          /\ \A i \in 1..n : left[i] = s[i]
        BY <1>1, <1>2
    <2> HIDE DEF left
    <2>2. /\ q \in Seq(Blocks) /\ Len(q) = n + Len(new)
          /\ \A i \in 1..(n + 1) : q[i] = left[i]
          /\ \A i \in 1..(Len(new) - 1) : q[n + 1 + i] = Tail(new)[i]
        BY <1>1, <1>2, <2>1
    <2>3. whole \in Seq(Blocks) /\ Len(whole) = n + Len(new)
        BY <1>1
    <2> HIDE DEF q, whole, n
    <2>4. ASSUME NEW i \in 1..(n + Len(new)) PROVE q[i] = whole[i]
        <3>1. CASE i \in 1..n
            BY <1>1, <1>4, <2>1, <2>2, <3>1
        <3>2. CASE i = n + 1
            <4>1. 1 \in 1..Len(new) /\ n + 1 \in 1..(n + 1)
                BY <1>1, <1>2
            <4>2. QED BY <1>4, <2>1, <2>2, <3>2, <4>1
        <3>3. CASE i > n + 1
            <4>1. /\ i - n - 1 \in 1..(Len(new) - 1) /\ i - n \in 1..Len(new)
                  /\ i = n + 1 + (i - n - 1) /\ i = n + (i - n) /\ (i - n - 1) + 1 = i - n
                BY <1>1, <1>2, <3>3
            <4>2. q[i] = Tail(new)[i - n - 1] /\ whole[i] = new[i - n]
                BY <1>4, <2>2, <4>1
            <4>3. Tail(new)[i - n - 1] = new[i - n]
                BY <1>2, <4>1
            <4>4. QED BY <4>2, <4>3
        <3>4. QED BY <1>1, <1>2, <3>1, <3>2, <3>3
    <2>5. QED BY <2>2, <2>3, <2>4 DEF q, left
<1>8. QED BY <1>2, <1>3, <1>6, <1>7

\* The first block of a file that has none.
LEMMA AllocateFirstGoesOn ==
    ASSUME AppendInv, Chain!AllocateFirst
    PROVE  AppendInv'
<1> DEFINE b == Head(newBlocks)
<1>1. /\ pc = "append" /\ pc' = "append" /\ firstBlock = END_OF_CLUSTER /\ newBlocks # <<>>
      /\ firstBlock' = b /\ newBlocks' = Tail(newBlocks)
      /\ table' = [table EXCEPT ![b] = END_OF_CLUSTER]
      /\ blockList' = Append(blockList, b)
      /\ entry' = entry
    BY ChainNames DEF Chain!AllocateFirst
<1>2. /\ b \in Blocks \ SetOfBlocks(blockList) /\ newBlocks' \in Seq(Blocks)
      /\ blockList' \o newBlocks' = entry.list \o entry.new
    BY <1>1, NextIsNew
<1> HIDE DEF b
<1>3. blockList = <<>>
    <2>1. SUFFICES ASSUME blockList # <<>> PROVE FALSE
        OBVIOUS
    <2>2. blockList \in Seq(Blocks) /\ 1 \in 1..Len(blockList)
        BY <2>1, BlockListType DEF AppendInv
    <2>3. blockList[1] \in Blocks
        BY <2>2
    <2>4. QED BY <1>1, <2>1, <2>3, EndIsNoBlock DEF AppendInv
<1>4. blockList' = <<b>> /\ blockList' # <<>> /\ blockList'[1] = b
    BY <1>1, <1>3
<1>5. /\ table' \in [Blocks -> Links] /\ IsChain(table', blockList') /\ blockList' \in BlockLists
      /\ \A c \in Blocks \ SetOfBlocks(blockList') : table'[c] = table[c]
    <2> DEFINE T == [table EXCEPT ![b] = END_OF_CLUSTER]
    <2>1. b \in Blocks /\ table \in [Blocks -> Links]
        BY <1>2 DEF AppendInv
    <2>2. /\ T \in [Blocks -> Links] /\ IsChain(T, <<b>>) /\ <<b>> \in BlockLists
          /\ \A c \in Blocks \ SetOfBlocks(<<b>>) : T[c] = table[c]
        BY <2>1, FirstLinked
    <2>3. table' = T /\ blockList' = <<b>>
        BY <1>1, <1>4
    <2> HIDE DEF T
    <2>4. QED BY <2>2, <2>3, Zenon
<1>6. \A c \in Blocks : table[c] = entry.table[c]
    BY <1>3 DEF AppendInv, SetOfBlocks
<1>7. QED BY <1>1, <1>2, <1>4, <1>5, <1>6 DEF AppendInv

\* A block linked behind the last one.
LEMMA LinkBehindGoesOn ==
    ASSUME AppendInv, Chain!LinkBehind
    PROVE  AppendInv'
<1> DEFINE b == Head(newBlocks)
           n == Len(blockList)
<1>1. /\ pc = "seek" /\ pc' = "append" /\ table[block] = END_OF_CLUSTER
      /\ newBlocks' = Tail(newBlocks) /\ blockList' = Append(blockList, b)
      /\ table' = [table EXCEPT ![block] = b, ![b] = END_OF_CLUSTER]
      /\ firstBlock' = firstBlock /\ entry' = entry
    BY ChainNames DEF Chain!LinkBehind, Chain!LinkedTo
<1>2. newBlocks # <<>> /\ block \in SetOfBlocks(blockList)
    BY <1>1 DEF AppendInv
<1>3. /\ b \in Blocks \ SetOfBlocks(blockList) /\ newBlocks' \in Seq(Blocks)
      /\ blockList' \o newBlocks' = entry.list \o entry.new
    BY <1>1, <1>2, NextIsNew
<1> HIDE DEF b
<1>4. /\ blockList \in BlockLists /\ blockList \in Seq(Blocks) /\ n \in Nat
      /\ SetOfBlocks(blockList) = {blockList[i] : i \in 1..n}
      /\ blockList \in [1..n -> Blocks] /\ DOMAIN blockList = 1..n
    BY BlockListType DEF AppendInv
<1> HIDE DEF n
<1>5. n # 0 /\ blockList # <<>> /\ 1 \in 1..n
    BY <1>2, <1>4
<1>6. block = blockList[n]
    <2>1. PICK i \in 1..n : block = blockList[i]
        <3>1. block \in {blockList[i] : i \in 1..n}
            <4>1. SetOfBlocks(blockList) = {blockList[i] : i \in 1..n}
                BY <1>4
            <4>2. QED BY <1>2, <4>1
        <3>2. QED BY <3>1, Zenon
    <2>2. i # n => table[block] = blockList[i + 1] /\ blockList[i + 1] \in Blocks
        <3>1. i # n => i + 1 \in 1..n
            BY <1>4
        <3>2. QED BY <1>4, <2>1, <3>1 DEF AppendInv, IsChain, n
    <2>3. QED BY <1>1, <2>1, <2>2, EndIsNoBlock
<1>7. /\ table' \in [Blocks -> Links] /\ IsChain(table', blockList')
      /\ \A c \in Blocks \ SetOfBlocks(blockList') : table'[c] = table[c]
    <2>1. /\ table \in [Blocks -> Links] /\ blockList \in BlockLists /\ blockList # <<>>
          /\ IsChain(table, blockList) /\ b \in Blocks \ SetOfBlocks(blockList)
        BY <1>3, <1>5 DEF AppendInv
    <2> DEFINE T == [table EXCEPT ![blockList[Len(blockList)]] = b, ![b] = END_OF_CLUSTER]
               L == Append(blockList, b)
    <2>2. /\ T \in [Blocks -> Links] /\ IsChain(T, L)
          /\ \A c \in Blocks \ SetOfBlocks(L) : T[c] = table[c]
        BY <2>1, OneLinked
    <2>3. table' = T /\ blockList' = L
        BY <1>1, <1>6 DEF n
    <2> HIDE DEF T, L
    <2>4. QED BY <2>2, <2>3, Zenon
<1>8. /\ blockList' \in BlockLists
      /\ SetOfBlocks(blockList') = SetOfBlocks(blockList) \cup {b}
      /\ blockList'[1] = blockList[1] /\ Len(blockList') = n + 1
    BY <1>1, <1>3, <1>4, <1>5, OneMore DEF n
<1>9. blockList' # <<>>
    BY <1>1, <1>4
<1>10. \A c \in Blocks \ SetOfBlocks(blockList') : table'[c] = entry.table[c]
    BY <1>7, <1>8 DEF AppendInv
<1>11. firstBlock' = blockList'[1]
    BY <1>1, <1>5, <1>8 DEF AppendInv
<1>12. QED BY <1>1, <1>3, <1>7, <1>8, <1>9, <1>10, <1>11 DEF AppendInv

\* Every step of an append keeps its invariant.
LEMMA AppendGoesOn ==
    ASSUME AppendInv,
           \/ Chain!AllocateFirst \/ Chain!BeginAppend \/ Chain!Seek
           \/ Chain!LinkBehind \/ Chain!AppendReturns
    PROVE  AppendInv'
<1>1. CASE Chain!BeginAppend
    <2>1. /\ firstBlock # END_OF_CLUSTER /\ newBlocks # <<>> /\ pc' = "seek"
          /\ block' = Chain!AppendFrom(blockList, firstBlock)
          /\ UNCHANGED <<table, firstBlock, newBlocks, blockList, entry>>
        BY <1>1, ChainNames DEF Chain!BeginAppend
    <2>2. blockList # <<>> /\ firstBlock = blockList[1]
        BY <2>1 DEF AppendInv
    <2>3. blockList \in Seq(Blocks) /\ DOMAIN blockList = 1..Len(blockList)
          /\ Len(blockList) \in Nat
        BY BlockListType DEF AppendInv
    <2>4. 1 \in DOMAIN blockList /\ Len(blockList) \in DOMAIN blockList
        BY <2>2, <2>3
    <2>5. block' \in SetOfBlocks(blockList)
        BY <2>1, <2>2, <2>4 DEF Chain!AppendFrom, SetOfBlocks
    <2>6. QED BY <2>1, <2>5 DEF AppendInv
<1>2. CASE Chain!Seek
    <2>1. /\ pc = "seek" /\ pc' = "seek" /\ table[block] # END_OF_CLUSTER
          /\ block' = table[block]
          /\ UNCHANGED <<table, firstBlock, newBlocks, blockList, entry>>
        BY <1>2, ChainNames DEF Chain!Seek
    <2>2. newBlocks # <<>> /\ block \in SetOfBlocks(blockList)
        BY <2>1 DEF AppendInv
    <2>3. DOMAIN blockList = 1..Len(blockList) /\ Len(blockList) \in Nat
        BY BlockListType DEF AppendInv
    <2>4. PICK i \in DOMAIN blockList : block = blockList[i]
        BY <2>2 DEF SetOfBlocks
    <2>5. i # Len(blockList) /\ table[block] = blockList[i + 1]
        BY <2>1, <2>4 DEF AppendInv, IsChain
    <2>6. i + 1 \in DOMAIN blockList
        BY <2>3, <2>5
    <2>7. block' \in SetOfBlocks(blockList)
        BY <2>1, <2>5, <2>6 DEF SetOfBlocks
    <2>8. QED BY <2>1, <2>2, <2>7 DEF AppendInv
<1>3. CASE Chain!AppendReturns
    BY <1>3 DEF AppendInv, Chain!AppendReturns
<1>4. QED BY <1>1, <1>2, <1>3, AllocateFirstGoesOn, LinkBehindGoesOn

\* Every step of a walk or an append keeps their invariant.
LEMMA ChainGoesOn == ChainInv /\ Chain!Next => ChainInv'
<1> SUFFICES ASSUME ChainInv, Chain!Next PROVE ChainInv'
    OBVIOUS
<1>1. CASE Chain!Walk \/ Chain!WalkReturns
    <2>1. pc \in Walks /\ pc' \in Walks /\ pc' \notin Appends
        BY <1>1 DEF Chain!Walk, Chain!WalkReturns, Walks, Appends
    <2>2. QED BY <1>1, <2>1, WalkGoesOn DEF ChainInv
<1>2. CASE \/ Chain!AllocateFirst \/ Chain!BeginAppend \/ Chain!Seek
           \/ Chain!LinkBehind \/ Chain!AppendReturns
    <2>1. pc \in Appends /\ pc' \in Appends /\ pc' \notin Walks
        BY <1>2 DEF Chain!AllocateFirst, Chain!BeginAppend, Chain!Seek,
           Chain!LinkBehind, Chain!AppendReturns, Walks, Appends
    <2>2. QED BY <1>2, <2>1, AppendGoesOn DEF ChainInv
<1>3. QED BY <1>1, <1>2 DEF Chain!Next

\* What ChainInv says of a walk and of an append that are over.
LEMMA ChainResult == ChainInv => ListsTheChain /\ AppendsTheChain
<1> SUFFICES ASSUME ChainInv PROVE ListsTheChain /\ AppendsTheChain
    OBVIOUS
<1>1. ASSUME pc = "listed"
      PROVE  /\ WalkEnds(entry.table, entry.first)
             /\ blockList = getBlockList(entry.table, entry.first)
    <2>1. WalkInv /\ block = END_OF_CLUSTER
        BY <1>1 DEF ChainInv, WalkInv, Walks
    <2>2. blockList \in Seq(Blocks) /\ DOMAIN blockList = 1..Len(blockList)
        BY <2>1 DEF WalkInv
    <2>3. IsChain(table, blockList)
        BY <2>1, <2>2 DEF WalkInv, IsChain
    <2>4. blockList \in BlockLists
        BY <2>2, <2>3, WalkNeverRepeats
    <2>5. firstBlock \in Links /\ blockList \in BlockListsFrom[firstBlock]
        BY <2>1, <2>4, ListsFrom DEF WalkInv
    <2>6. QED BY <2>1, <2>3, <2>5, GetBlockList DEF WalkInv
<1>2. ASSUME pc = "appended"
      PROVE  /\ table = IF entry.list = <<>> THEN Linked(entry.table, entry.new)
                        ELSE appendBlocks(entry.table,
                                          Chain!AppendFrom(entry.list, entry.first), entry.new)
             /\ blockList = entry.list \o entry.new
             /\ IsChain(table, blockList) /\ firstBlock = blockList[1]
    <2> DEFINE s == entry.list
               new == entry.new
               from == Chain!AppendFrom(s, entry.first)
               T == IF s = <<>> THEN Linked(entry.table, new)
                    ELSE appendBlocks(entry.table, from, new)
    <2>1. AppendInv /\ newBlocks = <<>>
        BY <1>2 DEF ChainInv, AppendInv, Appends
    <2>2. blockList \in BlockLists /\ blockList \in Seq(Blocks)
        BY <2>1, BlockListType DEF AppendInv
    <2>3. blockList = s \o new
        <3>1. blockList \o <<>> = blockList
            BY <2>2
        <3>2. QED BY <2>1, <3>1 DEF AppendInv
    <2>4. /\ s \in BlockLists /\ new \in BlockLists /\ new # <<>>
          /\ SetOfBlocks(s) \cap SetOfBlocks(new) = {}
          /\ entry.table \in [Blocks -> Links] /\ IsChain(entry.table, s)
        BY <2>1 DEF AppendInv
    <2>5. /\ SetOfBlocks(blockList) = SetOfBlocks(s) \cup SetOfBlocks(new)
          /\ Len(blockList) = Len(s) + Len(new)
        BY <2>3, <2>4, ConcatBlockLists
    <2>6. blockList # <<>>
        <3>1. Len(s) \in Nat /\ Len(new) \in Nat /\ Len(new) # 0
            BY <2>4, BlockListType
        <3>2. Len(blockList) # 0
            <4> HIDE DEF s, new, T
            <4>1. QED BY <2>5, <3>1
        <3>3. CASE blockList = <<>>
            BY <3>2, <3>3
        <3>4. QED BY <3>3
    <2>7. /\ T \in [Blocks -> Links] /\ IsChain(T, s \o new)
          /\ \A b \in Blocks : b \notin SetOfBlocks(s) /\ b \notin SetOfBlocks(new)
                               => T[b] = entry.table[b]
        <3>1. CASE s = <<>>
            <4>1. s \o new = new /\ T = Linked(entry.table, new)
                BY <2>4, <3>1, BlockListType
            <4>2. QED BY <2>4, <4>1, LinkedIsChain
        <3>2. CASE s # <<>>
            <4>1. from \in {s[1], s[Len(s)]}
                BY <2>1, <3>2 DEF AppendInv, Chain!AppendFrom
            <4>2. T = appendBlocks(entry.table, from, new)
                BY <3>2
            <4> HIDE DEF s, new, from, T
            <4>3. QED BY <2>4, <3>2, <4>1, <4>2, AppendBlocks
        <3>3. QED BY <3>1, <3>2
    <2> HIDE DEF T, from
    <2>8. table = T
        <3>1. /\ table \in [Blocks -> Links] /\ IsChain(table, blockList)
              /\ \A b \in Blocks \ SetOfBlocks(blockList) : table[b] = entry.table[b]
            BY <2>1 DEF AppendInv
        <3>2. IsChain(T, blockList)
            BY <2>3, <2>7
        <3>3. \A b \in Blocks \ SetOfBlocks(blockList) : table[b] = T[b]
            BY <2>5, <2>7, <3>1
        <3>4. QED BY <2>2, <2>7, <3>1, <3>2, <3>3, TableUnique
    <2>9. QED BY <2>1, <2>3, <2>6, <2>8 DEF AppendInv, T, from
<1>3. ListsTheChain
    BY <1>1, ChainNames DEF ListsTheChain, Chain!ListsTheChain
<1>4. AppendsTheChain
    BY <1>2, ChainNames DEF AppendsTheChain, Chain!AppendsTheChain
<1>5. QED BY <1>3, <1>4

-----------------------------------------------------------------------------
(* The data loops of fuseRead and fuseWrite, over a device that works.     *)

\* TransferLoops speaks of the operators of Transfer.tla.
LEMMA DataNames ==
    /\ Data!Blocks = Blocks /\ Data!Links = Links /\ Data!Positions = Positions
    /\ \A x : Data!BlockIndex(x) = BlockIndex(x)
    /\ \A c, first, at, s : Data!WriteData(c, first, at, s) = WriteData(c, first, at, s)
    /\ \A c, first, at, n : Data!ReadData(c, first, at, n) = ReadData(c, first, at, n)
<1>1. /\ Data!Blocks = Blocks /\ Data!END_OF_CLUSTER = END_OF_CLUSTER
      /\ Data!Positions = Positions
    BY DEF Data!Blocks, Blocks, Data!END_OF_CLUSTER, END_OF_CLUSTER,
       Data!Positions, Positions
<1>2. Data!Links = Links
    BY <1>1 DEF Data!Links, Links
<1>3. \A x : Data!BlockIndex(x) = BlockIndex(x)
    BY DEF Data!BlockIndex, BlockIndex
<1>4. \A c : Data!flushCache(c) = flushCache(c)
    BY Zenon DEF Data!flushCache, flushCache
<1>5. \A c, b : Data!cacheBlock(c, b) = cacheBlock(c, b)
    BY <1>4, Zenon DEF Data!cacheBlock, cacheBlock
<1>6. \A c, at, part : Data!FillBuffer(c, at, part) = FillBuffer(c, at, part)
    BY <1>1, Zenon DEF Data!FillBuffer, FillBuffer
<1>7. \A at, n : Data!HeadSize(at, n) = HeadSize(at, n)
    BY Zenon DEF Data!HeadSize, HeadSize
<1>8. \A at, n : Data!MiddleBlocks(at, n) = MiddleBlocks(at, n)
    BY <1>7, Zenon DEF Data!MiddleBlocks, MiddleBlocks
<1>9. \A at, n : Data!BlocksTouched(at, n) = BlocksTouched(at, n)
    BY <1>7, <1>8, Zenon DEF Data!BlocksTouched, BlocksTouched
<1>10. ASSUME NEW c, NEW first, NEW at, NEW s
       PROVE  Data!WriteData(c, first, at, s) = WriteData(c, first, at, s)
    <2> DEFINE list == c.file.blockList
               Last(e, m) == CHOOSE k \in 1..m :
                                /\ list[first + k] = e
                                /\ \A l \in (k + 1)..m : list[first + l] # e
               InMid(h, m, inHead, P, B) ==
                   [file |-> inHead.file,
                    disk |-> [e \in B |->
                                IF \E k \in 1..m : list[first + k] = e
                                THEN [p \in P |-> s[h + (Last(e, m) - 1) * BLOCK_SIZE + p + 1]]
                                ELSE inHead.disk[e]]]
               h == HeadSize(at, Len(s))
               m == MiddleBlocks(at, Len(s))
               H == Data!HeadSize(at, Len(s))
               M == Data!MiddleBlocks(at, Len(s))
               inHead == FillBuffer(cacheBlock(c, list[first]), at % BLOCK_SIZE, SubSeq(s, 1, h))
               IH == Data!FillBuffer(Data!cacheBlock(c, list[first]), at % BLOCK_SIZE,
                                     SubSeq(s, 1, H))
    <2>1. WriteData(c, first, at, s) =
            IF h + m * BLOCK_SIZE = Len(s) THEN InMid(h, m, inHead, Positions, Blocks)
            ELSE FillBuffer(cacheBlock(InMid(h, m, inHead, Positions, Blocks),
                                       list[first + m + 1]),
                            0, SubSeq(s, h + m * BLOCK_SIZE + 1, Len(s)))
        BY Zenon DEF WriteData
    <2>2. Data!WriteData(c, first, at, s) =
            IF H + M * BLOCK_SIZE = Len(s) THEN InMid(H, M, IH, Data!Positions, Data!Blocks)
            ELSE Data!FillBuffer(Data!cacheBlock(InMid(H, M, IH, Data!Positions, Data!Blocks),
                                                 list[first + M + 1]),
                                 0, SubSeq(s, H + M * BLOCK_SIZE + 1, Len(s)))
        BY Zenon DEF Data!WriteData
    <2> HIDE DEF InMid
    <2>3. H = h /\ M = m
        BY <1>7, <1>8, Zenon
    <2>4. IH = inHead
        BY <1>5, <1>6, <2>3, Zenon
    <2> HIDE DEF H, h, M, m, IH, inHead, list
    <2> DEFINE mid == InMid(h, m, inHead, Positions, Blocks)
    <2>5. InMid(H, M, IH, Data!Positions, Data!Blocks) = mid
        BY <1>1, <2>3, <2>4, Zenon
    <2> HIDE DEF mid
    <2>6. Data!WriteData(c, first, at, s) =
            IF h + m * BLOCK_SIZE = Len(s) THEN mid
            ELSE FillBuffer(cacheBlock(mid, list[first + m + 1]),
                            0, SubSeq(s, h + m * BLOCK_SIZE + 1, Len(s)))
        <3>1. Data!WriteData(c, first, at, s) =
                IF H + M * BLOCK_SIZE = Len(s) THEN mid
                ELSE Data!FillBuffer(Data!cacheBlock(mid, list[first + M + 1]),
                                     0, SubSeq(s, H + M * BLOCK_SIZE + 1, Len(s)))
            BY <2>2, <2>5, Zenon
        <3>2. Data!WriteData(c, first, at, s) =
                IF h + m * BLOCK_SIZE = Len(s) THEN mid
                ELSE Data!FillBuffer(Data!cacheBlock(mid, list[first + m + 1]),
                                     0, SubSeq(s, h + m * BLOCK_SIZE + 1, Len(s)))
            BY <2>3, <3>1, Zenon
        <3>3. Data!FillBuffer(Data!cacheBlock(mid, list[first + m + 1]),
                              0, SubSeq(s, h + m * BLOCK_SIZE + 1, Len(s)))
                = FillBuffer(cacheBlock(mid, list[first + m + 1]),
                             0, SubSeq(s, h + m * BLOCK_SIZE + 1, Len(s)))
            BY <1>5, <1>6, Zenon
        <3>4. QED BY <3>2, <3>3, Zenon
    <2>7. QED BY <2>1, <2>6, Zenon DEF mid
<1>11. ASSUME NEW c, NEW first, NEW at, NEW n
       PROVE  Data!ReadData(c, first, at, n) = ReadData(c, first, at, n)
    <2> DEFINE b == c.file.blockList[first]
               z == c.file.blockList[first + MiddleBlocks(at, n) + 1]
    <2>1. /\ Data!MiddleBlocks(at, n) = MiddleBlocks(at, n)
          /\ Data!BlocksTouched(at, n) = BlocksTouched(at, n)
          /\ Data!cacheBlock(c, b) = cacheBlock(c, b)
          /\ Data!cacheBlock(cacheBlock(c, b), z) = cacheBlock(cacheBlock(c, b), z)
        BY <1>5, <1>8, <1>9, Zenon
    <2>2. QED BY <2>1, Zenon DEF Data!ReadData, ReadData
<1>12. QED BY <1>1, <1>2, <1>3, <1>10, <1>11

\* The first block of the transfer, counted from one.
Start == (offset \div BLOCK_SIZE) + 1

\* A transfer that is complete.
Transferred ==
    IF call = "write"
    THEN [file |-> file, disk |-> disk] = WriteData(entry, Start, offset, Data!data)
    ELSE /\ [file |-> file, disk |-> disk] = ReadData(entry, Start, offset, size).cache
         /\ out = ReadData(entry, Start, offset, size).data

\* A write and a read that have done m full blocks.
WrittenSoFar(m) ==
    /\ done = HeadSize(offset, size) + m * BLOCK_SIZE /\ index = Start + m
    /\ file = InHead(entry, Start, offset, Data!data).file
    /\ InMiddle(disk, entry, Start, offset, Data!data, m)

ReadSoFar(m) ==
    /\ done = HeadSize(offset, size) + m * BLOCK_SIZE /\ index = Start + m - 1
    /\ [file |-> file, disk |-> disk] = cacheBlock(entry, entry.file.blockList[Start])
    /\ out = [x \in 1..done |-> ReadData(entry, Start, offset, size).data[x]]

\* How far the transfer has come.
DataInv ==
    /\ call \in {"read", "write"} /\ size <= Len(Written)
    /\ Covered(Blocks, entry, Start, offset, size)
    /\ pc = "first" => /\ file = entry.file /\ disk = entry.disk
                       /\ index = Start - 1 /\ done = 0
    /\ pc = "rest" => \/ done = size /\ Transferred
                      \/ \E m \in 0..MiddleBlocks(offset, size) :
                            IF call = "write" THEN WrittenSoFar(m) ELSE ReadSoFar(m)
    /\ pc = "moved" => Transferred

\* What every state of a transfer knows of its arguments.
LEMMA DataFacts ==
    ASSUME DataInv
    PROVE  /\ BLOCK_SIZE \in Nat \ {0} /\ offset \in Nat /\ size \in Nat \ {0}
           /\ Start \in Nat /\ Guarded(Blocks, entry)
           /\ entry = [file |-> entry.file, disk |-> entry.disk]
           /\ entry.file \in OpenFile /\ entry.disk \in Disks
           /\ Data!data \in Seq(Cells) /\ Len(Data!data) = size
           /\ Covered(Blocks, entry, Start, offset, Len(Data!data))
           /\ HeadSize(offset, size) \in 1..size /\ MiddleBlocks(offset, size) \in Nat
           /\ entry.file.blockList[Start] \in Blocks
           /\ offset % BLOCK_SIZE \in Nat
<1>1. /\ BLOCK_SIZE \in Nat \ {0} /\ offset \in Nat /\ size \in Nat \ {0}
      /\ Start \in Nat /\ Guarded(Blocks, entry) /\ size <= Len(Written)
    BY TransferAssumption DEF DataInv, Covered
<1>2. /\ entry = [file |-> entry.file, disk |-> entry.disk]
      /\ entry.file \in OpenFile /\ entry.disk \in Disks
    BY <1>1 DEF Guarded, Cache
<1>3. Data!data \in Seq(Cells) /\ Len(Data!data) = size
    BY <1>1, LoopsAssumption DEF Data!data
<1>4. Covered(Blocks, entry, Start, offset, Len(Data!data))
    BY <1>3 DEF DataInv
<1>5. HeadSize(offset, size) \in 1..size /\ MiddleBlocks(offset, size) \in Nat
      /\ offset % BLOCK_SIZE \in Nat
    BY <1>1, TransferCut
<1>6. entry.file.blockList[Start] \in Blocks
    BY <1>3, <1>4, InHeadKeeps
<1>7. QED BY <1>1, <1>2, <1>3, <1>4, <1>5, <1>6

\* A turn of a loop knows by what is left which block comes.
LEMMA WhatIsLeft ==
    ASSUME DataInv, NEW m \in 0..MiddleBlocks(offset, size),
           done = HeadSize(offset, size) + m * BLOCK_SIZE
    PROVE  /\ Data!remaining = size - done /\ Data!remaining \in Nat /\ done \in Nat
           /\ Data!remaining > BLOCK_SIZE <=> m < MiddleBlocks(offset, size)
<1>1. /\ BLOCK_SIZE \in Nat \ {0} /\ offset \in Nat /\ size \in Nat \ {0}
      /\ HeadSize(offset, size) \in Nat /\ MiddleBlocks(offset, size) \in Nat
    BY DataFacts
<1>2. m \in Nat /\ m <= MiddleBlocks(offset, size)
    BY <1>1
<1>3. LET rest == size - (HeadSize(offset, size) + m * BLOCK_SIZE)
      IN  rest \in Nat /\ (rest > BLOCK_SIZE <=> m < MiddleBlocks(offset, size))
    BY <1>1, <1>2, CutAt
<1>4. m * BLOCK_SIZE \in Nat
    BY <1>1, <1>2
<1>5. QED BY <1>1, <1>3, <1>4 DEF Data!remaining

\* cacheBlock over a device that works is the one of Transfer.tla.
LEMMA CachedIs ==
    ASSUME file \in OpenFile, NEW b
    PROVE  Data!Cached(b, TRUE, TRUE) = cacheBlock([file |-> file, disk |-> disk], b)
<1> DEFINE c == [file |-> file, disk |-> disk]
           dk == IF file.dirty THEN [disk EXCEPT ![file.blockNo] = file.buffer] ELSE disk
<1>1. CASE file.blockNo = b
    BY <1>1 DEF Data!Cached, cacheBlock
<1>2. CASE file.blockNo # b
    <2>1. Data!Cached(b, TRUE, TRUE)
            = [file |-> [file EXCEPT !.dirty = FALSE, !.blockNo = b, !.buffer = dk[b]],
               disk |-> dk]
        BY <1>2 DEF Data!Cached, Data!read, Data!write
    <2>2. flushCache(c) = [file |-> [file EXCEPT !.dirty = FALSE], disk |-> dk]
        <3>1. CASE file.dirty
            BY <3>1 DEF flushCache
        <3>2. CASE ~file.dirty
            <4>1. [file EXCEPT !.dirty = FALSE] = file
                BY <3>2 DEF OpenFile
            <4>2. QED BY <3>2, <4>1 DEF flushCache
        <3>3. QED BY <3>1, <3>2
    <2> HIDE DEF dk
    <2>3. cacheBlock(c, b)
            = [file |-> [[file EXCEPT !.dirty = FALSE] EXCEPT !.blockNo = b, !.buffer = dk[b]],
               disk |-> dk]
        <3> DEFINE clean == flushCache(c)
        <3>1. c.file.blockNo # b
            BY <1>2
        <3> HIDE DEF c, clean
        <3>2. cacheBlock(c, b)
                = [file |-> [clean.file EXCEPT !.blockNo = b, !.buffer = clean.disk[b]],
                   disk |-> clean.disk]
            BY <3>1 DEF cacheBlock, clean
        <3>3. QED BY <2>2, <3>2 DEF clean
    <2>4. [[file EXCEPT !.dirty = FALSE] EXCEPT !.blockNo = b, !.buffer = dk[b]]
            = [file EXCEPT !.dirty = FALSE, !.blockNo = b, !.buffer = dk[b]]
        BY DEF OpenFile
    <2>5. QED BY <2>1, <2>3, <2>4
<1>3. QED BY <1>1, <1>2

\* So is the copying of bytes into the buffer.
LEMMA FilledIs ==
    ASSUME DataInv, NEW c \in Cache, NEW at \in Nat, NEW count \in Nat, done \in Nat,
           done + count <= size
    PROVE  FillBuffer(c, at, SubSeq(Data!data, done + 1, done + count))
             = [file |-> Data!Filled(c, at, count), disk |-> c.disk]
<1> DEFINE part == SubSeq(Data!data, done + 1, done + count)
           bytes == [p \in Positions |-> IF p >= at /\ p < at + Len(part)
                                         THEN part[p - at + 1] ELSE c.file.buffer[p]]
           mine == [p \in Positions |-> IF p >= at /\ p < at + count
                                        THEN Data!data[done + p - at + 1]
                                        ELSE c.file.buffer[p]]
<1>1. /\ Data!data \in Seq(Cells) /\ Len(Data!data) = size /\ size \in Nat
    BY DataFacts
<1>2. Len(part) = count /\ \A i \in 1..count : part[i] = Data!data[done + i]
    BY <1>1
<1> HIDE DEF part
<1>3. bytes = mine
    <2>1. ASSUME NEW p \in Positions, p >= at, p < at + count
          PROVE  part[p - at + 1] = Data!data[done + p - at + 1]
        <3>1. p - at + 1 \in 1..count /\ done + (p - at + 1) = done + p - at + 1
            BY <2>1, TransferAssumption DEF Positions
        <3>2. QED BY <1>2, <3>1
    <2>2. QED BY <1>2, <2>1
<1>4. FillBuffer(c, at, part)
        = [file |-> [c.file EXCEPT !.buffer = bytes, !.dirty = TRUE], disk |-> c.disk]
    BY DEF FillBuffer
<1>5. Data!Filled(c, at, count) = [c.file EXCEPT !.dirty = TRUE, !.buffer = mine]
    <2>1. c.file \in OpenFile
        BY DEF Cache
    <2>2. QED BY <2>1, DataNames DEF Data!Filled, OpenFile
<1> HIDE DEF bytes, mine
<1>6. [c.file EXCEPT !.buffer = bytes, !.dirty = TRUE]
        = [c.file EXCEPT !.dirty = TRUE, !.buffer = bytes]
    BY DEF Cache, OpenFile
<1>7. QED BY <1>3, <1>4, <1>5, <1>6 DEF part

\* Every call begins with DataInv: its block list has all that it touches.
LEMMA DataBegins == Data!Init => DataInv
<1> SUFFICES ASSUME Data!Init PROVE DataInv
    OBVIOUS
<1>1. PICK list \in Lists, b \in Links, dirty \in BOOLEAN :
          /\ dirty => \E k \in DOMAIN list : list[k] = b
          /\ \E bytes \in {Other} \cup {Stored[e] : e \in {b} \cap Blocks} :
                file = [isFree |-> FALSE, dirty |-> dirty, blockNo |-> b,
                        buffer |-> bytes, blockList |-> list]
    BY DataNames DEF Data!Init
<1>2. /\ disk = Stored /\ call \in {"read", "write"} /\ done = 0 /\ pc = "first"
      /\ index = BlockIndex(offset)
      /\ offset \in 0..(Len(file.blockList) * BLOCK_SIZE - 1)
      /\ size \in 1..(Len(file.blockList) * BLOCK_SIZE - offset)
      /\ entry = [file |-> file, disk |-> disk]
    BY DataNames DEF Data!Init
<1> DEFINE n == Len(list)
           q == offset \div BLOCK_SIZE
<1>3. list \in BlockLists /\ n \in Nat /\ Stored \in Disks /\ Other \in BlockData
      /\ n * BLOCK_SIZE <= Len(Written)
    BY LoopsAssumption, BlockListType
<1>4. PICK bytes \in BlockData :
          file = [isFree |-> FALSE, dirty |-> dirty, blockNo |-> b,
                  buffer |-> bytes, blockList |-> list]
    <2>1. \A e \in {b} \cap Blocks : Stored[e] \in BlockData
        BY <1>3 DEF Disks
    <2>2. QED BY <1>1, <1>3, <2>1
<1>5. /\ file \in OpenFile /\ file.blockList = list /\ file.dirty = dirty
      /\ file.blockNo = b
    BY <1>3, <1>4 DEF OpenFile
<1>6. dirty => b \in Blocks
    BY <1>1, <1>3, BlockListType
<1>7. Guarded(Blocks, entry) /\ entry.file = file /\ entry.disk = disk
    BY <1>2, <1>3, <1>5, <1>6 DEF Guarded, Cache
<1>8. BLOCK_SIZE \in Nat \ {0} /\ n * BLOCK_SIZE \in Nat
    BY <1>3, TransferAssumption
<1>9. /\ offset \in Nat /\ size \in Nat \ {0} /\ offset + size <= n * BLOCK_SIZE
      /\ size <= n * BLOCK_SIZE
    <2> DEFINE N == n * BLOCK_SIZE
    <2>1. offset \in 0..(N - 1) /\ size \in 1..(N - offset) /\ N \in Nat
        BY <1>2, <1>5, <1>8
    <2> HIDE DEF N
    <2>2. offset \in Nat /\ size \in Nat \ {0} /\ offset + size <= N /\ size <= N
        BY <2>1
    <2>3. QED BY <2>2 DEF N
<1>10. Start + BlocksTouched(offset, size) - 1 <= n
    <2> DEFINE e == (offset + size - 1) \div BLOCK_SIZE
    <2>1. q + BlocksTouched(offset, size) = e + 1
        BY <1>9, TransferCut
    <2>2. offset + size - 1 \in Nat
        BY <1>9
    <2>3. e \in Nat /\ e <= n - 1
        <3> DEFINE x == offset + size - 1
        <3>1. x \in Nat /\ x < n * BLOCK_SIZE
            BY <1>8, <1>9
        <3> HIDE DEF x
        <3>2. x \div BLOCK_SIZE \in Nat /\ x % BLOCK_SIZE \in Nat
              /\ x = BLOCK_SIZE * (x \div BLOCK_SIZE) + (x % BLOCK_SIZE)
            BY <1>8, <3>1, DivMod
        <3> DEFINE y == x \div BLOCK_SIZE
        <3>3. e = y /\ y \in Nat /\ x % BLOCK_SIZE \in Nat
              /\ x = BLOCK_SIZE * y + (x % BLOCK_SIZE)
            BY <3>2 DEF x
        <3> HIDE DEF y
        <3>4. y \in Nat /\ BLOCK_SIZE * y <= x
            <4>1. BLOCK_SIZE * y \in Nat
                BY <3>3, TransferAssumption
            <4>2. QED BY <3>1, <3>3, <4>1
        <3>5. ASSUME y >= n PROVE FALSE
            <4>1. BLOCK_SIZE * y >= n * BLOCK_SIZE
                BY <1>3, <1>8, <3>4, <3>5
            <4>2. BLOCK_SIZE * y \in Nat
                BY <1>8, <3>4
            <4>3. QED BY <1>8, <3>1, <3>4, <4>1, <4>2
        <3>6. QED BY <1>3, <3>3, <3>4, <3>5
    <2>4. q \in Nat /\ BlocksTouched(offset, size) \in Nat
        BY <1>8, <1>9, DivMod, TransferCut
    <2>5. Start = q + 1
        BY DEF Start
    <2> HIDE DEF e, q, n
    <2>6. QED BY <1>3, <2>1, <2>3, <2>4, <2>5
<1>11. Covered(Blocks, entry, Start, offset, size)
    <2>1. SetOfBlocks(list) \subseteq Blocks
        BY <1>3, BlockListType
    <2>2. Start \in Nat \ {0}
        BY <1>8, <1>9, DivMod DEF Start
    <2>3. QED BY <1>5, <1>7, <1>9, <1>10, <2>1, <2>2 DEF Covered
<1>12. index = Start - 1
    <2>1. BlockIndex(offset) = q
        BY <1>11, IndexFits DEF Start
    <2>2. q \in Nat
        BY <1>8, <1>9, DivMod
    <2> HIDE DEF q
    <2>3. QED BY <1>2, <2>1, <2>2 DEF Start, q
<1>13. size <= Len(Written)
    BY <1>3, <1>8, <1>9, LoopsAssumption
<1>14. QED BY <1>2, <1>7, <1>11, <1>12, <1>13 DEF DataInv

\* The first block.
LEMMA WriteFirstGoesOn ==
    ASSUME DataInv, Data!WriteFirst, ~DeviceFails
    PROVE  DataInv'
<1> DEFINE c == cacheBlock(entry, entry.file.blockList[Start])
           r == offset % BLOCK_SIZE
           head == HeadSize(offset, size)
<1>1. /\ pc = "first" /\ call = "write" /\ file = entry.file /\ disk = entry.disk
      /\ index + 1 = Start /\ done = 0
    BY DataFacts DEF DataInv, Data!WriteFirst
<1>2. Data!block = entry.file.blockList[Start]
    BY <1>1 DEF Data!block
<1>3. Data!Cached(Data!block, TRUE, TRUE) = c
    <2>1. file \in OpenFile /\ [file |-> file, disk |-> disk] = entry
        BY <1>1, DataFacts
    <2>2. QED BY <1>2, <2>1, CachedIs
<1>4. Data!Min2(size, BLOCK_SIZE - r) = head
    BY DEF Data!Min2, HeadSize
<1>5. /\ pc' = "rest" /\ index' = index + 1 /\ done' = head
      /\ file' = Data!Filled(c, r, head) /\ disk' = c.disk
      /\ UNCHANGED <<call, offset, size, entry>>
    <2>1. Data!Outcomes = {TRUE}
        BY DEF Data!Outcomes
    <2>2. QED BY <1>3, <1>4, <2>1 DEF Data!WriteFirst, Data!arguments
<1>6. /\ head \in 1..size /\ size \in Nat /\ r \in Nat /\ Start \in Nat
      /\ Len(Data!data) = size
    BY DataFacts
<1>7. WritesOnly(Blocks, entry, c)
    BY DataFacts, InHeadKeeps
<1>8. c \in Cache
    BY <1>7 DEF WritesOnly, Guarded
<1>9. InHead(entry, Start, offset, Data!data) = [file |-> file', disk |-> disk']
    <2> HIDE DEF c, r, head
    <2>1. done + head <= size /\ done \in Nat /\ head \in Nat
          /\ done + 1 = 1 /\ done + head = head
        BY <1>1, <1>6
    <2>2. FillBuffer(c, r, SubSeq(Data!data, done + 1, done + head))
            = [file |-> Data!Filled(c, r, head), disk |-> c.disk]
        BY <1>6, <1>8, <2>1, FilledIs
    <2>3. InHead(entry, Start, offset, Data!data)
            = FillBuffer(c, r, SubSeq(Data!data, 1, head))
        BY <1>6 DEF InHead, c, r, head
    <2>4. QED BY <1>5, <2>1, <2>2, <2>3
<1>10. disk' \in Disks
    BY <1>5, <1>8 DEF Cache
<1>11. Start' = Start /\ Data!data' = Data!data
    BY <1>5 DEF Start, Data!data
<1>12. WrittenSoFar(0)'
    <2>1. 0 * BLOCK_SIZE = 0 /\ head + 0 = head /\ Start + 0 = Start
        BY <1>6, TransferAssumption
    <2>2. InMiddle(disk', entry, Start, offset, Data!data, 0)
        BY <1>9, <1>10 DEF InMiddle
    <2> HIDE DEF head, c, r
    <2>3. done' = HeadSize(offset, size) + 0 * BLOCK_SIZE /\ index' = Start + 0
        BY <1>1, <1>5, <2>1 DEF head
    <2>4. file' = InHead(entry, Start, offset, Data!data).file
        BY <1>9
    <2>5. QED BY <1>5, <1>11, <2>2, <2>3, <2>4 DEF WrittenSoFar
<1>13. 0 \in 0..MiddleBlocks(offset, size)
    BY DataFacts
<1>14. \E m \in 0..MiddleBlocks(offset', size') : WrittenSoFar(m)'
    BY <1>5, <1>12, <1>13
<1>15. QED BY <1>1, <1>5, <1>11, <1>14 DEF DataInv

\* A write that is not complete is between two full blocks, or has done all
\* of them.
LEMMA StillWriting ==
    ASSUME DataInv, pc = "rest", call = "write", done # size
    PROVE  \E m \in 0..MiddleBlocks(offset, size) : WrittenSoFar(m)
BY DEF DataInv

\* Its handle is the one that has the first bytes in its buffer.
LEMMA WritingHandle ==
    ASSUME DataInv, NEW m, WrittenSoFar(m)
    PROVE  /\ file \in OpenFile /\ disk \in Disks
           /\ file.blockList = entry.file.blockList
           /\ WritesOnly(Blocks, entry, InHead(entry, Start, offset, Data!data))
<1>1. WritesOnly(Blocks, entry, InHead(entry, Start, offset, Data!data))
    BY DataFacts, InHeadKeeps
<1>2. file = InHead(entry, Start, offset, Data!data).file /\ disk \in Disks
    BY DEF WrittenSoFar, InMiddle
<1>3. QED BY <1>1, <1>2 DEF WritesOnly, Guarded, Cache

\* A full block.
LEMMA WriteMiddleGoesOn ==
    ASSUME DataInv, Data!WriteMiddle, ~DeviceFails
    PROVE  DataInv'
<1>1. /\ pc = "rest" /\ call = "write" /\ Data!remaining > BLOCK_SIZE
      /\ Data!remaining = size - done
    BY DEF Data!WriteMiddle, Data!MoreThanABlock, Data!remaining
<1>2. BLOCK_SIZE \in Nat \ {0} /\ size \in Nat \ {0} /\ Start \in Nat
    BY DataFacts
<1>3. PICK m \in 0..MiddleBlocks(offset, size) : WrittenSoFar(m)
    <2>1. done # size
        BY <1>1, <1>2
    <2>2. QED BY <1>1, <2>1, StillWriting
<1> DEFINE b == entry.file.blockList[Start + m + 1]
           bytes == [p \in Positions |-> Data!data[done + p + 1]]
<1>4. m \in Nat /\ m < MiddleBlocks(offset, size) /\ MiddleBlocks(offset, size) \in Nat
      /\ done \in Nat /\ done = HeadSize(offset, size) + m * BLOCK_SIZE
    <2>1. done = HeadSize(offset, size) + m * BLOCK_SIZE
        BY <1>3 DEF WrittenSoFar
    <2>2. Data!remaining > BLOCK_SIZE <=> m < MiddleBlocks(offset, size)
        BY <2>1, WhatIsLeft
    <2>3. done \in Nat
        BY <2>1, WhatIsLeft
    <2>4. QED BY <1>1, <2>1, <2>2, <2>3, DataFacts
<1>5. index = Start + m /\ file \in OpenFile /\ disk \in Disks
      /\ file.blockList = entry.file.blockList
    BY <1>3, WritingHandle DEF WrittenSoFar
<1>6. Data!block = b
    BY <1>5 DEF Data!block
<1>7. /\ disk' = [disk EXCEPT ![b] = bytes]
      /\ index' = index + 1 /\ done' = done + BLOCK_SIZE
      /\ UNCHANGED <<file, pc, call, offset, size, entry>>
    <2>1. Data!Outcomes = {TRUE} /\ Data!Positions = Positions
        BY DataNames DEF Data!Outcomes
    <2>2. QED BY <1>6, <2>1 DEF Data!WriteMiddle, Data!arguments, Data!write
<1>8. Start' = Start /\ Data!data' = Data!data
    BY <1>7 DEF Start, Data!data
<1>9. /\ m + 1 \in 1..MiddleBlocks(offset, size)
      /\ m + 1 \in 0..MiddleBlocks(offset, size)
    BY <1>4
<1>10. Len(Data!data) = size /\ Data!data \in Seq(Cells) /\ offset \in Nat
       /\ Covered(Blocks, entry, Start, offset, size)
    BY DataFacts DEF DataInv
<1>11. bytes = FullBlock(offset, Data!data, m + 1) /\ bytes \in BlockData
    <2>1. m + 1 - 1 = m
        BY <1>4
    <2>2. FullBlock(offset, Data!data, m + 1) = bytes
        BY <1>4, <1>10, <2>1 DEF FullBlock
    <2>3. FullBlock(offset, Data!data, m + 1) \in BlockData
        <3>1. Len(Data!data) # 0 /\ m + 1 \in 1..MiddleBlocks(offset, Len(Data!data))
            BY <1>2, <1>9, <1>10
        <3>2. QED BY <1>10, <3>1, FullBlockType
    <2>4. QED BY <2>2, <2>3
<1>12. ASSUME NEW j \in 0..MiddleBlocks(offset, size), NEW k \in 0..MiddleBlocks(offset, size),
              entry.file.blockList[Start + j] = entry.file.blockList[Start + k]
       PROVE  j = k
    <2>1. j \in Nat /\ k \in Nat
        BY <1>4
    <2>2. j < BlocksTouched(offset, size) /\ k < BlocksTouched(offset, size)
        BY <1>2, <1>10, TouchedBlocks
    <2>3. QED BY <1>10, <1>12, <2>1, <2>2, CoveredInjective
<1>13. b \in Blocks
    <2>1. m + 1 < BlocksTouched(offset, size) /\ m + 1 \in Nat
        BY <1>2, <1>4, <1>9, <1>10, TouchedBlocks
    <2>2. Start + (m + 1) = Start + m + 1
        BY <1>2, <1>4
    <2>3. QED BY <1>10, <2>1, <2>2, CoveredBlocks
<1>14. InMiddle(disk', entry, Start, offset, Data!data, m + 1)
    <2> DEFINE list == entry.file.blockList
    <2>1. InMiddle(disk, entry, Start, offset, Data!data, m)
        BY <1>3 DEF WrittenSoFar
    <2>2. b = list[Start + (m + 1)]
        BY <1>2, <1>4
    <2>3. disk' \in Disks
        BY <1>5, <1>7, <1>11, <1>13 DEF Disks
    <2>4. ASSUME NEW k \in 1..(m + 1)
          PROVE  disk'[list[Start + k]] = FullBlock(offset, Data!data, k)
        <3>1. k \in 0..MiddleBlocks(offset, size)
            BY <1>4
        <3>2. CASE k = m + 1
            BY <1>5, <1>7, <1>11, <1>13, <2>2, <3>2 DEF Disks
        <3>3. CASE k # m + 1
            <4>1. k \in 1..m
                BY <1>4, <3>3
            <4>2. list[Start + k] # b
                BY <1>9, <1>12, <2>2, <3>1, <3>3
            <4>3. disk[list[Start + k]] = FullBlock(offset, Data!data, k)
                BY <2>1, <4>1 DEF InMiddle
            <4>4. list[Start + k] \in Blocks
                <5>1. k \in Nat /\ k < BlocksTouched(offset, size)
                    BY <1>2, <1>10, <3>1, <4>1, TouchedBlocks
                <5>2. QED BY <1>10, <5>1, CoveredBlocks
            <4>5. QED BY <1>5, <1>7, <4>2, <4>3, <4>4 DEF Disks
        <3>4. QED BY <3>2, <3>3
    <2>5. ASSUME NEW e \in Blocks, \A k \in 1..(m + 1) : list[Start + k] # e
          PROVE  disk'[e] = InHead(entry, Start, offset, Data!data).disk[e]
        <3>1. e # b
            BY <1>4, <2>2, <2>5
        <3>2. \A k \in 1..m : list[Start + k] # e
            BY <1>4, <2>5
        <3>3. disk[e] = InHead(entry, Start, offset, Data!data).disk[e]
            BY <2>1, <3>2 DEF InMiddle
        <3>4. QED BY <1>5, <1>7, <3>1, <3>3 DEF Disks
    <2>6. QED BY <2>3, <2>4, <2>5 DEF InMiddle
<1>15. done' = HeadSize(offset, size) + (m + 1) * BLOCK_SIZE
    <2>1. (m + 1) * BLOCK_SIZE = m * BLOCK_SIZE + BLOCK_SIZE /\ m * BLOCK_SIZE \in Nat
        BY <1>2, <1>4
    <2>2. HeadSize(offset, size) \in Nat
        BY DataFacts
    <2>3. QED BY <1>2, <1>4, <1>7, <2>1, <2>2
<1>16. WrittenSoFar(m + 1)'
    <2>1. index' = Start + (m + 1)
        BY <1>2, <1>4, <1>5, <1>7
    <2>2. file = InHead(entry, Start, offset, Data!data).file
        BY <1>3 DEF WrittenSoFar
    <2> HIDE DEF b, bytes
    <2>3. QED BY <1>7, <1>8, <1>14, <1>15, <2>1, <2>2 DEF WrittenSoFar
<1>17. \E k \in 0..MiddleBlocks(offset', size') : WrittenSoFar(k)'
    BY <1>7, <1>9, <1>16
<1>18. QED BY <1>1, <1>7, <1>8, <1>17 DEF DataInv

\* All full blocks are written when no more than a block is left.
LEMMA WrittenToTheLast ==
    ASSUME DataInv, pc = "rest", call = "write",
           NEW m \in 0..MiddleBlocks(offset, size), WrittenSoFar(m),
           Data!remaining <= BLOCK_SIZE
    PROVE  /\ m = MiddleBlocks(offset, size) /\ done = DoneBeforeLast(offset, Len(Data!data))
           /\ [file |-> file, disk |-> disk]
                = [file |-> InHead(entry, Start, offset, Data!data).file,
                   disk |-> MiddleDisk(entry, Start, offset, Data!data)]
<1>1. done = HeadSize(offset, size) + m * BLOCK_SIZE
    BY DEF WrittenSoFar
<1>2. /\ Data!remaining \in Nat
      /\ Data!remaining > BLOCK_SIZE <=> m < MiddleBlocks(offset, size)
    BY <1>1, WhatIsLeft
<1>3. MiddleBlocks(offset, size) \in Nat /\ BLOCK_SIZE \in Nat /\ Len(Data!data) = size
      /\ Data!data \in Seq(Cells) /\ Covered(Blocks, entry, Start, offset, Len(Data!data))
    BY DataFacts
<1>4. m = MiddleBlocks(offset, size)
    BY <1>2, <1>3
<1>5. done = DoneBeforeLast(offset, Len(Data!data))
    BY <1>1, <1>3, <1>4 DEF DoneBeforeLast
<1>6. InMiddle(MiddleDisk(entry, Start, offset, Data!data), entry, Start, offset, Data!data, m)
    BY <1>3, <1>4, MiddleDiskIs
<1>7. disk = MiddleDisk(entry, Start, offset, Data!data)
    BY <1>6, InMiddleUnique DEF WrittenSoFar
<1>8. QED BY <1>4, <1>5, <1>7 DEF WrittenSoFar

\* The last block.
LEMMA WriteLastGoesOn ==
    ASSUME DataInv, Data!WriteLast, ~DeviceFails
    PROVE  DataInv'
<1> DEFINE b == entry.file.blockList[Start + MiddleBlocks(offset, Len(Data!data)) + 1]
           c == AtLast(entry, Start, offset, Data!data)
           left == Data!remaining
<1>1. pc = "rest" /\ call = "write" /\ left \in 1..BLOCK_SIZE /\ left = size - done
    BY DEF Data!WriteLast, Data!remaining
<1>2. /\ BLOCK_SIZE \in Nat \ {0} /\ size \in Nat \ {0} /\ Start \in Nat
      /\ Len(Data!data) = size /\ Data!data \in Seq(Cells)
      /\ Covered(Blocks, entry, Start, offset, Len(Data!data))
    BY DataFacts
<1>3. PICK m \in 0..MiddleBlocks(offset, size) : WrittenSoFar(m)
    <2>1. done # size
        BY <1>1, <1>2
    <2>2. QED BY <1>1, <2>1, StillWriting
<1>4. /\ m = MiddleBlocks(offset, size) /\ done = DoneBeforeLast(offset, Len(Data!data))
      /\ [file |-> file, disk |-> disk]
           = [file |-> InHead(entry, Start, offset, Data!data).file,
              disk |-> MiddleDisk(entry, Start, offset, Data!data)]
    <2>1. left <= BLOCK_SIZE
        BY <1>1, <1>2
    <2>2. QED BY <1>1, <1>3, <2>1, WrittenToTheLast
<1>5. done \in Nat /\ left \in Nat /\ done + left = size
    <2>1. done \in Nat
        BY <1>3, WhatIsLeft DEF WrittenSoFar
    <2>2. QED BY <1>1, <1>2, <2>1
<1>6. done # size
    BY <1>1, <1>5
<1>7. index = Start + m /\ file \in OpenFile /\ file.blockList = entry.file.blockList
    BY <1>3, WritingHandle DEF WrittenSoFar
<1>8. Data!block = b
    BY <1>2, <1>4, <1>7 DEF Data!block
<1>9. Data!Cached(Data!block, TRUE, TRUE) = c
    <2>1. Data!Cached(b, TRUE, TRUE) = cacheBlock([file |-> file, disk |-> disk], b)
        BY <1>7, CachedIs
    <2>2. cacheBlock([file |-> file, disk |-> disk], b) = c
        BY <1>4 DEF AtLast
    <2>3. QED BY <1>8, <2>1, <2>2
<1>10. /\ file' = Data!Filled(c, 0, left) /\ disk' = c.disk /\ done' = size
       /\ UNCHANGED <<pc, call, offset, size, entry>>
    <2>1. Data!Outcomes = {TRUE}
        BY DEF Data!Outcomes
    <2>2. QED BY <1>9, <2>1 DEF Data!WriteLast, Data!arguments
<1>11. c \in Cache
    <2>1. WritesOnly(Blocks, entry, c)
        BY <1>2, <1>4, <1>6, AtLastKeeps
    <2>2. QED BY <2>1 DEF WritesOnly, Guarded
<1>12. FillBuffer(c, 0, SubSeq(Data!data, done + 1, done + left))
         = [file |-> Data!Filled(c, 0, left), disk |-> c.disk]
    <2> HIDE DEF c, left
    <2>1. done + left <= size /\ 0 \in Nat
        BY <1>2, <1>5
    <2>2. QED BY <1>5, <1>11, <2>1, FilledIs
<1>13. InLast(entry, Start, offset, Data!data)
         = FillBuffer(c, 0, SubSeq(Data!data, done + 1, done + left))
    BY <1>2, <1>4, <1>5 DEF InLast
<1>14. WriteData(entry, Start, offset, Data!data) = InLast(entry, Start, offset, Data!data)
    BY <1>2, <1>4, <1>6, WriteDataParts
<1>15. Start' = Start /\ Data!data' = Data!data
    BY <1>10 DEF Start, Data!data
<1>16. Transferred'
    <2> HIDE DEF c, left
    <2>1. [file |-> file', disk |-> disk'] = WriteData(entry, Start, offset, Data!data)
        BY <1>10, <1>12, <1>13, <1>14
    <2>2. call' = "write" /\ offset' = offset /\ entry' = entry
        BY <1>1, <1>10
    <2>3. QED BY <1>15, <2>1, <2>2 DEF Transferred
<1>17. QED BY <1>1, <1>10, <1>15, <1>16 DEF DataInv

\* ReadData goes on from what the first block has left of the handle.
LEMMA ReadDataCache ==
    ASSUME NEW c, NEW first, NEW at, NEW n
    PROVE  ReadData(c, first, at, n).cache =
             LET atHead == cacheBlock(c, c.file.blockList[first])
             IN  IF BlocksTouched(at, n) = 1 THEN atHead
                 ELSE cacheBlock(atHead, c.file.blockList[first + MiddleBlocks(at, n) + 1])
BY DEF ReadData

\* What a read of n bytes leaves in buf is as long as that.
LEMMA ReadDataIs ==
    ASSUME DataInv
    PROVE  LET r == ReadData(entry, Start, offset, size)
           IN  /\ r.data \in Seq(Cells) /\ Len(r.data) = size
               /\ r.data = [x \in 1..size |-> r.data[x]]
<1>1. Covered(Blocks, entry, Start, offset, size)
    BY DEF DataInv
<1>2. QED BY <1>1, ReadDataStaysInList

\* The call returns when no byte is left.
LEMMA ReturnGoesOn ==
    ASSUME DataInv, Data!Return
    PROVE  DataInv'
<1>1. /\ pc = "rest" /\ pc' = "moved" /\ Data!remaining = 0 /\ Data!remaining = size - done
      /\ UNCHANGED <<file, disk, index, done, out, call, offset, size, entry>>
    BY DEF Data!Return, Data!arguments, Data!remaining
<1>2. /\ BLOCK_SIZE \in Nat \ {0} /\ size \in Nat \ {0} /\ Start \in Nat
      /\ offset \in Nat /\ Len(Data!data) = size
    BY DataFacts
<1>3. Start' = Start /\ Data!data' = Data!data
    BY <1>1 DEF Start, Data!data
<1>4. Transferred
    <2>1. CASE done = size /\ Transferred
        BY <2>1
    <2>2. ASSUME NEW m \in 0..MiddleBlocks(offset, size), call = "write", WrittenSoFar(m)
          PROVE  Transferred
        <3>1. Data!remaining <= BLOCK_SIZE
            BY <1>1, <1>2
        <3>2. /\ done = DoneBeforeLast(offset, Len(Data!data))
              /\ [file |-> file, disk |-> disk]
                   = [file |-> InHead(entry, Start, offset, Data!data).file,
                      disk |-> MiddleDisk(entry, Start, offset, Data!data)]
            BY <1>1, <2>2, <3>1, WrittenToTheLast
        <3>3. done = size
            <4>1. done \in Nat
                BY <2>2, WhatIsLeft DEF WrittenSoFar
            <4>2. QED BY <1>1, <1>2, <4>1
        <3>4. QED BY <1>2, <2>2, <3>2, <3>3, WriteDataParts DEF Transferred
    <2>3. ASSUME NEW m \in 0..MiddleBlocks(offset, size), call # "write", ReadSoFar(m)
          PROVE  Transferred
        <3>1. /\ done = HeadSize(offset, size) + m * BLOCK_SIZE
              /\ [file |-> file, disk |-> disk]
                   = cacheBlock(entry, entry.file.blockList[Start])
              /\ out = [x \in 1..done |-> ReadData(entry, Start, offset, size).data[x]]
            BY <2>3 DEF ReadSoFar
        <3>2. done \in Nat /\ (Data!remaining > BLOCK_SIZE <=> m < MiddleBlocks(offset, size))
            BY <3>1, WhatIsLeft
        <3>3. MiddleBlocks(offset, size) \in Nat
            BY DataFacts
        <3>4. done = size /\ m = MiddleBlocks(offset, size)
            BY <1>1, <1>2, <3>2, <3>3
        <3>5. m = 0 /\ BlocksTouched(offset, size) = 1
            <4>1. size \in Nat \ {0}
                BY <1>2
            <4>2. HeadSize(offset, size) + MiddleBlocks(offset, size) * BLOCK_SIZE = size
                BY <3>1, <3>4
            <4>3. BlocksTouched(offset, size) = MiddleBlocks(offset, size) + 1
                BY <1>2, <4>2, TransferCut
            <4>4. BlocksTouched(offset, size) # MiddleBlocks(offset, size) + 2
                BY <3>3, <4>3
            <4>5. BlocksTouched(offset, size) = 1
                BY <4>4 DEF BlocksTouched
            <4>6. QED BY <3>3, <3>4, <4>3, <4>5
        <3>6. [file |-> file, disk |-> disk] = ReadData(entry, Start, offset, size).cache
            BY <3>1, <3>5, ReadDataCache
        <3>7. out = ReadData(entry, Start, offset, size).data
            BY <3>1, <3>4, ReadDataIs
        <3>8. QED BY <2>3, <3>6, <3>7 DEF Transferred
    <2>4. QED BY <1>1, <2>1, <2>2, <2>3 DEF DataInv
<1>5. Transferred'
    BY <1>1, <1>3, <1>4 DEF Transferred
<1>6. QED BY <1>1, <1>3, <1>5 DEF DataInv

\* Bytes put behind the first ones of s are the first ones of s, if they come
\* next in it.
LEMMA NextPart ==
    ASSUME NEW s \in Seq(Cells), NEW a \in Nat, NEW b \in Nat, a + b <= Len(s),
           NEW part, part = [k \in 1..b |-> s[a + k]]
    PROVE  [x \in 1..a |-> s[x]] \o part = [x \in 1..(a + b) |-> s[x]]
<1> DEFINE l == [x \in 1..a |-> s[x]]
           all == [x \in 1..(a + b) |-> s[x]]
<1>1. /\ l \in Seq(Cells) /\ Len(l) = a /\ \A x \in 1..a : l[x] = s[x]
      /\ part \in Seq(Cells) /\ Len(part) = b /\ \A k \in 1..b : part[k] = s[a + k]
      /\ all \in Seq(Cells) /\ Len(all) = a + b /\ \A x \in 1..(a + b) : all[x] = s[x]
    <2>1. \A x \in 1..(a + b) : s[x] \in Cells
        OBVIOUS
    <2>2. l \in Seq(Cells) /\ Len(l) = a
        BY <2>1
    <2>3. \A k \in 1..b : s[a + k] \in Cells
        BY <2>1
    <2>4. part \in Seq(Cells) /\ Len(part) = b
        BY <2>3
    <2>5. all \in Seq(Cells) /\ Len(all) = a + b
        BY <2>1
    <2>6. QED BY <2>2, <2>4, <2>5
<1> HIDE DEF l, all
<1>2. /\ l \o part \in Seq(Cells) /\ Len(l \o part) = a + b
      /\ \A x \in 1..(a + b) : (l \o part)[x] = IF x <= a THEN l[x] ELSE part[x - a]
    BY <1>1
<1>3. ASSUME NEW x \in 1..(a + b) PROVE (l \o part)[x] = all[x]
    <2>1. CASE x <= a
        BY <1>1, <1>2, <2>1
    <2>2. CASE ~(x <= a)
        <3>1. x - a \in 1..b /\ a + (x - a) = x /\ ~(x <= a)
            BY <2>2
        <3>2. (l \o part)[x] = part[x - a]
            BY <1>2, <3>1
        <3>3. part[x - a] = s[a + (x - a)]
            BY <1>1, <3>1
        <3>4. all[x] = s[x]
            BY <1>1
        <3>5. QED BY <3>1, <3>2, <3>3, <3>4
    <2>3. QED BY <2>1, <2>2, Zenon
<1>4. l \o part = all
    <2>1. \A x \in 1..Len(l \o part) : (l \o part)[x] = all[x]
        BY <1>2, <1>3
    <2>2. l \o part \in Seq(Cells) /\ all \in Seq(Cells) /\ Len(l \o part) = Len(all)
        BY <1>1, <1>2
    <2>3. QED BY <2>1, <2>2, SeqEqual
<1>5. QED BY <1>4 DEF l, all

LEMMA NextBytes ==
    ASSUME NEW s \in Seq(Cells), NEW a \in Nat, NEW b \in Nat, a + b <= Len(s)
    PROVE  [x \in 1..a |-> s[x]] \o [k \in 1..b |-> s[a + k]]
             = [x \in 1..(a + b) |-> s[x]]
<1> DEFINE next == [k \in 1..b |-> s[a + k]]
<1>1. next = [k \in 1..b |-> s[a + k]]
    OBVIOUS
<1> HIDE DEF next
<1>2. [x \in 1..a |-> s[x]] \o next = [x \in 1..(a + b) |-> s[x]]
    BY <1>1, NextPart
<1>3. QED BY <1>2 DEF next

\* A read that is not complete has the first block in its cache.
LEMMA StillReading ==
    ASSUME DataInv, pc = "rest", call # "write", done # size
    PROVE  \E m \in 0..MiddleBlocks(offset, size) : ReadSoFar(m)
BY DEF DataInv

LEMMA ReadingHandle ==
    ASSUME DataInv
    PROVE  LET atHead == cacheBlock(entry, entry.file.blockList[Start])
           IN  /\ atHead.file \in OpenFile /\ atHead.disk \in Disks
               /\ atHead = [file |-> atHead.file, disk |-> atHead.disk]
               /\ atHead.file.blockList = entry.file.blockList
<1> DEFINE atHead == cacheBlock(entry, entry.file.blockList[Start])
<1>1. WritesOnly(Blocks, entry, atHead)
    BY DataFacts, InHeadKeeps
<1> HIDE DEF atHead
<1>2. QED BY <1>1 DEF WritesOnly, Guarded, Cache, atHead

\* The first block.
LEMMA ReadFirstGoesOn ==
    ASSUME DataInv, Data!ReadFirst, ~DeviceFails
    PROVE  DataInv'
<1> DEFINE c == cacheBlock(entry, entry.file.blockList[Start])
           r == offset % BLOCK_SIZE
           head == HeadSize(offset, size)
           all == ReadData(entry, Start, offset, size).data
<1>1. /\ pc = "first" /\ call = "read" /\ file = entry.file /\ disk = entry.disk
      /\ index + 1 = Start /\ index = Start - 1 /\ done = 0
    BY DataFacts DEF DataInv, Data!ReadFirst
<1>2. /\ BLOCK_SIZE \in Nat \ {0} /\ size \in Nat \ {0} /\ Start \in Nat /\ offset \in Nat
      /\ head \in 1..size /\ r \in Nat
    BY DataFacts
<1>3. Data!block = entry.file.blockList[Start]
    BY <1>1 DEF Data!block
<1>4. Data!Cached(Data!block, TRUE, TRUE) = c
    <2>1. file \in OpenFile /\ [file |-> file, disk |-> disk] = entry
        BY <1>1, DataFacts
    <2>2. QED BY <1>3, <2>1, CachedIs
<1>5. Data!remaining = size
    BY <1>1, <1>2 DEF Data!remaining
<1>6. Data!Min2(size, BLOCK_SIZE - r) = head
    BY DEF Data!Min2, HeadSize
<1>7. /\ file' = c.file /\ disk' = c.disk
      /\ out' = [k \in 1..head |-> c.file.buffer[r + k - 1]] /\ done' = head
      /\ pc' = "rest" /\ UNCHANGED <<index, call, offset, size, entry>>
    <2>1. Data!Outcomes = {TRUE}
        BY DEF Data!Outcomes
    <2>2. QED BY <1>4, <1>5, <1>6, <2>1 DEF Data!ReadFirst, Data!arguments
<1>8. Start' = Start
    BY <1>7 DEF Start
<1>9. c = [file |-> c.file, disk |-> c.disk]
    BY ReadingHandle
<1>10. out' = [x \in 1..head |-> all[x]]
    <2>1. ASSUME NEW x \in 1..head PROVE c.file.buffer[r + x - 1] = all[x]
        <3>1. x \in 1..size /\ x - 1 < head /\ r + x - 1 = r + (x - 1)
            BY <1>2
        <3>2. all[x] = c.file.buffer[r + (x - 1)]
            BY <1>2, <3>1, ReadDataHead
        <3>3. QED BY <3>1, <3>2
    <2> HIDE DEF c, r, head, all
    <2>2. QED BY <1>7, <2>1
<1>11. ReadSoFar(0)'
    <2>1. done' = HeadSize(offset, size) + 0 * BLOCK_SIZE /\ index' = Start + 0 - 1
        BY <1>1, <1>2, <1>7
    <2> HIDE DEF head
    <2>2. out' = [x \in 1..done' |-> all[x]]
        BY <1>7, <1>10
    <2>3. [file |-> file', disk |-> disk'] = c
        BY <1>7, <1>9
    <2> HIDE DEF r
    <2>4. QED BY <1>7, <1>8, <2>1, <2>2, <2>3 DEF ReadSoFar
<1>12. \E m \in 0..MiddleBlocks(offset', size') : ReadSoFar(m)'
    <2>1. 0 \in 0..MiddleBlocks(offset, size)
        BY DataFacts
    <2>2. QED BY <1>7, <1>11, <2>1
<1>13. Covered(Blocks, entry, Start, offset, size)' /\ (size <= Len(Written))'
    BY <1>7, <1>8 DEF DataInv
<1>14. call' = "read" /\ pc' = "rest"
    BY <1>1, <1>7
<1> HIDE DEF c, r, head, all
<1>15. QED BY <1>12, <1>13, <1>14 DEF DataInv

\* What ReadData finds in a full block.
LEMMA ReadDataMiddle ==
    ASSUME NEW c, NEW first \in Nat, NEW from \in Nat, NEW n \in Nat \ {0},
           NEW m \in Nat, m < MiddleBlocks(from, n), NEW i \in Nat, i < BLOCK_SIZE,
           NEW x \in 1..n, x - 1 = BehindHeadAt(from, n, m, i)
    PROVE  ReadData(c, first, from, n).data[x]
             = cacheBlock(c, c.file.blockList[first]).disk[
                   c.file.blockList[first + m + 1]][i]
BY ReadDataBehind

\* A full block, straight into buf.
LEMMA ReadMiddleGoesOn ==
    ASSUME DataInv, Data!ReadMiddle, ~DeviceFails
    PROVE  DataInv'
<1> DEFINE c == cacheBlock(entry, entry.file.blockList[Start])
           all == ReadData(entry, Start, offset, size).data
<1>1. /\ pc = "rest" /\ call = "read" /\ Data!remaining > BLOCK_SIZE
      /\ Data!remaining = size - done
    BY DEF Data!ReadMiddle, Data!remaining
<1>2. /\ BLOCK_SIZE \in Nat \ {0} /\ size \in Nat \ {0} /\ Start \in Nat /\ offset \in Nat
      /\ HeadSize(offset, size) \in Nat /\ MiddleBlocks(offset, size) \in Nat
    BY DataFacts
<1>3. PICK m \in 0..MiddleBlocks(offset, size) : ReadSoFar(m)
    <2>1. done # size
        BY <1>1, <1>2
    <2>2. QED BY <1>1, <2>1, StillReading
<1>4. /\ done = HeadSize(offset, size) + m * BLOCK_SIZE /\ index = Start + m - 1
      /\ [file |-> file, disk |-> disk] = c
      /\ out = [x \in 1..done |-> all[x]]
    BY <1>3 DEF ReadSoFar
<1>5. m \in Nat /\ m < MiddleBlocks(offset, size) /\ done \in Nat
    <2>1. done = HeadSize(offset, size) + m * BLOCK_SIZE
        BY <1>4
    <2>2. done \in Nat /\ (Data!remaining > BLOCK_SIZE <=> m < MiddleBlocks(offset, size))
        BY <2>1, WhatIsLeft
    <2>3. QED BY <1>1, <1>2, <2>2
<1>6. file = c.file /\ disk = c.disk /\ c.file.blockList = entry.file.blockList
    <2>1. c.file.blockList = entry.file.blockList
        BY ReadingHandle
    <2> HIDE DEF c
    <2>2. QED BY <1>4, <2>1
<1> DEFINE b == entry.file.blockList[Start + m + 1]
           part == [k \in 1..BLOCK_SIZE |-> disk[b][k - 1]]
<1>7. /\ out' = out \o part /\ done' = done + BLOCK_SIZE /\ index' = index + 1
      /\ UNCHANGED <<file, disk, pc, call, offset, size, entry>>
    <2>1. Data!Outcomes = {TRUE}
        BY DEF Data!Outcomes
    <2>2. index + 2 = Start + m + 1
        BY <1>2, <1>4, <1>5
    <2>3. QED BY <1>6, <2>1, <2>2 DEF Data!ReadMiddle, Data!arguments, Data!read
<1>8. Start' = Start
    BY <1>7 DEF Start
<1>9. m + 1 \in 0..MiddleBlocks(offset, size)
    BY <1>2, <1>5
<1>10. done + BLOCK_SIZE <= size /\ all \in Seq(Cells) /\ Len(all) = size
    <2>1. all \in Seq(Cells) /\ Len(all) = size
        BY ReadDataIs
    <2>2. QED BY <1>1, <1>2, <1>5, <2>1
<1>11. part = [k \in 1..BLOCK_SIZE |-> all[done + k]]
    <2>1. ASSUME NEW k \in 1..BLOCK_SIZE PROVE disk[b][k - 1] = all[done + k]
        <3>1. k - 1 \in Nat /\ k - 1 < BLOCK_SIZE
            BY <1>2
        <3>2. done + k \in 1..size
            BY <1>2, <1>5, <1>10
        <3>3. done + k - 1 = BehindHeadAt(offset, size, m, k - 1)
            <4>1. BehindHeadAt(offset, size, m, k - 1) = done + (k - 1)
                BY <1>4 DEF BehindHeadAt
            <4>2. QED BY <1>5, <4>1
        <3> DEFINE i == k - 1
                   x == done + k
        <3>4. i \in Nat /\ i < BLOCK_SIZE /\ x \in 1..size
              /\ x - 1 = BehindHeadAt(offset, size, m, i)
            <4>1. i \in Nat /\ i < BLOCK_SIZE
                BY <3>1
            <4>2. x \in 1..size
                BY <3>2
            <4>3. x - 1 = done + k - 1
                BY <1>5
            <4>4. x - 1 = BehindHeadAt(offset, size, m, i)
                BY <3>3, <4>3, Zenon
            <4>5. QED BY <4>1, <4>2, <4>4, Zenon
        <3> HIDE DEF i, x
        <3>5. all[x] = c.disk[entry.file.blockList[Start + m + 1]][i]
            <4>1. size \in Nat \ {0} /\ Start \in Nat /\ offset \in Nat /\ m \in Nat
                  /\ m < MiddleBlocks(offset, size)
                BY <1>2, <1>5
            <4>2. QED BY <3>4, <4>1, ReadDataMiddle
        <3>6. all[x] = disk[b][i]
            <4>1. disk = c.disk
                BY <1>6
            <4> HIDE DEF c, all
            <4>2. QED BY <3>5, <4>1, Zenon
        <3>7. QED BY <3>6 DEF i, x
    <2> HIDE DEF all, b
    <2>2. QED BY <2>1
<1>12. out' = [x \in 1..done' |-> all[x]]
    <2> HIDE DEF all, part
    <2>1. [x \in 1..done |-> all[x]] \o part = [x \in 1..(done + BLOCK_SIZE) |-> all[x]]
        <3>1. done + BLOCK_SIZE <= Len(all) /\ BLOCK_SIZE \in Nat
            BY <1>2, <1>10
        <3>2. [x \in 1..done |-> all[x]] \o [k \in 1..BLOCK_SIZE |-> all[done + k]]
                = [x \in 1..(done + BLOCK_SIZE) |-> all[x]]
            BY <1>5, <1>10, <3>1, NextBytes
        <3>3. QED BY <1>11, <3>2, Zenon
    <2>2. QED BY <1>4, <1>7, <2>1
<1>13. done' = HeadSize(offset, size) + (m + 1) * BLOCK_SIZE
    <2>1. (m + 1) * BLOCK_SIZE = m * BLOCK_SIZE + BLOCK_SIZE /\ m * BLOCK_SIZE \in Nat
        BY <1>2, <1>5
    <2>2. QED BY <1>2, <1>4, <1>5, <1>7, <2>1, SMTT(30)
<1>14. ReadSoFar(m + 1)'
    <2>1. index' = Start + (m + 1) - 1
        BY <1>2, <1>4, <1>5, <1>7
    <2> HIDE DEF all, c
    <2>2. [file |-> file', disk |-> disk'] = c
        BY <1>4, <1>7
    <2>3. QED BY <1>7, <1>8, <1>12, <1>13, <2>1, <2>2 DEF ReadSoFar, all, c
<1>15. \E k \in 0..MiddleBlocks(offset', size') : ReadSoFar(k)'
    BY <1>7, <1>9, <1>14
<1>16. Covered(Blocks, entry, Start, offset, size)' /\ (size <= Len(Written))'
    BY <1>7, <1>8 DEF DataInv
<1>17. call' = "read" /\ pc' = "rest"
    BY <1>1, <1>7
<1> HIDE DEF c, all, b, part
<1>18. QED BY <1>15, <1>16, <1>17 DEF DataInv

\* What is left, a block at most.
LEMMA ReadLastGoesOn ==
    ASSUME DataInv, Data!ReadLast, ~DeviceFails
    PROVE  DataInv'
<1> DEFINE atHead == cacheBlock(entry, entry.file.blockList[Start])
           all == ReadData(entry, Start, offset, size).data
           middle == MiddleBlocks(offset, size)
           b == entry.file.blockList[Start + middle + 1]
           c == cacheBlock(atHead, b)
           left == Data!remaining
           part == [k \in 1..left |-> c.file.buffer[k - 1]]
<1>1. pc = "rest" /\ call = "read" /\ left \in 1..BLOCK_SIZE /\ left = size - done
    BY DEF Data!ReadLast, Data!remaining
<1>2. /\ BLOCK_SIZE \in Nat \ {0} /\ size \in Nat \ {0} /\ Start \in Nat /\ offset \in Nat
      /\ HeadSize(offset, size) \in Nat /\ middle \in Nat
    BY DataFacts
<1>3. PICK m \in 0..middle : ReadSoFar(m)
    <2>1. done # size
        BY <1>1, <1>2
    <2>2. QED BY <1>1, <2>1, StillReading
<1>4. /\ done = HeadSize(offset, size) + m * BLOCK_SIZE /\ index = Start + m - 1
      /\ [file |-> file, disk |-> disk] = atHead
      /\ out = [x \in 1..done |-> all[x]]
    BY <1>3 DEF ReadSoFar
<1>5. /\ m = middle /\ done \in Nat /\ left \in Nat /\ left <= BLOCK_SIZE
      /\ done + left = size /\ done # size
    <2>1. done \in Nat /\ (left > BLOCK_SIZE <=> m < middle)
        BY <1>4, WhatIsLeft
    <2>2. left \in Nat /\ left <= BLOCK_SIZE
        BY <1>1, <1>2
    <2> HIDE DEF left, middle
    <2>3. m = middle
        BY <1>2, <1>3, <2>1, <2>2
    <2>4. QED BY <1>1, <1>2, <2>1, <2>2, <2>3
<1>6. /\ file = atHead.file /\ disk = atHead.disk /\ file \in OpenFile
      /\ file.blockList = entry.file.blockList
    <2>1. atHead.file.blockList = entry.file.blockList /\ atHead.file \in OpenFile
        BY ReadingHandle
    <2> HIDE DEF atHead
    <2>2. QED BY <1>4, <2>1
<1>7. Data!Cached(file.blockList[index + 2], TRUE, TRUE) = c
    <2>1. index + 2 = Start + middle + 1
        <3> HIDE DEF middle
        <3>1. QED BY <1>2, <1>4, <1>5
    <2>2. file.blockList[index + 2] = b
        BY <1>6, <2>1
    <2>3. Data!Cached(b, TRUE, TRUE) = cacheBlock([file |-> file, disk |-> disk], b)
        BY <1>6, CachedIs
    <2>4. QED BY <1>4, <2>2, <2>3, Zenon
<1>8. /\ file' = c.file /\ disk' = c.disk /\ out' = out \o part /\ done' = size
      /\ UNCHANGED <<pc, call, offset, size, entry>>
    <2>1. Data!Outcomes = {TRUE}
        BY DEF Data!Outcomes
    <2> HIDE DEF c
    <2>2. QED BY <1>7, <2>1 DEF Data!ReadLast, Data!arguments
<1>9. Start' = Start
    BY <1>8 DEF Start
<1>10. all \in Seq(Cells) /\ Len(all) = size /\ all = [x \in 1..size |-> all[x]]
    BY ReadDataIs
<1>11. part = [k \in 1..left |-> all[done + k]]
    <2>1. ASSUME NEW k \in 1..left PROVE c.file.buffer[k - 1] = all[done + k]
        <3> DEFINE i == k - 1
                   x == done + k
        <3>1. i \in Nat /\ i < BLOCK_SIZE
            BY <1>2, <1>5
        <3>2. x \in 1..size
            BY <1>2, <1>5
        <3>3. x - 1 = done + i
            BY <1>5
        <3>4. BehindHeadAt(offset, size, m, i) = done + i
            BY <1>4 DEF BehindHeadAt
        <3> HIDE DEF i, x
        <3>5. x - 1 = BehindHeadAt(offset, size, m, i)
            BY <3>3, <3>4
        <3>6. m \in Nat
            BY <1>2, <1>5
        <3>7. all[x] = IF m < middle
                       THEN atHead.disk[entry.file.blockList[Start + m + 1]][i]
                       ELSE c.file.buffer[i]
            <4>1. Start \in Nat /\ offset \in Nat /\ size \in Nat \ {0}
                BY <1>2
            <4> DEFINE list == entry.file.blockList
                       last == list[Start + middle + 1]
            <4>2. all[x] = IF m < middle THEN atHead.disk[list[Start + m + 1]][i]
                           ELSE cacheBlock(atHead, last).file.buffer[i]
                BY <3>1, <3>2, <3>5, <3>6, <4>1, ReadDataBehind, SMTT(90)
            <4>3. QED BY <4>2, Zenon
        <3>8. ~(m < middle)
            <4> HIDE DEF middle
            <4>1. QED BY <1>2, <1>5
        <3>9. all[x] = c.file.buffer[i]
            BY <3>7, <3>8, Zenon
        <3>10. QED BY <3>9 DEF i, x
    <2> HIDE DEF all, c, left
    <2>2. QED BY <2>1
<1>12. out' = all
    <2> HIDE DEF all, part, left
    <2>1. [x \in 1..done |-> all[x]] \o part = [x \in 1..(done + left) |-> all[x]]
        <3>1. done + left <= Len(all)
            BY <1>2, <1>5, <1>10
        <3>2. left \in Nat
            BY <1>2, <1>5
        <3>3. [x \in 1..done |-> all[x]] \o [k \in 1..left |-> all[done + k]]
                = [x \in 1..(done + left) |-> all[x]]
            BY <1>5, <1>10, <3>1, <3>2, NextBytes
        <3>4. QED BY <1>11, <3>3, Zenon
    <2>2. QED BY <1>4, <1>5, <1>8, <1>10, <2>1
<1>13. ReadData(entry, Start, offset, size).cache = c
    <2>1. BlocksTouched(offset, size) # 1
        <3>1. size # HeadSize(offset, size)
            <4>1. CASE middle = 0
                <5>1. done = HeadSize(offset, size)
                    <6>1. m * BLOCK_SIZE = 0
                        <7> HIDE DEF middle
                        <7>1. QED BY <1>2, <1>5, <4>1
                    <6>2. QED BY <1>2, <1>4, <6>1
                <5>2. QED BY <1>5, <5>1
            <4>2. CASE middle # 0
                BY <1>2, <4>2 DEF MiddleBlocks
            <4>3. QED BY <4>1, <4>2
        <3>2. BlocksTouched(offset, size) = middle + 2
            BY <3>1 DEF BlocksTouched
        <3> HIDE DEF middle
        <3>3. QED BY <1>2, <3>2
    <2>2. QED BY <2>1, ReadDataCache
<1>14. c = [file |-> c.file, disk |-> c.disk]
    <2>1. WritesOnly(Blocks, entry, ReadData(entry, Start, offset, size).cache)
        BY ReadDataStaysInList DEF DataInv
    <2> HIDE DEF c
    <2>2. QED BY <1>13, <2>1 DEF WritesOnly, Guarded, Cache
<1> HIDE DEF c, all, b, part, left, middle, atHead
<1>15. Transferred'
    <2>1. [file |-> file', disk |-> disk'] = ReadData(entry, Start, offset, size).cache
        BY <1>8, <1>13, <1>14
    <2>2. out' = ReadData(entry, Start, offset, size).data
        BY <1>12 DEF all
    <2>3. call' # "write" /\ offset' = offset /\ entry' = entry /\ size' = size
        BY <1>1, <1>8
    <2>4. QED BY <1>9, <2>1, <2>2, <2>3 DEF Transferred
<1>16. Covered(Blocks, entry, Start, offset, size)' /\ (size <= Len(Written))'
    BY <1>8, <1>9 DEF DataInv
<1>17. call' = "read" /\ pc' = "rest" /\ done' = size'
    BY <1>1, <1>8
<1>18. QED BY <1>15, <1>16, <1>17 DEF DataInv

\* Every step of a transfer keeps its invariant.
LEMMA DataGoesOn == ~DeviceFails /\ DataInv /\ Data!Next => DataInv'
BY ReadFirstGoesOn, ReadMiddleGoesOn, ReadLastGoesOn, WriteFirstGoesOn,
   WriteMiddleGoesOn, WriteLastGoesOn, ReturnGoesOn DEF Data!Next

\* A transfer that is complete is that of Transfer.tla, and what is written is
\* in the file.
LEMMA DataResult == DataInv => MovesWhatTransferSays /\ WrittenIsThere
<1> SUFFICES ASSUME DataInv PROVE MovesWhatTransferSays /\ WrittenIsThere
    OBVIOUS
<1>1. /\ Covered(Blocks, entry, Start, offset, size) /\ offset \in Nat /\ size \in Nat
      /\ Data!data \in Seq(Cells) /\ Len(Data!data) = size
      /\ Covered(Blocks, entry, Start, offset, Len(Data!data))
    BY DataFacts DEF DataInv
<1>2. BlockIndex(offset) + 1 = Start
    BY <1>1, IndexFits DEF Start
<1>3. MovesWhatTransferSays
    <2>1. pc = "moved" => Transferred
        BY DEF DataInv
    <2>2. Data!BlockIndex(offset) + 1 = Start
        BY <1>2, DataNames
    <2>3. QED
        BY <2>1, <2>2, DataNames, Zenon
           DEF MovesWhatTransferSays, Data!MovesWhatTransferSays, Transferred
<1>4. WrittenIsThere
    <2> SUFFICES ASSUME pc = "moved", call = "write", NEW k \in 1..size
                 PROVE  Data!ByteAt(offset + k - 1) = Data!data[k]
        BY DEF WrittenIsThere, Data!WrittenIsThere
    <2>1. [file |-> file, disk |-> disk] = WriteData(entry, Start, offset, Data!data)
        BY DEF DataInv, Transferred
    <2>2. ByteOf(WriteData(entry, Start, offset, Data!data), offset + k - 1) = Data!data[k]
        BY <1>1, WriteDataPuts DEF Start
    <2>3. \A at : Data!ByteAt(at) = ByteOf([file |-> file, disk |-> disk], at)
        BY DEF Data!ByteAt, ByteOf, FoundIn
    <2>4. QED BY <2>1, <2>2, <2>3
<1>5. QED BY <1>3, <1>4

-----------------------------------------------------------------------------
(* Any call of any of them.                                                *)

\* How far the call that runs has come, whichever it is.
LoopInv ==
    /\ pc \in Searches \cup Chainings \cup Transfers
    /\ pc \in Searches => SearchInv
    /\ pc \in Chainings => ChainInv
    /\ pc \in Transfers /\ ~DeviceFails => DataInv

\* Which loop it is can be told from where it is.
LEMMA LoopsApart ==
    /\ \A x \in Searches : x \notin Chainings /\ x \notin Transfers
    /\ \A x \in Chainings : x \notin Transfers
BY DEF Searches, Chainings, Transfers

\* Every call begins within the invariant.
LEMMA LoopBegins == AnyCall => LoopInv
<1> SUFFICES ASSUME AnyCall PROVE LoopInv
    OBVIOUS
<1>1. CASE Search!Init
    <2>1. pc \in Searches
        BY <1>1 DEF Search!Init, Searches
    <2>2. QED BY <1>1, <2>1, SearchBegins, LoopsApart DEF LoopInv
<1>2. CASE Chain!Init
    <2>1. pc \in Chainings
        BY <1>2 DEF Chain!Init, Chain!StartWalk, Chain!StartAppend, Chainings
    <2>2. QED BY <1>2, <2>1, ChainBegins, LoopsApart DEF LoopInv
<1>3. CASE Data!Init
    <2>1. pc \in Transfers
        BY <1>3 DEF Data!Init, Transfers
    <2>2. QED BY <1>3, <2>1, DataBegins, LoopsApart DEF LoopInv
<1>4. QED BY <1>1, <1>2, <1>3 DEF AnyCall

\* Every step of every loop keeps it.
LEMMA LoopGoesOn == LoopInv /\ AnyStep => LoopInv'
<1> SUFFICES ASSUME LoopInv, AnyStep PROVE LoopInv'
    OBVIOUS
<1>1. /\ pc' \in Searches \cup Chainings \cup Transfers
      /\ pc' \in Searches => SearchInv /\ Search!Next
      /\ pc' \in Chainings => ChainInv /\ Chain!Next
      /\ pc' \in Transfers /\ ~DeviceFails => DataInv /\ Data!Next
    BY OneLoopRuns DEF LoopInv
<1>2. QED BY <1>1, SearchGoesOn, ChainGoesOn, DataGoesOn DEF LoopInv

\* So does a step of nobody.
LEMMA LoopStutters == LoopInv /\ UNCHANGED vars => LoopInv'
<1> SUFFICES ASSUME LoopInv, UNCHANGED vars PROVE LoopInv'
    OBVIOUS
<1>1. UNCHANGED <<searchVars, chainVars, transferVars, block, pc, entry>>
    BY DEF vars
<1>2. SearchInv => SearchInv'
    BY <1>1 DEF searchVars, SearchInv, FoundLast
<1>3. ChainInv => ChainInv'
    BY <1>1 DEF chainVars, ChainInv, WalkInv, AppendInv
<1>4. DataInv => DataInv'
    <2>1. Start' = Start /\ Data!data' = Data!data
        BY <1>1 DEF transferVars, Start, Data!data
    <2>2. Transferred => Transferred'
        BY <1>1, <2>1 DEF transferVars, Transferred
    <2>3. \A m : /\ WrittenSoFar(m) => WrittenSoFar(m)'
                 /\ ReadSoFar(m) => ReadSoFar(m)'
        BY <1>1, <2>1 DEF transferVars, WrittenSoFar, ReadSoFar
    <2>4. QED BY <1>1, <2>1, <2>2, <2>3 DEF transferVars, DataInv
<1>5. QED BY <1>1, <1>2, <1>3, <1>4 DEF LoopInv

\* The invariant of the loops.
LEMMA LoopInvHolds == LoopsSpec => []LoopInv
<1>1. AnyCall => LoopInv
    BY LoopBegins
<1>2. LoopInv /\ [AnyStep]_vars => LoopInv'
    BY LoopGoesOn, LoopStutters
<1>3. QED BY <1>1, <1>2, PTL DEF LoopsSpec

\* What the invariant of the loop that runs says of its results.
LEMMA LoopResult ==
    ASSUME LoopInv
    PROVE  /\ ReturnsWhatDmapSays /\ ThrowChangesNothing
           /\ ListsTheChain /\ AppendsTheChain
           /\ ~DeviceFails => MovesWhatTransferSays /\ WrittenIsThere
<1>1. ReturnsWhatDmapSays /\ ThrowChangesNothing
    <2>1. CASE pc \in Searches
        BY <2>1, SearchResult DEF LoopInv
    <2>2. CASE pc \notin Searches
        BY <2>2 DEF Searches, ReturnsWhatDmapSays, Search!ReturnsWhatDmapSays,
           ThrowChangesNothing, Search!ThrowChangesNothing
    <2>3. QED BY <2>1, <2>2
<1>2. ListsTheChain /\ AppendsTheChain
    <2>1. CASE pc \in Chainings
        BY <2>1, ChainResult DEF LoopInv
    <2>2. CASE pc \notin Chainings
        BY <2>2 DEF Chainings, ListsTheChain, Chain!ListsTheChain,
           AppendsTheChain, Chain!AppendsTheChain
    <2>3. QED BY <2>1, <2>2
<1>3. ASSUME ~DeviceFails PROVE MovesWhatTransferSays /\ WrittenIsThere
    <2>1. CASE pc \in Transfers
        BY <1>3, <2>1, DataResult DEF LoopInv
    <2>2. CASE pc \notin Transfers
        BY <2>2 DEF Transfers, MovesWhatTransferSays, Data!MovesWhatTransferSays,
           WrittenIsThere, Data!WrittenIsThere
    <2>3. QED BY <2>1, <2>2
<1>4. QED BY <1>1, <1>2, <1>3

\* Dmap::findNFreeBlocks: the two scans, with the cursor they read and move,
\* return the first free blocks in the order of the scan, all different, as
\* Dmap.tla says, for every bitmap and every cursor.
THEOREM SearchIsCorrect == LoopsSpec => []ReturnsWhatDmapSays
<1>1. LoopInv => ReturnsWhatDmapSays
    BY LoopResult
<1>2. QED BY <1>1, LoopInvHolds, PTL

\* A search that throws has found that there are too few free blocks, and has
\* not moved the cursor.
THEOREM ThrowIsCorrect == LoopsSpec => []ThrowChangesNothing
<1>1. LoopInv => ThrowChangesNothing
    BY LoopResult
<1>2. QED BY <1>1, LoopInvHolds, PTL

\* Fat::getBlockList: a walk that returns has met every block of the chain,
\* once and in its order.
THEOREM WalkIsCorrect == LoopsSpec => []ListsTheChain
<1>1. LoopInv => ListsTheChain
    BY LoopResult
<1>2. QED BY <1>1, LoopInvHolds, PTL

\* The loops of fuseWrite and fuseTruncate that append: blocks linked one by
\* one, each behind the end that was sought, make one chain, the old list and
\* the new blocks, and touch no other entry of the table.
THEOREM AppendIsCorrect == LoopsSpec => []AppendsTheChain
<1>1. LoopInv => AppendsTheChain
    BY LoopResult
<1>2. QED BY <1>1, LoopInvHolds, PTL

\* The data loops of fuseRead and fuseWrite, over a device that works: block by
\* block they do what OnDiskFS takes them to do in one step.
THEOREM TransferIsCorrect ==
    ASSUME ~DeviceFails
    PROVE  LoopsSpec => []MovesWhatTransferSays
<1>1. LoopInv => MovesWhatTransferSays
    BY LoopResult
<1>2. QED BY <1>1, LoopInvHolds, PTL

\* Over a device that works, all bytes of a write that returned their number
\* are in the file, each in its place.
THEOREM WriteIsThere ==
    ASSUME ~DeviceFails
    PROVE  LoopsSpec => []WrittenIsThere
<1>1. LoopInv => WrittenIsThere
    BY LoopResult
<1>2. QED BY <1>1, LoopInvHolds, PTL
=============================================================================
