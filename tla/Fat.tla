-------------------------------- MODULE Fat ---------------------------------
(***************************************************************************)
(* The file allocation table (src/src/Fat.cpp): table[b] is the block that *)
(* follows b in its file, END_OF_CLUSTER after the last one.  A file is a  *)
(* chain of blocks from the firstBlock in its directory entry.             *)
(*                                                                         *)
(* The walks of getBlockList and getLastBlock are given here by the chain  *)
(* they follow; FatLoops.tla has the loops and compares the two.           *)
(***************************************************************************)
EXTENDS Dmap

ASSUME FatAssumption == WORD \in Nat /\ CONTAINER_BLOCKS < WORD

InitialTable == [b \in Blocks |-> FREE]

SetOfBlocks(s) == {s[i] : i \in DOMAIN s}

\* Block lists without repetition: what a walk that ends can return.
BlockLists ==
    UNION {{s \in [1..n -> Blocks] :
                \A i, j \in 1..n : s[i] = s[j] => i = j} : n \in 0..CONTAINER_BLOCKS}

\* The same by first block, the empty list being the one of END_OF_CLUSTER.
BlockListsFrom ==
    [first \in Links |->
        {s \in BlockLists : IF s = <<>> THEN first = END_OF_CLUSTER ELSE s[1] = first}]

\* Following the table from the first block of s visits s and then ends.
IsChain(table, s) ==
    \A i \in DOMAIN s :
        table[s[i]] = IF i = Len(s) THEN END_OF_CLUSTER ELSE s[i + 1]

\* The walk from `first` ends; from another block it would go on for ever.
WalkEnds(table, first) == \E s \in BlockListsFrom[first] : IsChain(table, s)

getBlockList(table, first) ==
    CHOOSE s \in BlockListsFrom[first] : IsChain(table, s)

getLastBlock(table, first) ==
    LET s == getBlockList(table, first) IN s[Len(s)]

\* The blocks of s linked one to the next, the last of them an end.  Setting
\* an entry to END_OF_CLUSTER, as allocateBlock does, is the case Len(s) = 1.
Linked(table, s) ==
    [b \in Blocks |->
        IF \E i \in DOMAIN s : s[i] = b
        THEN LET i == CHOOSE i \in DOMAIN s : s[i] = b
             IN  IF i = Len(s) THEN END_OF_CLUSTER ELSE s[i + 1]
        ELSE table[b]]

\* appendBlock of each block of s in turn, to the chain that passes by block.
\* Each call links the new block behind the last one, which is where the
\* previous call left off.
appendBlocks(table, block, s) ==
    IF s = <<>> THEN table
    ELSE LET last == getLastBlock(table, block)
         IN  Linked([table EXCEPT ![last] = s[1]], s)

\* A shrinking truncate that leaves the old chain in place (a mutant).
TruncateNothing(table, block) == table

\* Fat::truncate: block becomes the last of its chain.
truncate(table, block) == [table EXCEPT ![block] = END_OF_CLUSTER]
=============================================================================
