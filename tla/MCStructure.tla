---------------------------- MODULE MCStructure -----------------------------
(***************************************************************************)
(* OnDiskFS with a single byte value: the allocation structures.           *)
(***************************************************************************)
EXTENDS OnDiskFS, TLC

CONSTANTS a, b, byte

MCPayloads == {<<byte>>, [k \in 1..5 |-> byte]}

OneByte == {<<byte>>}

Symmetry == Permutations({a, b})

\* What no handler reads before writing it is left out of the states that are
\* told apart: the image and the reply; the block list of a free handle; and,
\* while AllocationExact and HandleListsCurrent hold, the table entries of
\* free blocks.  With one byte value, which block a clean cache holds makes no
\* difference either.
Handle(h) ==
    <<opened[h], openFiles[h].isFree, openFiles[h].dirty,
      IF openFiles[h].isFree THEN <<>> ELSE openFiles[h].blockList,
      IF openFiles[h].dirty THEN openFiles[h].blockNo ELSE END_OF_CLUSTER>>

Storage ==
    <<flags, nextBlock, openFileCount, idle, fault, disk,
      [x \in Blocks |-> IF flags[x] THEN table[x] ELSE FREE]>>

OrderedView == <<Storage, root, [h \in Handles |-> Handle(h)]>>

\* Nor does it matter which entry a file has, while UniqueNames holds, or which
\* handle number stands for an open file, while DirtyBlocksOwned does: of two
\* entries, or two handles, the set loses nothing but the order.
View == <<Storage, {root[i] : i \in Entries}, {Handle(h) : h \in Handles}>>

\* What decides the chains: not the caches, the contents and the clock, and of
\* the table only what a walk from a directory entry or from the end of a
\* handle's block list comes across.
Walked ==
    LET Then(S) == S \cup {table[k] : k \in S \cap Blocks}
        Ends == {openFiles[h].blockList[Len(openFiles[h].blockList)] :
                    h \in {g \in Handles : ~openFiles[g].isFree /\ openFiles[g].blockList # <<>>}}
    IN  Then(Then(Then(Then({root[i].firstBlock : i \in Entries} \cup Ends))))

\* Block numbers count from the cursor: the search goes round the data blocks,
\* and where it begins decides nothing else.
FromCursor(block) ==
    LET n == CONTAINER_BLOCKS - DATA_START
    IN  IF block \in DataBlocks THEN DATA_START + ((block + n - nextBlock) % n) ELSE block

\* Nor does it matter which name a file has, in which entry it is, or which
\* handle number stands for an open file, as long as no two files have the same
\* name and every open one has an entry.  Nothing follows a fault.
ChainView ==
    IF fault THEN <<>>
    ELSE LET walked == Walked \cap Blocks
             Of(i) == {h \in Handles : opened[h] # NoName /\ opened[h] = root[i].name}
             List(h) == [k \in DOMAIN openFiles[h].blockList |->
                            FromCursor(openFiles[h].blockList[k])]
             Lists(i) == {<<List(h), Cardinality({g \in Of(i) : List(g) = List(h)})>> :
                             h \in Of(i)}
         IN  <<{FromCursor(x) : x \in FreeBlocks(flags)},
               {<<root[i].name = NoName, FromCursor(root[i].firstBlock), root[i].size,
                  Lists(i)>> : i \in Entries},
               {<<FromCursor(x), FromCursor(table[x])>> : x \in walked}>>
=============================================================================
