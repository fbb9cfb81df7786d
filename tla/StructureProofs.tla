-------------------------- MODULE StructureProofs --------------------------
(***************************************************************************)
(* Bitmap, table, directory and handles together: the files partition the  *)
(* used data blocks, each operation that changes the chain of one file     *)
(* keeps it so, and every handler turns consistent metadata into           *)
(* consistent metadata, and the chain of which file into which other; what *)
(* ties a handle to the directory and to the chain of its file, and what a *)
(* step may do to it without untying them.                                 *)
(***************************************************************************)
EXTENDS OnDiskFS, TransferProofs

-----------------------------------------------------------------------------
(* Who owns which block.                                                   *)

\* The chains of the directory entries, as C lists them: each is the walk the
\* table gives, no two meet, and the bitmap marks exactly their blocks and
\* those of the metadata.
Layout(f, t, r, C) ==
    /\ f \in [Blocks -> BOOLEAN]
    /\ t \in [Blocks -> Links]
    /\ C \in [Entries -> BlockLists]
    /\ \A i \in Entries :
          /\ r[i].firstBlock \in Links
          /\ C[i] \in BlockListsFrom[r[i].firstBlock]
          /\ IsChain(t, C[i])
          /\ SetOfBlocks(C[i]) \subseteq DataBlocks
    /\ \A i, j \in Entries : i # j => SetOfBlocks(C[i]) \cap SetOfBlocks(C[j]) = {}
    /\ \A b \in Blocks :
          f[b] <=> b < DATA_START \/ \E i \in Entries : b \in SetOfBlocks(C[i])

\* What the code finds when it walks is what C says.
LEMMA LayoutChains ==
    ASSUME NEW f, NEW t, NEW r, NEW C, Layout(f, t, r, C),
           NEW i \in Entries
    PROVE  /\ WalkEnds(t, r[i].firstBlock)
           /\ getBlockList(t, r[i].firstBlock) = C[i]
BY GetBlockList DEF Layout

\* The first block in a directory entry is the first of its chain, or
\* END_OF_CLUSTER when the chain is empty.
LEMMA LayoutFirst ==
    ASSUME NEW f, NEW t, NEW r, NEW C, Layout(f, t, r, C),
           NEW i \in Entries
    PROVE  IF C[i] = <<>> THEN r[i].firstBlock = END_OF_CLUSTER
           ELSE C[i][1] = r[i].firstBlock /\ r[i].firstBlock # END_OF_CLUSTER
<1>1. C[i] \in BlockLists /\ r[i].firstBlock \in Links
    BY DEF Layout
<1>2. IF C[i] = <<>> THEN r[i].firstBlock = END_OF_CLUSTER
      ELSE C[i][1] = r[i].firstBlock
    BY <1>1, ListsFrom DEF Layout
<1>3. C[i] # <<>> => C[i][1] \in Blocks
    <2>1. C[i] \in Seq(Blocks) /\ Len(C[i]) \in Nat /\ C[i] \in [1..Len(C[i]) -> Blocks]
        BY <1>1, BlockListType
    <2>2. C[i] # <<>> => 1 \in 1..Len(C[i])
        BY <2>1
    <2>3. QED BY <2>1, <2>2
<1>4. QED BY <1>2, <1>3, EndIsNoBlock

\* The chains C with another one for entry i, and a directory in which at most
\* the chain of entry i begins elsewhere.
With(C, i, list) == [C EXCEPT ![i] = list]

OthersKept(r, r2, i) ==
    \A j \in Entries \ {i} : r2[j].firstBlock = r[j].firstBlock

\* Replacing the chain of one entry keeps those of the others.
LEMMA WithFacts ==
    ASSUME NEW C \in [Entries -> BlockLists], NEW i \in Entries, NEW list
    PROVE  /\ With(C, i, list)[i] = list
           /\ \A j \in Entries \ {i} : With(C, i, list)[j] = C[j]
           /\ list \in BlockLists => With(C, i, list) \in [Entries -> BlockLists]
           /\ list = C[i] => With(C, i, list) = C
BY DEF With

\* One file gets another chain.  Its blocks were its own or free, the other
\* entries of the table and of the directory are left alone.
LEMMA LayoutReplace ==
    ASSUME NEW f, NEW t, NEW r, NEW C, Layout(f, t, r, C),
           NEW i \in Entries, NEW list \in BlockLists,
           NEW f2 \in [Blocks -> BOOLEAN], NEW t2 \in [Blocks -> Links],
           NEW r2, OthersKept(r, r2, i),
           r2[i].firstBlock \in Links,
           list \in BlockListsFrom[r2[i].firstBlock],
           IsChain(t2, list),
           SetOfBlocks(list) \subseteq SetOfBlocks(C[i]) \cup FreeBlocks(f),
           \A b \in Blocks : b \notin SetOfBlocks(list) /\ b \notin SetOfBlocks(C[i])
                             => t2[b] = t[b],
           \A b \in Blocks : f2[b] <=> \/ b \in SetOfBlocks(list)
                                       \/ f[b] /\ b \notin SetOfBlocks(C[i])
    PROVE  Layout(f2, t2, r2, With(C, i, list))
<1> DEFINE D == With(C, i, list)
<1>1. /\ C \in [Entries -> BlockLists] /\ D \in [Entries -> BlockLists]
      /\ D[i] = list /\ \A j \in Entries \ {i} : D[j] = C[j]
    BY WithFacts DEF Layout
<1> HIDE DEF D
<1>2. SetOfBlocks(list) \subseteq DataBlocks
    <2>1. FreeBlocks(f) \subseteq DataBlocks
        BY DmapAssumption DEF Layout, FreeBlocks, DataBlocks, Blocks
    <2>2. QED BY <2>1 DEF Layout
<1>3. ASSUME NEW j \in Entries, j # i
      PROVE  /\ SetOfBlocks(C[j]) \cap SetOfBlocks(list) = {}
             /\ SetOfBlocks(C[j]) \cap SetOfBlocks(C[i]) = {}
             /\ SetOfBlocks(C[j]) \subseteq Blocks
    <2>1. SetOfBlocks(C[j]) \subseteq Blocks
        BY <1>1, BlockListType
    <2>2. \A b \in SetOfBlocks(C[j]) : b \notin FreeBlocks(f)
        BY <2>1 DEF Layout, FreeBlocks
    <2>3. QED BY <1>3, <2>1, <2>2 DEF Layout
<1>4. ASSUME NEW j \in Entries
      PROVE  /\ r2[j].firstBlock \in Links
             /\ D[j] \in BlockListsFrom[r2[j].firstBlock]
             /\ IsChain(t2, D[j])
             /\ SetOfBlocks(D[j]) \subseteq DataBlocks
    <2>1. CASE j = i
        BY <1>1, <1>2, <2>1
    <2>2. CASE j # i
        <3>1. D[j] = C[j] /\ r2[j].firstBlock = r[j].firstBlock
            BY <1>1, <2>2 DEF OthersKept
        <3>2. \A k \in DOMAIN C[j] : t2[C[j][k]] = t[C[j][k]]
            <4>1. \A k \in DOMAIN C[j] : C[j][k] \in SetOfBlocks(C[j])
                BY DEF SetOfBlocks
            <4>2. QED BY <1>3, <2>2, <4>1
        <3>3. IsChain(t2, C[j])
            BY <3>2 DEF Layout, IsChain
        <3>4. QED BY <3>1, <3>3 DEF Layout
    <2>3. QED BY <2>1, <2>2
<1>5. ASSUME NEW j \in Entries, NEW k \in Entries, j # k
      PROVE  SetOfBlocks(D[j]) \cap SetOfBlocks(D[k]) = {}
    <2>1. CASE j = i
        BY <1>1, <1>3, <1>5, <2>1
    <2>2. CASE k = i
        BY <1>1, <1>3, <1>5, <2>2
    <2>3. CASE j # i /\ k # i
        BY <1>1, <1>5, <2>3 DEF Layout
    <2>4. QED BY <2>1, <2>2, <2>3
<1>6. ASSUME NEW b \in Blocks
      PROVE  f2[b] <=> b < DATA_START \/ \E j \in Entries : b \in SetOfBlocks(D[j])
    <2>1. CASE b \in SetOfBlocks(list)
        BY <1>1, <2>1
    <2>2. CASE b \notin SetOfBlocks(list) /\ b \in SetOfBlocks(C[i])
        <3>1. ~f2[b]
            BY <2>2
        <3>2. ~(b < DATA_START)
            BY <2>2, DmapAssumption DEF Layout, DataBlocks
        <3>3. \A j \in Entries : b \notin SetOfBlocks(D[j])
            BY <1>1, <1>3, <2>2
        <3>4. QED BY <3>1, <3>2, <3>3
    <2>3. CASE b \notin SetOfBlocks(list) /\ b \notin SetOfBlocks(C[i])
        <3>1. f2[b] <=> f[b]
            BY <2>3
        <3>2. \A j \in Entries : b \in SetOfBlocks(D[j]) <=> b \in SetOfBlocks(C[j])
            BY <1>1, <2>3
        <3>3. QED BY <3>1, <3>2 DEF Layout
    <2>4. QED BY <2>1, <2>2, <2>3
<1>7. QED BY <1>1, <1>4, <1>5, <1>6 DEF Layout, D

\* The chain of a file without blocks.
LEMMA EmptyList ==
    /\ <<>> \in BlockLists /\ SetOfBlocks(<<>>) = {} /\ Len(<<>>) = 0
    /\ \A t : IsChain(t, <<>>)
    /\ <<>> \in BlockListsFrom[END_OF_CLUSTER]
<1>1. <<>> \in [1..0 -> Blocks] /\ Len(<<>>) = 0 /\ DOMAIN <<>> = {}
    OBVIOUS
<1>2. <<>> \in BlockLists
    BY <1>1, BlockListIntro
<1>3. QED BY <1>1, <1>2, ListsFrom, EndIsNoBlock DEF SetOfBlocks, IsChain

\* A file loses its whole chain: fuseUnlink, and fuseTruncate to no blocks.
LEMMA LayoutFree ==
    ASSUME NEW f, NEW t, NEW r, NEW C, Layout(f, t, r, C),
           NEW i \in Entries, NEW r2, OthersKept(r, r2, i),
           r2[i].firstBlock = END_OF_CLUSTER
    PROVE  Layout(markFree(f, SetOfBlocks(C[i])), t, r2, With(C, i, <<>>))
<1> DEFINE f2 == markFree(f, SetOfBlocks(C[i]))
<1>1. /\ f2 \in [Blocks -> BOOLEAN]
      /\ \A b \in Blocks : f2[b] <=> f[b] /\ b \notin SetOfBlocks(C[i])
    BY DEF Layout, markFree
<1> HIDE DEF f2
<1>2. t \in [Blocks -> Links] /\ IsChain(t, <<>>)
    BY EmptyList DEF Layout
<1>3. QED BY <1>1, <1>2, EmptyList, EndIsNoBlock, LayoutReplace DEF f2

\* A file keeps the first m blocks of its chain, m > 0: fuseTruncate.
LEMMA LayoutShrink ==
    ASSUME NEW f, NEW t, NEW r, NEW C, Layout(f, t, r, C),
           NEW i \in Entries, NEW m \in 1..Len(C[i]), NEW r2,
           OthersKept(r, r2, i), r2[i].firstBlock = r[i].firstBlock
    PROVE  Layout(markFree(f, {C[i][k] : k \in (m + 1)..Len(C[i])}),
                  truncate(t, C[i][m]), r2, With(C, i, SubSeq(C[i], 1, m)))
<1> DEFINE s == C[i]
           q == SubSeq(s, 1, m)
           T == truncate(t, s[m])
           cut == {s[k] : k \in (m + 1)..Len(s)}
           f2 == markFree(f, cut)
<1>1. /\ s \in BlockLists /\ IsChain(t, s) /\ t \in [Blocks -> Links]
      /\ f \in [Blocks -> BOOLEAN] /\ m \in 1..Len(s)
    BY DEF Layout
<1>2. /\ Len(s) \in Nat /\ \A j, k \in 1..Len(s) : s[j] = s[k] => j = k
      /\ SetOfBlocks(s) = {s[k] : k \in 1..Len(s)} /\ SetOfBlocks(s) \subseteq Blocks
    BY <1>1, BlockListType
<1>3. /\ T \in [Blocks -> Links] /\ q \in BlockLists /\ Len(q) = m /\ q[1] = s[1]
      /\ SetOfBlocks(q) = {s[k] : k \in 1..m} /\ IsChain(T, q)
      /\ \A b \in Blocks \ SetOfBlocks(s) : T[b] = t[b]
    BY <1>1, TruncateChain
<1>4. /\ f2 \in [Blocks -> BOOLEAN]
      /\ \A b \in Blocks : f2[b] <=> f[b] /\ b \notin cut
    BY <1>1 DEF markFree
<1>5. m \in Nat /\ 1 <= m /\ m <= Len(s)
    BY <1>1, <1>2
<1> HIDE DEF q, T, f2
<1>6. \A b : b \in SetOfBlocks(s) => (b \in cut <=> b \notin SetOfBlocks(q))
    <2>1. ASSUME NEW k \in 1..Len(s)
          PROVE  s[k] \in cut <=> s[k] \notin SetOfBlocks(q)
        <3>1. s[k] \in SetOfBlocks(q) <=> k \in 1..m
            <4>1. 1..m \subseteq 1..Len(s)
                BY <1>2, <1>5
            <4>2. QED BY <1>2, <1>3, <4>1
        <3>2. s[k] \in cut <=> k \in (m + 1)..Len(s)
            <4>1. (m + 1)..Len(s) \subseteq 1..Len(s)
                BY <1>2, <1>5
            <4>2. QED BY <1>2, <4>1
        <3>3. k \in 1..m <=> k \notin (m + 1)..Len(s)
            BY <1>2, <1>5
        <3>4. QED BY <3>1, <3>2, <3>3
    <2>2. QED BY <1>2, <2>1
<1>7. SetOfBlocks(q) \subseteq SetOfBlocks(s) /\ cut \subseteq SetOfBlocks(s)
    <2>1. 1..m \subseteq 1..Len(s) /\ (m + 1)..Len(s) \subseteq 1..Len(s)
        BY <1>2, <1>5
    <2>2. QED BY <1>2, <1>3, <2>1
<1>8. \A b \in Blocks : f2[b] <=> \/ b \in SetOfBlocks(q)
                                  \/ f[b] /\ b \notin SetOfBlocks(s)
    <2>1. \A b \in SetOfBlocks(s) : f[b]
        BY <1>2 DEF Layout
    <2>2. QED BY <1>4, <1>6, <1>7, <2>1
<1>9. r2[i].firstBlock \in Links /\ q \in BlockListsFrom[r2[i].firstBlock]
    <2>1. s # <<>> /\ q # <<>>
        BY <1>3, <1>5, EmptyList, <1>2
    <2>2. s[1] = r[i].firstBlock /\ r[i].firstBlock \in Links
        BY <2>1, LayoutFirst DEF Layout
    <2>3. QED BY <1>3, <2>1, <2>2, ListsFrom
<1>10. \A b \in Blocks : b \notin SetOfBlocks(q) /\ b \notin SetOfBlocks(s)
                         => T[b] = t[b]
    BY <1>3
<1>11. Layout(f2, T, r2, With(C, i, q))
    <2>1. /\ T \in [Blocks -> Links] /\ q \in BlockLists /\ IsChain(T, q)
          /\ f2 \in [Blocks -> BOOLEAN]
          /\ SetOfBlocks(q) \subseteq SetOfBlocks(s) \cup FreeBlocks(f)
        BY <1>3, <1>4, <1>7
    <2>2. QED BY <1>8, <1>9, <1>10, <2>1, LayoutReplace
<1>12. QED BY <1>11 DEF q, T, f2

\* What an allocation of n blocks finds, the block a caller of appendBlock
\* passes, and the two tables that come of it.
Fresh(f, n, new) ==
    /\ n \in Nat \ {0}
    /\ new \in [1..n -> FreeBlocks(f)]
    /\ \A j, k \in 1..n : new[j] = new[k] => j = k

EndOf(s, block) == s # <<>> => block \in {s[1], s[Len(s)]}

TableWith(t, s, block, new) ==
    IF s = <<>> THEN Linked(t, new) ELSE appendBlocks(t, block, new)

\* New blocks behind a chain: neither list repeats a block.
LEMMA ExtendList ==
    ASSUME NEW f, NEW t, NEW r, NEW C, Layout(f, t, r, C),
           NEW i \in Entries, NEW n, NEW new, Fresh(f, n, new)
    PROVE  /\ new \in BlockLists /\ Len(new) = n /\ new # <<>> /\ new[1] \in Blocks
           /\ C[i] \o new \in BlockLists /\ Len(C[i] \o new) = Len(C[i]) + n
           /\ SetOfBlocks(new) \subseteq FreeBlocks(f)
           /\ SetOfBlocks(C[i]) \cap SetOfBlocks(new) = {}
           /\ SetOfBlocks(C[i] \o new) = SetOfBlocks(C[i]) \cup SetOfBlocks(new)
           /\ C[i] # <<>> => (C[i] \o new)[1] = C[i][1]
           /\ C[i] = <<>> => C[i] \o new = new
           /\ C[i] \o new # <<>>
<1>1. C[i] \in BlockLists /\ SetOfBlocks(C[i]) \subseteq Blocks
    BY BlockListType DEF Layout
<1>2. n \in Nat /\ n # 0 /\ new \in [1..n -> Blocks] /\ new \in Seq(Blocks) /\ Len(new) = n
    BY DEF Fresh, FreeBlocks
<1>3. new \in BlockLists /\ new # <<>> /\ new[1] \in Blocks
    BY <1>2, BlockListIntro DEF Fresh
<1>4. SetOfBlocks(new) \subseteq FreeBlocks(f)
    BY <1>2 DEF Fresh, SetOfBlocks
<1>5. SetOfBlocks(C[i]) \cap SetOfBlocks(new) = {}
    BY <1>1, <1>4 DEF Layout, FreeBlocks
<1>6. /\ C[i] \o new \in BlockLists /\ Len(C[i] \o new) = Len(C[i]) + n
      /\ SetOfBlocks(C[i] \o new) = SetOfBlocks(C[i]) \cup SetOfBlocks(new)
      /\ \A k \in 1..Len(C[i]) : (C[i] \o new)[k] = C[i][k]
    BY <1>1, <1>2, <1>3, <1>5, ConcatBlockLists
<1>7. Len(C[i]) \in Nat /\ (C[i] # <<>> => Len(C[i]) # 0)
    BY <1>1, BlockListType
<1>8. C[i] # <<>> => (C[i] \o new)[1] = C[i][1]
    <2>1. C[i] # <<>> => 1 \in 1..Len(C[i])
        BY <1>7
    <2>2. QED BY <1>6, <2>1
<1>9. C[i] \o new # <<>>
    <2>1. Len(C[i] \o new) # 0
        BY <1>2, <1>6, <1>7
    <2>2. QED BY <2>1, EmptyList
<1>10. C[i] = <<>> => C[i] \o new = new
    BY <1>2
<1>11. QED BY <1>2, <1>3, <1>4, <1>5, <1>6, <1>8, <1>9, <1>10

\* A file gets n free blocks, behind its chain or as its first: fuseWrite and
\* fuseTruncate.
LEMMA LayoutExtend ==
    ASSUME NEW f, NEW t, NEW r, NEW C, Layout(f, t, r, C),
           NEW i \in Entries, NEW n, NEW new, Fresh(f, n, new),
           NEW block, EndOf(C[i], block),
           NEW r2, OthersKept(r, r2, i),
           C[i] = <<>> => r2[i].firstBlock = new[1],
           C[i] # <<>> => r2[i].firstBlock = r[i].firstBlock
    PROVE  Layout(markUsed(f, SetOfBlocks(new)), TableWith(t, C[i], block, new),
                  r2, With(C, i, C[i] \o new))
<1> DEFINE s == C[i]
           q == s \o new
           T == TableWith(t, s, block, new)
           f2 == markUsed(f, SetOfBlocks(new))
<1>1. /\ s \in BlockLists /\ IsChain(t, s) /\ t \in [Blocks -> Links]
      /\ f \in [Blocks -> BOOLEAN] /\ SetOfBlocks(s) \subseteq Blocks
    BY BlockListType DEF Layout
<1>2. /\ new \in BlockLists /\ new # <<>> /\ new[1] \in Blocks
      /\ q \in BlockLists
      /\ SetOfBlocks(new) \subseteq FreeBlocks(f)
      /\ SetOfBlocks(s) \cap SetOfBlocks(new) = {}
      /\ SetOfBlocks(q) = SetOfBlocks(s) \cup SetOfBlocks(new)
      /\ s # <<>> => q[1] = s[1]
      /\ s = <<>> => q = new
      /\ q # <<>>
    <2>1. /\ new \in BlockLists /\ new # <<>> /\ new[1] \in Blocks
          /\ s \o new \in BlockLists
          /\ SetOfBlocks(new) \subseteq FreeBlocks(f)
          /\ SetOfBlocks(s) \cap SetOfBlocks(new) = {}
        BY ExtendList
    <2>2. /\ SetOfBlocks(s \o new) = SetOfBlocks(s) \cup SetOfBlocks(new)
          /\ s # <<>> => (s \o new)[1] = s[1]
        BY ExtendList
    <2>3. (s = <<>> => s \o new = new) /\ s \o new # <<>>
        BY ExtendList
    <2> HIDE DEF s
    <2>4. QED BY <2>1, <2>2, <2>3
<1>3. /\ f2 \in [Blocks -> BOOLEAN]
      /\ \A b \in Blocks : f2[b] <=> f[b] \/ b \in SetOfBlocks(new)
    BY <1>1 DEF markUsed
<1>4. /\ T \in [Blocks -> Links] /\ IsChain(T, q)
      /\ \A b \in Blocks : b \notin SetOfBlocks(s) /\ b \notin SetOfBlocks(new)
                           => T[b] = t[b]
    <2>1. CASE s = <<>>
        <3>1. q = new /\ T = Linked(t, new)
            BY <1>2, <2>1 DEF TableWith
        <3>2. QED BY <1>1, <1>2, <3>1, LinkedIsChain
    <2>2. CASE s # <<>>
        <3>1. T = appendBlocks(t, block, new) /\ block \in {s[1], s[Len(s)]}
            BY <2>2 DEF TableWith, EndOf
        <3> HIDE DEF T
        <3>2. QED BY <1>1, <1>2, <2>2, <3>1, AppendBlocks
    <2>3. QED BY <2>1, <2>2
<1>5. r2[i].firstBlock \in Links /\ q \in BlockListsFrom[r2[i].firstBlock]
    <2>1. r2[i].firstBlock \in Links /\ q[1] = r2[i].firstBlock
        <3>1. s # <<>> => s[1] = r[i].firstBlock /\ r[i].firstBlock \in Links
            BY LayoutFirst DEF Layout
        <3>2. QED BY <1>2, <3>1 DEF Links
    <2> HIDE DEF q
    <2>2. QED BY <1>2, <2>1, ListsFrom
<1> HIDE DEF q, T, f2
<1>6. \A b \in Blocks : f2[b] <=> \/ b \in SetOfBlocks(q)
                                  \/ f[b] /\ b \notin SetOfBlocks(s)
    <2>1. \A b \in SetOfBlocks(s) : f[b]
        BY <1>1 DEF Layout
    <2>2. QED BY <1>2, <1>3, <2>1
<1>7. SetOfBlocks(q) \subseteq SetOfBlocks(s) \cup FreeBlocks(f)
    BY <1>2
<1>8. \A b \in Blocks : b \notin SetOfBlocks(q) /\ b \notin SetOfBlocks(s)
                        => T[b] = t[b]
    BY <1>2, <1>4
<1>9. Layout(f2, T, r2, With(C, i, q))
    BY <1>2, <1>3, <1>4, <1>5, <1>6, <1>7, <1>8, LayoutReplace
<1>10. QED BY <1>9 DEF q, T, f2

-----------------------------------------------------------------------------
(* Sizes in blocks.                                                        *)

\* The blocks a file of some size takes, counted without a limit.
Needed(size) == (size + BLOCK_SIZE - 1) \div BLOCK_SIZE

\* A longer file needs as many blocks or more, and the last of them is the
\* one of its last byte.
LEMMA NeededType ==
    /\ BLOCK_SIZE \in Nat \ {0} /\ Needed(0) = 0
    /\ \A size \in Nat : Needed(size) \in Nat
    /\ \A size, more \in Nat : size <= more => Needed(size) <= Needed(more)
    /\ \A size \in Nat \ {0} : Needed(size) = ((size - 1) \div BLOCK_SIZE) + 1
<1>1. BLOCK_SIZE \in Nat \ {0}
    BY OnDiskFSAssumption, TransferAssumption
<1>2. Needed(0) = 0
    <2>1. BLOCK_SIZE - 1 \in Nat /\ BLOCK_SIZE - 1 < BLOCK_SIZE
        BY <1>1
    <2>2. (BLOCK_SIZE - 1) \div BLOCK_SIZE = 0
        <3>1. BLOCK_SIZE - 1 = BLOCK_SIZE * 0 + (BLOCK_SIZE - 1)
            BY <1>1
        <3>2. QED BY <1>1, <2>1, <3>1, DivUnique
    <2>3. QED BY <1>1, <2>2 DEF Needed
<1>3. \A size \in Nat : size + BLOCK_SIZE - 1 \in Nat
    BY <1>1
<1>4. \A size \in Nat : Needed(size) \in Nat
    BY <1>1, <1>3, DivMod DEF Needed
<1>5. ASSUME NEW size \in Nat, NEW more \in Nat, size <= more
      PROVE  Needed(size) <= Needed(more)
    <2>1. size + BLOCK_SIZE - 1 <= more + BLOCK_SIZE - 1
        BY <1>1, <1>5
    <2>2. QED BY <1>1, <1>3, <2>1, DivMonotonic DEF Needed
<1>6. ASSUME NEW size \in Nat \ {0}
      PROVE  Needed(size) = ((size - 1) \div BLOCK_SIZE) + 1
    <2> DEFINE q == (size - 1) \div BLOCK_SIZE
               r == (size - 1) % BLOCK_SIZE
    <2>1. size - 1 \in Nat
        BY <1>6
    <2>2. q \in Nat /\ r \in Nat /\ r < BLOCK_SIZE /\ size - 1 = BLOCK_SIZE * q + r
        BY <1>1, <2>1, DivMod
    <2> HIDE DEF q, r
    <2>3. size + BLOCK_SIZE - 1 = BLOCK_SIZE * (q + 1) + r
        BY <1>1, <2>2
    <2>4. (size + BLOCK_SIZE - 1) \div BLOCK_SIZE = q + 1
        BY <1>1, <1>3, <2>2, <2>3, DivUnique
    <2>5. QED BY <2>4 DEF Needed, q
<1>7. QED BY <1>1, <1>2, <1>4, <1>5, <1>6

\* Sizes whose block count fits a uint32_t.
SizesFit == MaxSize <= (WORD - 1) * BLOCK_SIZE

\* While sizes fit, the uint32_t block index of fuseRead and fuseWrite is
\* exact.
LEMMA BlockIndexExact ==
    ASSUME SizesFit, NEW x \in Nat, x <= MaxSize + BLOCK_SIZE - 1
    PROVE  BlockIndex(x) = x \div BLOCK_SIZE /\ BlockIndex(x) \in Nat
<1> DEFINE q == x \div BLOCK_SIZE
<1>1. /\ BLOCK_SIZE \in Nat /\ BLOCK_SIZE # 0 /\ MaxSize \in Nat
      /\ WORD \in Nat /\ WORD > 0
    BY OnDiskFSAssumption, TransferAssumption, FatAssumption, DmapAssumption
<1>2. q \in Nat /\ x % BLOCK_SIZE \in Nat /\ x = BLOCK_SIZE * q + (x % BLOCK_SIZE)
    BY <1>1, DivMod
<1> HIDE DEF q
<1>3. q < WORD
    <2>1. SUFFICES ASSUME q >= WORD PROVE FALSE
        BY <1>1, <1>2
    <2>2. BLOCK_SIZE * q >= BLOCK_SIZE * WORD
        BY <1>1, <1>2, <2>1
    <2>3. (WORD - 1) * BLOCK_SIZE = BLOCK_SIZE * WORD - BLOCK_SIZE
        BY <1>1
    <2>4. x < BLOCK_SIZE * WORD
        BY <1>1, <2>3 DEF SizesFit
    <2>5. QED BY <1>1, <1>2, <2>2, <2>4
<1>4. q % WORD = q
    <2>1. q = WORD * 0 + q
        BY <1>1, <1>2
    <2>2. QED BY <1>1, <1>2, <1>3, <2>1, DivUnique
<1>5. QED BY <1>2, <1>4 DEF BlockIndex, q

\* So are the block counts of fuseTruncate.
LEMMA BlocksForExact ==
    ASSUME SizesFit, NEW size \in 0..MaxSize
    PROVE  BlocksFor(size) = Needed(size) /\ BlocksFor(size) \in Nat
<1>1. BLOCK_SIZE \in Nat \ {0} /\ MaxSize \in Nat
    BY OnDiskFSAssumption, TransferAssumption
<1>2. size + BLOCK_SIZE - 1 \in Nat /\ size + BLOCK_SIZE - 1 <= MaxSize + BLOCK_SIZE - 1
    BY <1>1
<1>3. QED BY <1>2, BlockIndexExact DEF BlocksFor, Needed

-----------------------------------------------------------------------------
(* What the handlers do.                                                   *)

\* The chains of the entries, as walks find them.
Chains(t, r) == [i \in Entries |-> getBlockList(t, r[i].firstBlock)]

Metadata(f, t, r) ==
    /\ r \in [Entries -> Files]
    /\ Layout(f, t, r, Chains(t, r))
    /\ \A i \in Entries : r[i].size <= MaxSize /\ Len(Chains(t, r)[i]) = Needed(r[i].size)
    /\ \A i \in Entries : r[i].name = NoName => r[i].size = 0
    /\ \A i, j \in Entries : r[i].name = r[j].name /\ r[i].name # NoName => i = j

\* Any chains that fit bitmap, table and directory are the ones the walks of
\* the code find.
LEMMA MetadataIntro ==
    ASSUME NEW f, NEW t, NEW r \in [Entries -> Files], NEW C, Layout(f, t, r, C),
           \A i \in Entries : r[i].size <= MaxSize /\ Len(C[i]) = Needed(r[i].size),
           \A i \in Entries : r[i].name = NoName => r[i].size = 0,
           \A i, j \in Entries : r[i].name = r[j].name /\ r[i].name # NoName => i = j
    PROVE  Metadata(f, t, r) /\ Chains(t, r) = C
<1>1. \A i \in Entries : getBlockList(t, r[i].firstBlock) = C[i]
    BY LayoutChains
<1>2. C \in [Entries -> BlockLists]
    BY DEF Layout
<1>3. Chains(t, r) = C
    BY <1>1, <1>2 DEF Chains
<1>4. QED BY <1>3 DEF Metadata

\* The chain of an entry: its walk ends, in data blocks only, and an empty
\* file has none.
LEMMA ChainFacts ==
    ASSUME NEW f, NEW t, NEW r, Metadata(f, t, r), NEW i \in Entries
    PROVE  /\ Chains(t, r) \in [Entries -> BlockLists]
           /\ Chains(t, r)[i] \in BlockLists
           /\ Chains(t, r)[i] = getBlockList(t, r[i].firstBlock)
           /\ WalkEnds(t, r[i].firstBlock)
           /\ IF Chains(t, r)[i] = <<>> THEN r[i].firstBlock = END_OF_CLUSTER
              ELSE /\ Chains(t, r)[i][1] = r[i].firstBlock
                   /\ r[i].firstBlock # END_OF_CLUSTER
           /\ SetOfBlocks(Chains(t, r)[i]) \subseteq DataBlocks
           /\ r[i].size = 0 => Chains(t, r)[i] = <<>>
<1>1. Layout(f, t, r, Chains(t, r))
    BY DEF Metadata
<1>2. Chains(t, r) \in [Entries -> BlockLists] /\ SetOfBlocks(Chains(t, r)[i]) \subseteq DataBlocks
    BY <1>1 DEF Layout
<1>3. Chains(t, r)[i] = getBlockList(t, r[i].firstBlock)
    BY DEF Chains
<1>4. r[i].size = 0 => Chains(t, r)[i] = <<>>
    <2>1. SUFFICES ASSUME r[i].size = 0 PROVE Chains(t, r)[i] = <<>>
        OBVIOUS
    <2>2. Len(Chains(t, r)[i]) = 0
        BY <2>1, NeededType DEF Metadata
    <2>3. Chains(t, r)[i] \in Seq(Blocks)
        BY <1>2, BlockListType
    <2>4. QED BY <2>2, <2>3
<1>5. QED BY <1>1, <1>2, <1>3, <1>4, LayoutChains, LayoutFirst

\* Root::getFile finds an entry of that name whenever hasFile says there is
\* one, so it does not throw.
LEMMA GetFile ==
    ASSUME NEW r, NEW name, hasFile(r, name)
    PROVE  getFile(r, name) \in Entries /\ r[getFile(r, name)].name = name
<1> DEFINE T == {i \in Entries : r[i].name = name}
<1>1. T \subseteq Nat /\ T # {}
    BY RootAssumption DEF hasFile, Entries
<1>2. PICK m \in T : \A k \in T : m <= k
    BY <1>1, LeastNat
<1>3. m \in Entries /\ r[m].name = name /\ \A j \in 1..(m - 1) : r[j].name # name
    <2>1. \A j \in 1..(m - 1) : j \in Entries /\ ~(m <= j)
        BY <1>1, RootAssumption DEF Entries
    <2>2. QED BY <1>2, <2>1
<1>4. QED BY <1>3 DEF getFile

\* With unique names the search finds the one entry of the name.
LEMMA GetFileUnique ==
    ASSUME NEW f, NEW t, NEW r, Metadata(f, t, r), NEW name, name # NoName,
           NEW i \in Entries, r[i].name = name
    PROVE  hasFile(r, name) /\ getFile(r, name) = i
<1>1. hasFile(r, name)
    BY DEF hasFile
<1>2. QED BY <1>1, GetFile DEF Metadata

\* A change that leaves names, first blocks and sizes alone.
LEMMA AttributesKeep ==
    ASSUME NEW f, NEW t, NEW r, Metadata(f, t, r), NEW r2 \in [Entries -> Files],
           \A j \in Entries : /\ r2[j].firstBlock = r[j].firstBlock
                              /\ r2[j].size = r[j].size /\ r2[j].name = r[j].name
    PROVE  Metadata(f, t, r2) /\ Chains(t, r2) = Chains(t, r)
<1>1. Layout(f, t, r2, Chains(t, r))
    BY DEF Metadata, Layout
<1>2. /\ \A i \in Entries : r2[i].size <= MaxSize
                              /\ Len(Chains(t, r)[i]) = Needed(r2[i].size)
      /\ \A i \in Entries : r2[i].name = NoName => r2[i].size = 0
      /\ \A i, j \in Entries : r2[i].name = r2[j].name /\ r2[i].name # NoName => i = j
    BY DEF Metadata
<1>3. QED BY <1>1, <1>2, MetadataIntro

Renamed(r, i, name) == [r EXCEPT ![i].name = name]

\* A new name that no entry has, in an entry in use.
LEMMA RenameKeeps ==
    ASSUME NEW f, NEW t, NEW r, Metadata(f, t, r), NEW name \in Names,
           ~hasFile(r, name), NEW i \in Entries, r[i].name # NoName,
           NEW r2, r2 = Renamed(r, i, name)
    PROVE  /\ Metadata(f, t, r2) /\ Chains(t, r2) = Chains(t, r)
           /\ r2[i].name = name
           /\ \A j \in Entries \ {i} : r2[j] = r[j]
<1>1. r \in [Entries -> Files] /\ name # NoName
    BY RootAssumption DEF Metadata
<1>2. /\ r2 \in [Entries -> Files] /\ r2[i].name = name
      /\ r2[i].firstBlock = r[i].firstBlock /\ r2[i].size = r[i].size
      /\ \A j \in Entries \ {i} : r2[j] = r[j]
    BY <1>1 DEF Renamed, Files
<1>3. Layout(f, t, r2, Chains(t, r))
    BY <1>2 DEF Metadata, Layout
<1>4. \A j, k \in Entries : r2[j].name = r2[k].name /\ r2[j].name # NoName => j = k
    BY <1>2 DEF Metadata, hasFile
<1>5. \A j \in Entries : r2[j].size <= MaxSize /\ Len(Chains(t, r)[j]) = Needed(r2[j].size)
    BY <1>2 DEF Metadata
<1>6. \A j \in Entries : r2[j].name = NoName => r2[j].size = 0
    BY <1>1, <1>2 DEF Metadata
<1>7. Metadata(f, t, r2) /\ Chains(t, r2) = Chains(t, r)
    BY <1>2, <1>3, <1>4, <1>5, <1>6, MetadataIntro
<1>8. QED BY <1>2, <1>7

\* fuseMknod, with a name that no file has.
LEMMA MknodKeeps ==
    ASSUME NEW f, NEW t, NEW r, Metadata(f, t, r), NEW name \in Names,
           ~hasFile(r, name), ~isFull(r), NEW mode \in Modes
    PROVE  LET r2 == mknod(r, name, mode, ProcessOwner)
           IN  /\ Metadata(f, t, r2) /\ Chains(t, r2) = Chains(t, r)
               /\ \A j \in Entries : r[j].name # NoName => r2[j] = r[j]
<1> DEFINE i == getFile(r, NoName)
           new == [UnusedEntry EXCEPT !.name = name, !.mode = mode, !.owner = ProcessOwner]
           r2 == mknod(r, name, mode, ProcessOwner)
<1>1. i \in Entries /\ r[i].name = NoName
    BY GetFile DEF isFull
<1>2. r \in [Entries -> Files] /\ name # NoName /\ r[i].size = 0
    BY <1>1, RootAssumption DEF Metadata
<1>3. /\ new \in Files /\ new.name = name /\ new.size = 0
      /\ new.firstBlock = END_OF_CLUSTER
    BY OnDiskFSAssumption, TransferAssumption, EndIsNoBlock DEF Files, UnusedEntry
<1>4. r[i].firstBlock = END_OF_CLUSTER /\ Chains(t, r)[i] = <<>>
    BY <1>1, <1>2, ChainFacts
<1> HIDE DEF i, new
<1>5. /\ r2 \in [Entries -> Files] /\ r2[i] = new
      /\ \A j \in Entries \ {i} : r2[j] = r[j]
    BY <1>1, <1>2, <1>3 DEF mknod, new, i
<1> HIDE DEF r2
<1>6. Layout(f, t, r2, Chains(t, r))
    BY <1>3, <1>4, <1>5 DEF Metadata, Layout
<1>7. \A j, k \in Entries : r2[j].name = r2[k].name /\ r2[j].name # NoName => j = k
    BY <1>3, <1>5 DEF Metadata, hasFile
<1>8. \A j \in Entries : r2[j].size <= MaxSize /\ Len(Chains(t, r)[j]) = Needed(r2[j].size)
    BY <1>1, <1>2, <1>3, <1>5 DEF Metadata
<1>9. \A j \in Entries : r2[j].name = NoName => r2[j].size = 0
    BY <1>2, <1>3, <1>5 DEF Metadata
<1>10. Metadata(f, t, r2) /\ Chains(t, r2) = Chains(t, r)
    BY <1>5, <1>6, <1>7, <1>8, <1>9, MetadataIntro
<1>11. QED BY <1>1, <1>5, <1>10 DEF r2

\* fuseUnlink, and fuseRename of its target.
LEMMA UnlinkKeeps ==
    ASSUME NEW f, NEW t, NEW r, Metadata(f, t, r), NEW name \in Names, hasFile(r, name)
    PROVE  LET i == getFile(r, name)
               r2 == unlink(r, name)
               f2 == markFree(f, SetOfBlocks(getBlockList(t, r[i].firstBlock)))
           IN  /\ Metadata(f2, t, r2)
               /\ i \in Entries /\ r[i].name = name /\ ~hasFile(r2, name)
               /\ \A j \in Entries \ {i} : r2[j] = r[j] /\ Chains(t, r2)[j] = Chains(t, r)[j]
<1> DEFINE i == getFile(r, name)
           r2 == unlink(r, name)
           C == Chains(t, r)
           D == With(C, i, <<>>)
           f2 == markFree(f, SetOfBlocks(C[i]))
<1>1. i \in Entries /\ r[i].name = name
    BY GetFile
<1>2. /\ r \in [Entries -> Files] /\ name # NoName
      /\ C[i] = getBlockList(t, r[i].firstBlock) /\ C \in [Entries -> BlockLists]
    BY <1>1, RootAssumption, ChainFacts DEF Metadata
<1>3. /\ UnusedEntry \in Files /\ UnusedEntry.name = NoName /\ UnusedEntry.size = 0
      /\ UnusedEntry.firstBlock = END_OF_CLUSTER
    BY EndIsNoBlock DEF Files, UnusedEntry
<1> HIDE DEF i, C
<1>4. /\ r2 \in [Entries -> Files] /\ r2[i] = UnusedEntry
      /\ \A j \in Entries \ {i} : r2[j] = r[j]
    BY <1>1, <1>2, <1>3 DEF unlink, i
<1>5. D[i] = <<>> /\ \A j \in Entries \ {i} : D[j] = C[j]
    BY <1>1, <1>2, WithFacts
<1> HIDE DEF r2
<1>6. Layout(f2, t, r2, D)
    <2>1. Layout(f, t, r, C)
        BY DEF Metadata, C
    <2>2. OthersKept(r, r2, i) /\ r2[i].firstBlock = END_OF_CLUSTER
        BY <1>3, <1>4 DEF OthersKept
    <2>3. QED BY <1>1, <2>1, <2>2, LayoutFree
<1> HIDE DEF D, f2
<1>7. \A j, k \in Entries : r2[j].name = r2[k].name /\ r2[j].name # NoName => j = k
    BY <1>3, <1>4 DEF Metadata
<1>8. \A j \in Entries : r2[j].size <= MaxSize /\ Len(D[j]) = Needed(r2[j].size)
    <2>1. 0 <= MaxSize /\ Len(<<>>) = Needed(0)
        BY OnDiskFSAssumption, TransferAssumption, NeededType
    <2>2. QED BY <1>3, <1>4, <1>5, <2>1 DEF Metadata, C
<1>9. \A j \in Entries : r2[j].name = NoName => r2[j].size = 0
    BY <1>3, <1>4 DEF Metadata
<1>10. Metadata(f2, t, r2) /\ Chains(t, r2) = D
    BY <1>4, <1>6, <1>7, <1>8, <1>9, MetadataIntro
<1>11. ~hasFile(r2, name)
    BY <1>1, <1>2, <1>3, <1>4 DEF Metadata, hasFile
<1>12. QED BY <1>1, <1>2, <1>4, <1>5, <1>10, <1>11 DEF r2, f2, i, C

-----------------------------------------------------------------------------
(* The file that a write or a truncate resizes.                            *)

\* Nothing but entry i is another one.
EntriesKept(r, r2, i) == \A j \in Entries \ {i} : r2[j] = r[j]

\* The chain of file i replaced and its size set to fit: what remains of the
\* metadata is as it was.
LEMMA ResizeKeeps ==
    ASSUME NEW f, NEW t, NEW r, Metadata(f, t, r), NEW i \in Entries,
           r[i].name # NoName, NEW list,
           NEW f2, NEW t2, NEW r2 \in [Entries -> Files],
           Layout(f2, t2, r2, With(Chains(t, r), i, list)),
           EntriesKept(r, r2, i), r2[i].name = r[i].name,
           r2[i].size <= MaxSize, Len(list) = Needed(r2[i].size)
    PROVE  Metadata(f2, t2, r2) /\ Chains(t2, r2) = With(Chains(t, r), i, list)
<1> DEFINE D == With(Chains(t, r), i, list)
<1>1. D[i] = list /\ \A j \in Entries \ {i} : D[j] = Chains(t, r)[j]
    BY WithFacts, ChainFacts
<1> HIDE DEF D
<1>2. \A j, k \in Entries : r2[j].name = r2[k].name /\ r2[j].name # NoName => j = k
    BY DEF Metadata, EntriesKept
<1>3. \A j \in Entries : r2[j].size <= MaxSize /\ Len(D[j]) = Needed(r2[j].size)
    BY <1>1 DEF Metadata, EntriesKept
<1>4. \A j \in Entries : r2[j].name = NoName => r2[j].size = 0
    BY DEF Metadata, EntriesKept
<1>5. Layout(f2, t2, r2, D)
    BY DEF D
<1>6. Metadata(f2, t2, r2) /\ Chains(t2, r2) = D
    BY <1>2, <1>3, <1>4, <1>5, MetadataIntro
<1>7. QED BY <1>6 DEF D

\* Entry i with another chain and size: SetSize and the end of fuseWrite.
Placed(r, i, first, size) == [r EXCEPT ![i].firstBlock = first, ![i].size = size]

\* Setting first block and size of one entry leaves its name and the other
\* entries alone.
LEMMA PlacedEntry ==
    ASSUME NEW r \in [Entries -> Files], NEW i \in Entries,
           NEW first \in Links, NEW size \in Nat
    PROVE  /\ Placed(r, i, first, size) \in [Entries -> Files]
           /\ Placed(r, i, first, size)[i].name = r[i].name
           /\ Placed(r, i, first, size)[i].firstBlock = first
           /\ Placed(r, i, first, size)[i].size = size
           /\ EntriesKept(r, Placed(r, i, first, size), i)
           /\ OthersKept(r, Placed(r, i, first, size), i)
<1> DEFINE e == [r[i] EXCEPT !.firstBlock = first, !.size = size]
<1>1. e \in Files /\ e.name = r[i].name /\ e.firstBlock = first /\ e.size = size
    BY DEF Files
<1> HIDE DEF e
<1>2. Placed(r, i, first, size) = [r EXCEPT ![i] = e]
    BY DEF Placed, e
<1>3. QED BY <1>1, <1>2 DEF EntriesKept, OthersKept

\* Nor does it change the other attributes of the entry.
LEMMA PlacedAttributes ==
    ASSUME NEW r \in [Entries -> Files], NEW i \in Entries, NEW first, NEW size
    PROVE  /\ Placed(r, i, first, size)[i].mode = r[i].mode
           /\ Placed(r, i, first, size)[i].owner = r[i].owner
           /\ Placed(r, i, first, size)[i].size = size
<1> DEFINE e == [r[i] EXCEPT !.firstBlock = first, !.size = size]
<1>1. e.mode = r[i].mode /\ e.owner = r[i].owner /\ e.size = size
    BY DEF Files
<1> HIDE DEF e
<1>2. Placed(r, i, first, size) = [r EXCEPT ![i] = e]
    BY DEF Placed, e
<1>3. QED BY <1>1, <1>2

\* What entry i becomes when e extends it by n blocks and r2 is the directory
\* after: only its chain is longer.
ExtendedBy(i, n, size, e, r2) ==
    /\ Metadata(e.flags, e.table, r2)
    /\ Chains(e.table, r2) = With(Chains(table, root), i, Chain(i) \o e.new)
    /\ r2[i].name = root[i].name /\ r2[i].size = size
    /\ EntriesKept(root, r2, i)
    /\ e.nextBlock \in Blocks
    /\ e.new \in BlockLists /\ Len(e.new) = n
    /\ Chain(i) \o e.new \in BlockLists /\ Len(Chain(i) \o e.new) = Needed(size)
    /\ SetOfBlocks(Chain(i)) \subseteq SetOfBlocks(Chain(i) \o e.new)

\* What Extended gives, for a file whose chain is as long as its size says.
LEMMA ExtendedKeeps ==
    ASSUME Metadata(flags, table, root), nextBlock \in Blocks,
           NEW i \in Entries, root[i].name # NoName,
           NEW block, EndOf(Chain(i), block),
           NEW n \in Nat, CanFind(flags, n),
           NEW size \in 0..MaxSize, Len(Chain(i)) + n = Needed(size),
           NEW e, e = Extended(i, block, n),
           NEW r2, r2 = Placed(root, i, e.firstBlock, size)
    PROVE  ExtendedBy(i, n, size, e, r2)
<1> DEFINE C == Chains(table, root)
           q == C[i] \o e.new
<1>1. /\ C \in [Entries -> BlockLists] /\ C[i] = Chain(i) /\ C[i] \in Seq(Blocks)
      /\ root \in [Entries -> Files] /\ Layout(flags, table, root, C)
      /\ C[i] = <<>> <=> root[i].firstBlock = END_OF_CLUSTER
      /\ Len(C[i]) \in Nat /\ root[i].firstBlock \in Links
      /\ size \in Nat /\ size <= MaxSize
    <2>1. /\ C \in [Entries -> BlockLists] /\ C[i] = Chain(i) /\ C[i] \in BlockLists
          /\ C[i] = <<>> <=> root[i].firstBlock = END_OF_CLUSTER
        BY ChainFacts DEF Chain
    <2>2. root \in [Entries -> Files] /\ Layout(flags, table, root, C)
        BY DEF Metadata
    <2>3. root[i].firstBlock \in Links
        BY <2>2 DEF Files
    <2>4. C[i] \in Seq(Blocks) /\ Len(C[i]) \in Nat
        BY <2>1, BlockListType
    <2>5. size \in Nat /\ size <= MaxSize
        BY OnDiskFSAssumption, TransferAssumption
    <2>6. QED BY <2>1, <2>2, <2>3, <2>4, <2>5
\* It is enough to show what distinguishes no new blocks from some.
<1>2. ASSUME e.firstBlock \in Links
      PROVE  /\ r2 \in [Entries -> Files] /\ r2[i].name = root[i].name
             /\ r2[i].firstBlock = e.firstBlock /\ r2[i].size = size
             /\ EntriesKept(root, r2, i) /\ OthersKept(root, r2, i)
    BY <1>1, <1>2, PlacedEntry, Z3
<1> HIDE DEF C
<1>3. ASSUME e.firstBlock \in Links, Layout(e.flags, e.table, r2, With(C, i, q)),
             Len(q) = Needed(size)
      PROVE  Metadata(e.flags, e.table, r2) /\ Chains(e.table, r2) = With(C, i, q)
    <2> HIDE DEF q
    <2>1. /\ r2 \in [Entries -> Files] /\ EntriesKept(root, r2, i)
          /\ r2[i].name = root[i].name /\ r2[i].size <= MaxSize
          /\ Len(q) = Needed(r2[i].size)
        BY <1>1, <1>2, <1>3
    <2>2. Layout(e.flags, e.table, r2, With(Chains(table, root), i, q))
        BY <1>3 DEF C
    <2>3. QED BY <2>1, <2>2, ResizeKeeps DEF C
<1>4. CASE n = 0
    <2>1. /\ e.flags = flags /\ e.nextBlock = nextBlock /\ e.table = table
          /\ e.firstBlock = root[i].firstBlock /\ e.new = <<>>
        BY <1>4 DEF Extended
    <2>2. q = C[i] /\ With(C, i, q) = C /\ e.firstBlock \in Links
        <3>1. q = C[i] /\ e.firstBlock \in Links
            BY <1>1, <2>1
        <3> HIDE DEF q
        <3>2. With(C, i, q) = C
            BY <1>1, <3>1, Zenon DEF With
        <3>3. QED BY <3>1, <3>2
    <2>3. \A j \in Entries : r2[j].firstBlock = root[j].firstBlock
        BY <1>2, <2>1, <2>2 DEF OthersKept
    <2>4. Layout(e.flags, e.table, r2, With(C, i, q))
        BY <1>1, <2>1, <2>2, <2>3 DEF Layout
    <2>5. /\ e.new \in BlockLists /\ Len(e.new) = n /\ Len(q) = Needed(size)
        BY <1>1, <1>4, <2>1, <2>2, EmptyList
    <2>6. q \in BlockLists /\ SetOfBlocks(C[i]) \subseteq SetOfBlocks(q)
        BY <1>1, <2>2
    <2>7. QED BY <1>1, <1>2, <1>3, <2>1, <2>2, <2>4, <2>5, <2>6 DEF C, ExtendedBy
<1>5. CASE n # 0
    <2> DEFINE new == findNFreeBlocks(flags, nextBlock, n)
    <2>2. Fresh(flags, n, new)
        BY <1>5, FindNFreeBlocks DEF Fresh
    <2> HIDE DEF new
    <2>3. /\ e.flags = markUsed(flags, SetOfBlocks(new)) /\ e.nextBlock = CursorAfter(new)
          /\ e.table = TableWith(table, C[i], block, new)
          /\ e.firstBlock = IF C[i] = <<>> THEN new[1] ELSE root[i].firstBlock
          /\ e.new = new
        BY <1>1, <1>5 DEF Extended, TableWith, new
    <2>4. /\ new \in BlockLists /\ Len(new) = n /\ new[1] \in Blocks
          /\ q \in BlockLists /\ Len(q) = Len(C[i]) + n
          /\ SetOfBlocks(q) = SetOfBlocks(C[i]) \cup SetOfBlocks(new)
        <3>1. /\ new \in BlockLists /\ Len(new) = n /\ new[1] \in Blocks
              /\ C[i] \o new \in BlockLists /\ Len(C[i] \o new) = Len(C[i]) + n
              /\ SetOfBlocks(C[i] \o new) = SetOfBlocks(C[i]) \cup SetOfBlocks(new)
            BY <1>1, <2>2, ExtendList, Z3
        <3>2. QED BY <2>3, <3>1
    <2>5. e.firstBlock \in Links
        BY <1>1, <2>3, <2>4 DEF Links
    <2>6. e.nextBlock \in Blocks
        <3>1. new \in [1..n -> Blocks]
            BY <2>2 DEF Fresh, FreeBlocks
        <3>2. CursorAfter(new) \in DataBlocks
            BY <1>5, <3>1, CursorInDataArea
        <3>3. QED BY <2>3, <3>2, DmapAssumption DEF DataBlocks, Blocks
    <2>7. Layout(e.flags, e.table, r2, With(C, i, q))
        <3>1. EndOf(C[i], block) /\ OthersKept(root, r2, i)
            BY <1>1, <1>2, <2>5
        <3>2. /\ C[i] = <<>> => r2[i].firstBlock = new[1]
              /\ C[i] # <<>> => r2[i].firstBlock = root[i].firstBlock
            BY <1>2, <2>3, <2>5
        <3>3. QED BY <1>1, <2>2, <2>3, <3>1, <3>2, LayoutExtend, ZenonT(60)
    <2>8. Len(q) = Needed(size)
        BY <1>1, <2>4
    <2> HIDE DEF q
    <2>9. Metadata(e.flags, e.table, r2) /\ Chains(e.table, r2) = With(C, i, q)
        BY <1>3, <2>5, <2>7, <2>8
    <2>10. QED BY <1>1, <1>2, <2>3, <2>4, <2>5, <2>6, <2>8, <2>9 DEF C, q, ExtendedBy
<1>6. QED BY <1>4, <1>5

\* Of two lists one begins with the other.
Agree(s, t) == \A k \in 1..Len(s) : k <= Len(t) => t[k] = s[k]

\* What Resized gives a shrinking file: the first blocks of its chain.
LEMMA ShrinkKeeps ==
    ASSUME Metadata(flags, table, root), nextBlock \in Blocks, SizesFit,
           NEW i \in Entries, root[i].name # NoName,
           NEW size \in 0..MaxSize, BlocksFor(size) < BlocksFor(root[i].size),
           NEW e, e = Resized(i, size),
           NEW r2, r2 = Placed(root, i, e.firstBlock, size)
    PROVE  /\ Metadata(e.flags, e.table, r2)
           /\ \E list \in BlockLists :
                 /\ Chains(e.table, r2) = With(Chains(table, root), i, list)
                 /\ Agree(Chains(table, root)[i], list)
           /\ r2[i].name = root[i].name /\ EntriesKept(root, r2, i)
           /\ e.nextBlock \in Blocks
<1> DEFINE C == Chains(table, root)
           new == BlocksFor(size)
           first == root[i].firstBlock
<1>1. /\ C \in [Entries -> BlockLists] /\ C[i] = Chain(i) /\ C[i] \in BlockLists
      /\ C[i] \in Seq(Blocks)
      /\ root \in [Entries -> Files] /\ Layout(flags, table, root, C)
      /\ first \in Links
    <2>1. C \in [Entries -> BlockLists] /\ C[i] = Chain(i) /\ C[i] \in BlockLists
        BY ChainFacts DEF Chain
    <2>2. root \in [Entries -> Files] /\ Layout(flags, table, root, C)
        BY DEF Metadata
    <2>3. first \in Links
        BY <2>2 DEF Files
    <2>4. QED BY <2>1, <2>2, <2>3, BlockListType
<1>2. /\ size \in Nat /\ size <= MaxSize /\ new \in Nat /\ new = Needed(size)
      /\ Len(C[i]) \in Nat /\ new < Len(C[i])
    <2>1. size \in Nat /\ size <= MaxSize /\ root[i].size \in 0..MaxSize
        BY <1>1, OnDiskFSAssumption, TransferAssumption DEF Metadata, Files
    <2>2. /\ BlocksFor(root[i].size) = Needed(root[i].size)
          /\ new = Needed(size) /\ new \in Nat
        BY <2>1, BlocksForExact
    <2>3. Len(C[i]) = Needed(root[i].size)
        BY DEF Metadata
    <2>4. QED BY <1>1, <2>1, <2>2, <2>3
<1>3. /\ e.flags = markFree(flags, {C[i][k] : k \in (new + 1)..Len(C[i])})
      /\ e.nextBlock = nextBlock
      /\ e.table = IF new > 0 THEN truncate(table, C[i][new]) ELSE table
      /\ e.firstBlock = IF new > 0 THEN first ELSE END_OF_CLUSTER
    <2>1. C[i] = getBlockList(table, first)
        BY <1>1 DEF Chain
    <2>2. ~(new >= BlocksFor(root[i].size))
        <3>1. root[i].size \in 0..MaxSize
            BY <1>1, OnDiskFSAssumption, TransferAssumption DEF Metadata, Files
        <3>2. BlocksFor(root[i].size) \in Nat
            BY <3>1, BlocksForExact
        <3>3. QED BY <1>2, <3>2
    <2>3. QED BY <2>1, <2>2 DEF Resized
<1> HIDE DEF new, C
<1>4. e.firstBlock \in Links
    BY <1>1, <1>3 DEF Links
<1>5. /\ r2 \in [Entries -> Files] /\ r2[i].name = root[i].name
      /\ r2[i].firstBlock = e.firstBlock /\ r2[i].size = size
      /\ EntriesKept(root, r2, i) /\ OthersKept(root, r2, i)
    BY <1>1, <1>2, <1>4, PlacedEntry, Z3
<1>6. ASSUME NEW list \in BlockLists, Len(list) = new,
             Agree(C[i], list), Layout(e.flags, e.table, r2, With(C, i, list))
      PROVE  /\ Metadata(e.flags, e.table, r2)
             /\ \E l \in BlockLists : /\ Chains(e.table, r2) = With(C, i, l)
                                      /\ Agree(C[i], l)
    <2>1. r2[i].size <= MaxSize /\ Len(list) = Needed(r2[i].size)
        BY <1>2, <1>5, <1>6
    <2>2. Layout(e.flags, e.table, r2, With(Chains(table, root), i, list))
        BY <1>6 DEF C
    <2>3. Metadata(e.flags, e.table, r2) /\ Chains(e.table, r2) = With(C, i, list)
        BY <1>5, <2>1, <2>2, ResizeKeeps DEF C
    <2>4. QED BY <1>6, <2>3
<1>7. CASE new = 0
    <2>1. {C[i][k] : k \in (new + 1)..Len(C[i])} = SetOfBlocks(C[i])
        <3>1. new + 1 = 1
            BY <1>7
        <3>2. SetOfBlocks(C[i]) = {C[i][k] : k \in 1..Len(C[i])}
            BY <1>1, BlockListType
        <3>3. QED BY <3>1, <3>2
    <2>2. e.flags = markFree(flags, SetOfBlocks(C[i])) /\ e.table = table
        <3>1. ~(new > 0)
            BY <1>7
        <3>2. e.table = table
            BY <1>3, <3>1
        <3>3. e.flags = markFree(flags, {C[i][k] : k \in (new + 1)..Len(C[i])})
            BY <1>3
        <3>4. QED BY <2>1, <3>2, <3>3, Zenon
    <2>3. r2[i].firstBlock = END_OF_CLUSTER
        BY <1>3, <1>5, <1>7
    <2>4. Layout(e.flags, e.table, r2, With(C, i, <<>>))
        BY <1>1, <1>5, <2>2, <2>3, LayoutFree
    <2>5. Agree(C[i], <<>>)
        <3>1. Len(<<>>) = 0
            OBVIOUS
        <3>2. QED BY <3>1 DEF Agree
    <2>6. QED BY <1>3, <1>5, <1>6, <1>7, <2>4, <2>5, EmptyList DEF C
<1>8. CASE new # 0
    <2> DEFINE q == SubSeq(C[i], 1, new)
    <2>1. new \in 1..Len(C[i])
        BY <1>2, <1>8
    <2>2. q \in BlockLists /\ Len(q) = new
        <3>1. IsChain(table, C[i]) /\ table \in [Blocks -> Links]
            BY <1>1 DEF Layout
        <3>2. QED BY <1>1, <2>1, <3>1, TruncateChain
    <2>3. /\ e.flags = markFree(flags, {C[i][k] : k \in (new + 1)..Len(C[i])})
          /\ e.table = truncate(table, C[i][new])
          /\ r2[i].firstBlock = root[i].firstBlock
        BY <1>2, <1>3, <1>5, <1>8
    <2>4. Layout(e.flags, e.table, r2, With(C, i, q))
        BY <1>1, <1>5, <2>1, <2>3, LayoutShrink
    <2>5. Agree(C[i], q)
        <3>1. C[i] \in Seq(Blocks) /\ new \in 1..Len(C[i])
            BY <1>1, <2>1, BlockListType
        <3>2. QED BY <2>2, <3>1 DEF Agree
    <2> HIDE DEF q
    <2>6. QED BY <1>3, <1>5, <1>6, <2>2, <2>4, <2>5 DEF C
<1>9. QED BY <1>7, <1>8 DEF C

\* Both fuseTruncate: they never fault, and resize one file.
LEMMA ResizedKeeps ==
    ASSUME Metadata(flags, table, root), nextBlock \in Blocks, SizesFit,
           NEW i \in Entries, root[i].name # NoName,
           NEW size \in 0..MaxSize, CanFind(flags, BlocksToAdd(i, size)),
           NEW e, e = Resized(i, size),
           NEW r2, r2 = Placed(root, i, e.firstBlock, size)
    PROVE  /\ ~ResizeFaults(i, size)
           /\ Metadata(e.flags, e.table, r2)
           /\ \E list \in BlockLists :
                 /\ Chains(e.table, r2) = With(Chains(table, root), i, list)
                 /\ Agree(Chains(table, root)[i], list)
           /\ r2[i].name = root[i].name /\ EntriesKept(root, r2, i)
           /\ e.nextBlock \in Blocks
<1> DEFINE old == BlocksFor(root[i].size)
           new == BlocksFor(size)
           n == BlocksToAdd(i, size)
           first == root[i].firstBlock
<1>1. /\ old \in Nat /\ new \in Nat /\ new = Needed(size) /\ Len(Chain(i)) = old
      /\ n = (IF new > old THEN new - old ELSE 0)
    <2>1. root[i].size \in 0..MaxSize
        BY OnDiskFSAssumption, TransferAssumption DEF Metadata, Files
    <2>2. Chain(i) = Chains(table, root)[i]
        BY DEF Chain, Chains
    <2>3. Len(Chain(i)) = Needed(root[i].size)
        BY <2>2 DEF Metadata
    <2>4. QED BY <2>1, <2>3, BlocksForExact DEF BlocksToAdd
<1>2. /\ WalkEnds(table, first) /\ Chain(i) = getBlockList(table, first)
      /\ EndOf(Chain(i), first)
    <2>1. Chain(i) = Chains(table, root)[i] /\ Chain(i) = getBlockList(table, first)
        BY DEF Chain, Chains
    <2>2. /\ WalkEnds(table, first)
          /\ Chains(table, root)[i] # <<>> => Chains(table, root)[i][1] = first
        BY ChainFacts
    <2>3. QED BY <2>1, <2>2 DEF EndOf
<1>3. ~ResizeFaults(i, size)
    <2> HIDE DEF old, new, n
    <2>1. ~(new < old /\ new > Len(Chain(i)))
        BY <1>1
    <2>2. QED BY <1>2, <2>1 DEF ResizeFaults, old, new
<1>4. CASE new < old
    BY <1>3, <1>4, ShrinkKeeps
<1>5. CASE ~(new < old)
    <2>1. e = Extended(i, first, n)
        <3>1. new >= old
            BY <1>1, <1>5
        <3>2. QED BY <3>1 DEF Resized
    <2>2. n \in Nat /\ Len(Chain(i)) + n = Needed(size)
        <3> HIDE DEF old, new, n
        <3>1. QED BY <1>1, <1>5
    <2> HIDE DEF old, new, n, first
    <2>3. /\ Metadata(e.flags, e.table, r2)
          /\ Chains(e.table, r2) = With(Chains(table, root), i, Chain(i) \o e.new)
          /\ r2[i].name = root[i].name /\ EntriesKept(root, r2, i)
          /\ e.nextBlock \in Blocks /\ Chain(i) \o e.new \in BlockLists
          /\ e.new \in BlockLists
        <3>1. CanFind(flags, n)
            BY DEF n
        <3>2. ExtendedBy(i, n, size, e, r2)
            BY <1>2, <2>1, <2>2, <3>1, ExtendedKeeps
        <3>3. QED BY <3>2 DEF ExtendedBy
    <2>4. Agree(Chains(table, root)[i], Chain(i) \o e.new)
        <3>1. Chain(i) = Chains(table, root)[i] /\ Chain(i) \in BlockLists
            BY ChainFacts DEF Chain
        <3>2. Chain(i) \in Seq(Blocks) /\ e.new \in Seq(Blocks)
            BY <2>3, <3>1, BlockListType
        <3>3. QED BY <3>1, <3>2 DEF Agree
    <2>5. QED BY <1>3, <2>3, <2>4
<1>6. QED BY <1>4, <1>5

-----------------------------------------------------------------------------
(* The array of open files.                                                *)

InUse(of) == {h \in Handles : ~of[h].isFree}

\* The file of a handle is in the directory, and the handle lists its chain.
Attached(name, file, r, C) ==
    \E i \in Entries : r[i].name = name /\ file.blockList = C[i]

\* A block waits in the cache of a handle only while the handle is in use and
\* only if the handle lists it.
DirtyInList(file) ==
    file.dirty => ~file.isFree /\ file.blockNo \in SetOfBlocks(file.blockList)

\* The handles `of`, n of them in use, opened on the names op, while the
\* directory is r and the chains of its entries are C.
HandlesOK(of, n, op, r, C) ==
    /\ of \in [Handles -> OpenFile] /\ op \in [Handles -> Names \cup {NoName}]
    /\ n = Cardinality(InUse(of))
    /\ \A h \in Handles : of[h].isFree <=> op[h] = NoName
    /\ \A h \in Handles : op[h] # NoName => Attached(op[h], of[h], r, C)
    /\ \A g, h \in Handles : op[g] = op[h] /\ op[h] # NoName => g = h
    /\ \A h \in Handles : DirtyInList(of[h])

\* When NUM_OPEN_FILES handles are in use, all are.
LEMMA InUseFinite ==
    /\ IsFiniteSet(Handles) /\ Cardinality(Handles) = NUM_OPEN_FILES
    /\ \A of : /\ IsFiniteSet(InUse(of)) /\ Cardinality(InUse(of)) \in Nat
               /\ Cardinality(InUse(of)) <= NUM_OPEN_FILES
               /\ Cardinality(InUse(of)) = NUM_OPEN_FILES => InUse(of) = Handles
<1>1. 0 \in Int /\ NUM_OPEN_FILES \in Nat /\ NUM_OPEN_FILES - 1 \in Int
    BY OnDiskFSAssumption, TransferAssumption
<1>2. IsFiniteSet(Handles) /\ Cardinality(Handles) = NUM_OPEN_FILES
    <2>1. /\ IsFiniteSet(0..(NUM_OPEN_FILES - 1))
          /\ Cardinality(0..(NUM_OPEN_FILES - 1)) =
                IF 0 > NUM_OPEN_FILES - 1 THEN 0 ELSE NUM_OPEN_FILES - 1 - 0 + 1
        BY <1>1, FS_Interval
    <2>2. QED BY <1>1, <2>1 DEF Handles
<1>3. ASSUME NEW of
      PROVE  /\ IsFiniteSet(InUse(of)) /\ Cardinality(InUse(of)) \in Nat
             /\ Cardinality(InUse(of)) <= NUM_OPEN_FILES
             /\ Cardinality(InUse(of)) = NUM_OPEN_FILES => InUse(of) = Handles
    <2>1. InUse(of) \in SUBSET Handles
        BY DEF InUse
    <2>2. QED BY <1>2, <2>1, FS_Subset, FS_CardinalityType
<1>4. QED BY <1>2, <1>3

\* While a handle is free, the search finds one.
LEMMA GenerateFilehandle ==
    ASSUME openFileCount = Cardinality(InUse(openFiles)), openFileCount < NUM_OPEN_FILES
    PROVE  generateFilehandle \in Handles /\ openFiles[generateFilehandle].isFree
<1> DEFINE T == {h \in Handles : openFiles[h].isFree}
<1>1. T # {}
    <2>1. SUFFICES ASSUME T = {} PROVE FALSE
        OBVIOUS
    <2>2. InUse(openFiles) = Handles
        BY <2>1 DEF InUse
    <2>3. QED BY <2>2, InUseFinite, OnDiskFSAssumption, TransferAssumption
<1>2. T \subseteq Nat
    BY OnDiskFSAssumption, TransferAssumption DEF Handles
<1>3. PICK m \in T : \A k \in T : m <= k
    <2> HIDE DEF T
    <2>1. QED BY <1>1, <1>2, LeastNat
<1>4. m \in Handles /\ openFiles[m].isFree /\ \A g \in 0..(m - 1) : ~openFiles[g].isFree
    <2>1. \A g \in 0..(m - 1) : g \in Handles /\ ~(m <= g)
        BY <1>2, OnDiskFSAssumption, TransferAssumption DEF Handles
    <2>2. QED BY <1>3, <2>1
<1>5. QED BY <1>4 DEF generateFilehandle

-----------------------------------------------------------------------------
(* Steps that leave the handles alone, and steps on one handle.            *)

\* The files that are open keep their entries, names and chains.
OpenKept(op, r, C, r2, C2) ==
    \A i \in Entries :
        (\E h \in Handles : op[h] # NoName /\ op[h] = r[i].name)
        => r2[i].name = r[i].name /\ C2[i] = C[i]

\* A step on the directory that keeps the files that are open keeps the
\* handles right.
LEMMA HandlesKeep ==
    ASSUME NEW of, NEW n, NEW op, NEW r, NEW C, HandlesOK(of, n, op, r, C),
           NEW r2, NEW C2, OpenKept(op, r, C, r2, C2)
    PROVE  HandlesOK(of, n, op, r2, C2)
<1>1. ASSUME NEW h \in Handles, op[h] # NoName PROVE Attached(op[h], of[h], r2, C2)
    <2>1. PICK i \in Entries : r[i].name = op[h] /\ of[h].blockList = C[i]
        BY <1>1 DEF HandlesOK, Attached
    <2>2. r2[i].name = r[i].name /\ C2[i] = C[i]
        BY <1>1, <2>1 DEF OpenKept
    <2>3. QED BY <2>1, <2>2 DEF Attached
<1>2. QED BY <1>1 DEF HandlesOK

\* Handle h goes on with another record, and its file with another chain.
LEMMA OneHandle ==
    ASSUME NEW of, NEW n, NEW op, NEW r, NEW C, HandlesOK(of, n, op, r, C),
           C \in [Entries -> BlockLists],
           NEW h \in Handles, op[h] # NoName,
           NEW i \in Entries, r[i].name = op[h],
           NEW file \in OpenFile, ~file.isFree, DirtyInList(file),
           NEW r2, EntriesKept(r, r2, i), r2[i].name = r[i].name,
           NEW of2, of2 = [of EXCEPT ![h] = file]
    PROVE  HandlesOK(of2, n, op, r2, With(C, i, file.blockList))
<1> DEFINE D == With(C, i, file.blockList)
<1>1. /\ of2 \in [Handles -> OpenFile] /\ of2[h] = file
      /\ \A g \in Handles \ {h} : of2[g] = of[g]
    BY DEF HandlesOK
<1>2. D[i] = file.blockList /\ \A j \in Entries \ {i} : D[j] = C[j]
    BY WithFacts
<1> HIDE DEF D
<1>3. \A g \in Handles : of2[g].isFree <=> of[g].isFree
    BY <1>1 DEF HandlesOK
<1>4. InUse(of2) = InUse(of)
    BY <1>3 DEF InUse
<1>5. ASSUME NEW g \in Handles, op[g] # NoName PROVE Attached(op[g], of2[g], r2, D)
    <2>1. CASE g = h
        BY <1>1, <1>2, <2>1 DEF Attached
    <2>2. CASE g # h
        <3>1. PICK j \in Entries : r[j].name = op[g] /\ of[g].blockList = C[j]
            BY <1>5 DEF HandlesOK, Attached
        <3>2. op[g] # op[h]
            BY <1>5, <2>2 DEF HandlesOK
        <3>3. j # i /\ r2[j] = r[j] /\ D[j] = C[j]
            BY <1>2, <3>1, <3>2 DEF EntriesKept
        <3>4. QED BY <1>1, <2>2, <3>1, <3>3 DEF Attached
    <2>3. QED BY <2>1, <2>2
<1>6. \A g \in Handles : DirtyInList(of2[g])
    BY <1>1 DEF HandlesOK
<1>7. HandlesOK(of2, n, op, r2, D)
    BY <1>1, <1>3, <1>4, <1>5, <1>6 DEF HandlesOK
<1>8. QED BY <1>7 DEF D

\* The same without a change of the metadata.
LEMMA OneHandleOnly ==
    ASSUME NEW of, NEW n, NEW op, NEW r, NEW C, HandlesOK(of, n, op, r, C),
           C \in [Entries -> BlockLists],
           NEW h \in Handles, op[h] # NoName,
           NEW file \in OpenFile, ~file.isFree, DirtyInList(file),
           file.blockList = of[h].blockList,
           NEW of2, of2 = [of EXCEPT ![h] = file]
    PROVE  HandlesOK(of2, n, op, r, C)
<1>1. PICK i \in Entries : r[i].name = op[h] /\ of[h].blockList = C[i]
    BY DEF HandlesOK, Attached
<1>2. HandlesOK(of2, n, op, r, With(C, i, file.blockList))
    <2>1. EntriesKept(r, r, i)
        BY DEF EntriesKept
    <2>2. QED BY <1>1, <2>1, OneHandle
<1>3. With(C, i, file.blockList) = C
    BY <1>1 DEF With
<1>4. QED BY <1>2, <1>3

\* No block of the metadata differs in the containers dk and dk2.
Untouched(dk, dk2) == \A b \in Blocks : b < DATA_START => dk2[b] = dk[b]

\* An operation that writes to data blocks only leaves the metadata alone.
LEMMA DataOnly ==
    ASSUME NEW S, S \subseteq DataBlocks, NEW c, NEW d, WritesOnly(S, c, d)
    PROVE  Untouched(c.disk, d.disk)
<1>1. \A b \in Blocks : b < DATA_START => b \notin S
    BY DmapAssumption DEF DataBlocks, Blocks
<1>2. QED BY <1>1 DEF WritesOnly, Untouched

\* What a handle lists is data, and so is what waits in its cache.
LEMMA ListedData ==
    ASSUME NEW f, NEW t, NEW r, Metadata(f, t, r), NEW of, NEW n, NEW op,
           HandlesOK(of, n, op, r, Chains(t, r)), NEW h \in Handles, ~of[h].isFree
    PROVE  /\ SetOfBlocks(of[h].blockList) \subseteq DataBlocks
           /\ of[h].dirty => of[h].blockNo \in DataBlocks
<1>1. PICK i \in Entries : of[h].blockList = Chains(t, r)[i]
    BY DEF HandlesOK, Attached
<1>2. SetOfBlocks(of[h].blockList) \subseteq DataBlocks
    BY <1>1, ChainFacts
<1>3. QED BY <1>2 DEF HandlesOK, DirtyInList

-----------------------------------------------------------------------------
(* The blocks as a reader sees them, in the caches or in the container.    *)

Waiting(of, b) == {h \in Handles : of[h].dirty /\ of[h].blockNo = b}

AnyOf(T) == CHOOSE h \in T : TRUE

\* CurrentBlock, of the handles `of` and the container dk.
SeenAs(of, dk, b) ==
    IF Waiting(of, b) = {} THEN dk[b] ELSE of[AnyOf(Waiting(of, b))].buffer

\* No block out of S looks different.
Alike(S, of, dk, of2, dk2) ==
    \A b \in Blocks \ S : SeenAs(of2, dk2, b) = SeenAs(of, dk, b)

\* One handle goes on with another cache, for blocks in S before and after, and
\* nothing else was written: the blocks out of S look the same.
LEMMA OneHandleAlike ==
    ASSUME NEW of \in [Handles -> OpenFile], NEW h \in Handles, NEW file \in OpenFile,
           NEW S, of[h].dirty => of[h].blockNo \in S, file.dirty => file.blockNo \in S,
           NEW dk, NEW dk2, \A b \in Blocks \ S : dk2[b] = dk[b],
           NEW of2, of2 = [of EXCEPT ![h] = file]
    PROVE  Alike(S, of, dk, of2, dk2)
<1> SUFFICES ASSUME NEW b \in Blocks \ S PROVE SeenAs(of2, dk2, b) = SeenAs(of, dk, b)
    BY DEF Alike
<1>1. of2[h] = file /\ \A g \in Handles \ {h} : of2[g] = of[g]
    OBVIOUS
<1>2. h \notin Waiting(of, b) /\ h \notin Waiting(of2, b)
    BY <1>1 DEF Waiting
<1>3. Waiting(of2, b) = Waiting(of, b)
    BY <1>1, <1>2 DEF Waiting
<1>4. CASE Waiting(of, b) = {}
    BY <1>3, <1>4 DEF SeenAs
<1>5. CASE Waiting(of, b) # {}
    <2> DEFINE g == AnyOf(Waiting(of, b))
    <2>1. g \in Waiting(of, b)
        BY <1>5 DEF AnyOf
    <2>2. g \in Handles \ {h}
        BY <1>2, <2>1 DEF Waiting
    <2> HIDE DEF g
    <2>3. of2[g] = of[g]
        BY <1>1, <2>2
    <2>4. SeenAs(of, dk, b) = of[g].buffer
        BY <1>5 DEF SeenAs, g
    <2>5. AnyOf(Waiting(of2, b)) = g /\ Waiting(of2, b) # {}
        BY <1>3, <1>5 DEF g
    <2>6. SeenAs(of2, dk2, b) = of2[g].buffer
        BY <2>5 DEF SeenAs
    <2>7. QED BY <2>3, <2>4, <2>6
<1>6. QED BY <1>4, <1>5

\* A step after which everything looks the same adds nothing.
LEMMA AlikeAfter ==
    ASSUME NEW S, NEW of, NEW dk, NEW of1, NEW dk1, Alike(S, of, dk, of1, dk1),
           NEW of2, NEW dk2, Alike({}, of1, dk1, of2, dk2)
    PROVE  Alike(S, of, dk, of2, dk2)
BY DEF Alike

\* A block waits in one cache at most: two files never share it, and no file is
\* open twice.
LEMMA WaitsOnce ==
    ASSUME NEW f, NEW t, NEW r, Metadata(f, t, r), NEW of, NEW n, NEW op,
           HandlesOK(of, n, op, r, Chains(t, r)), NEW b,
           NEW g \in Waiting(of, b), NEW h \in Waiting(of, b)
    PROVE  g = h /\ ~of[h].isFree
<1>1. \A k \in Waiting(of, b) :
          /\ k \in Handles /\ ~of[k].isFree /\ op[k] # NoName
          /\ \E i \in Entries : r[i].name = op[k] /\ b \in SetOfBlocks(Chains(t, r)[i])
    BY DEF Waiting, HandlesOK, DirtyInList, Attached
<1>2. PICK i \in Entries : r[i].name = op[g] /\ b \in SetOfBlocks(Chains(t, r)[i])
    BY <1>1
<1>3. PICK j \in Entries : r[j].name = op[h] /\ b \in SetOfBlocks(Chains(t, r)[j])
    BY <1>1
<1>4. i = j
    BY <1>2, <1>3 DEF Metadata, Layout
<1>5. g \in Handles /\ h \in Handles /\ op[g] = op[h] /\ op[h] # NoName /\ ~of[h].isFree
    BY <1>1, <1>2, <1>3, <1>4
<1>6. QED BY <1>5 DEF HandlesOK

\* A handle goes on with a clean cache, what waited in it being written: no
\* block looks different.
LEMMA CleanAlike ==
    ASSUME NEW f, NEW t, NEW r, Metadata(f, t, r), NEW of, NEW n, NEW op,
           HandlesOK(of, n, op, r, Chains(t, r)), NEW h \in Handles,
           NEW dk \in Disks, NEW file \in OpenFile, ~file.dirty,
           NEW dk2, dk2 = flushCache([file |-> of[h], disk |-> dk]).disk,
           NEW of2, of2 = [of EXCEPT ![h] = file]
    PROVE  Alike({}, of, dk, of2, dk2)
<1>1. /\ of2[h] = file /\ \A g \in Handles \ {h} : of2[g] = of[g]
    BY DEF HandlesOK
<1>2. dk2 = IF of[h].dirty THEN [dk EXCEPT ![of[h].blockNo] = of[h].buffer] ELSE dk
    BY DEF flushCache
<1> SUFFICES ASSUME NEW b \in Blocks PROVE SeenAs(of2, dk2, b) = SeenAs(of, dk, b)
    BY DEF Alike
<1>3. CASE h \in Waiting(of, b)
    <2>1. Waiting(of, b) = {h}
        BY <1>3, WaitsOnce DEF Waiting
    <2>2. AnyOf(Waiting(of, b)) = h
        BY <2>1 DEF AnyOf
    <2>3. SeenAs(of, dk, b) = of[h].buffer
        BY <2>1, <2>2 DEF SeenAs
    <2>4. Waiting(of2, b) = {}
        BY <1>1, <2>1 DEF Waiting
    <2>5. dk2[b] = of[h].buffer
        BY <1>2, <1>3 DEF Waiting, Disks
    <2>6. QED BY <2>3, <2>4, <2>5 DEF SeenAs
<1>4. CASE h \notin Waiting(of, b)
    <2>1. Waiting(of2, b) = Waiting(of, b)
        BY <1>1, <1>4 DEF Waiting
    <2>2. dk2[b] = dk[b]
        BY <1>2, <1>4 DEF Waiting, Disks
    <2>3. CASE Waiting(of, b) = {}
        BY <2>1, <2>2, <2>3 DEF SeenAs
    <2>4. CASE Waiting(of, b) # {}
        <3>1. AnyOf(Waiting(of, b)) \in Waiting(of, b)
            BY <2>4 DEF AnyOf
        <3>2. AnyOf(Waiting(of, b)) \in Handles \ {h}
            BY <1>4, <3>1 DEF Waiting
        <3>3. of2[AnyOf(Waiting(of, b))] = of[AnyOf(Waiting(of, b))]
            BY <1>1, <3>2
        <3>4. SeenAs(of2, dk2, b) = of2[AnyOf(Waiting(of, b))].buffer
            BY <2>1, <2>4 DEF SeenAs
        <3>5. SeenAs(of, dk, b) = of[AnyOf(Waiting(of, b))].buffer
            BY <2>4 DEF SeenAs
        <3>6. QED BY <3>3, <3>4, <3>5
    <2>5. QED BY <2>3, <2>4
<1>5. QED BY <1>3, <1>4

-----------------------------------------------------------------------------
(* syncToDisk.                                                             *)

Images == [flags : [Blocks -> BOOLEAN], table : [Blocks -> Links],
           root : [Entries -> Files]]

\* Every handle is what it was, but its block may no longer be waiting.
Synced(files, of) ==
    /\ of \in [Handles -> OpenFile]
    /\ \A h \in Handles :
          /\ of[h].isFree = files[h].isFree /\ of[h].blockList = files[h].blockList
          /\ of[h].blockNo = files[h].blockNo
          /\ of[h].dirty => files[h].dirty

\* Flushing caches keeps the handles right.
LEMMA SyncedHandles ==
    ASSUME NEW of, NEW n, NEW op, NEW r, NEW C, HandlesOK(of, n, op, r, C),
           NEW of2, Synced(of, of2)
    PROVE  HandlesOK(of2, n, op, r, C)
<1>1. InUse(of2) = InUse(of)
    BY DEF InUse, Synced
<1>2. ASSUME NEW h \in Handles, op[h] # NoName PROVE Attached(op[h], of2[h], r, C)
    BY <1>2 DEF HandlesOK, Synced, Attached
<1>3. ASSUME NEW h \in Handles PROVE DirtyInList(of2[h])
    BY DEF HandlesOK, Synced, DirtyInList
<1>4. QED BY <1>1, <1>2, <1>3 DEF HandlesOK, Synced

\* syncToDisk changes nothing of a handle but that its block no longer waits,
\* whether it writes or is skipped, and writes to no block but those.
LEMMA SyncKeeps ==
    ASSUME NEW files \in [Handles -> OpenFile], NEW dk \in Disks,
           idle \in 0..SYNC_INTERVAL, image \in Images,
           flags' \in [Blocks -> BOOLEAN], table' \in [Blocks -> Links],
           root' \in [Entries -> Files], SyncToDisk(files, dk)
    PROVE  /\ Synced(files, openFiles') /\ disk' \in Disks
           /\ image' \in Images /\ idle' \in 0..SYNC_INTERVAL
           /\ \A b \in Blocks : \/ disk'[b] = dk[b]
                               \/ \E h \in Handles : /\ ~files[h].isFree /\ files[h].dirty
                                                   /\ files[h].blockNo = b
<1>1. SYNC_INTERVAL \in Nat /\ idle \in Nat
    BY OnDiskFSAssumption, TransferAssumption
<1>2. idle' \in 0..SYNC_INTERVAL
    BY <1>1 DEF SyncToDisk
<1>3. CASE idle < SYNC_INTERVAL
    <2>1. openFiles' = files /\ disk' = dk /\ image' = image
        BY <1>1, <1>3 DEF SyncToDisk
    <2>2. QED BY <1>2, <2>1 DEF Synced
<1>4. CASE ~(idle < SYNC_INTERVAL)
    <2> DEFINE Flushed(b) == {h \in Handles :
                   ~files[h].isFree /\ files[h].dirty /\ files[h].blockNo = b}
               Highest(b) == CHOOSE h \in Flushed(b) : \A g \in Flushed(b) : g <= h
               clean(h) == [files[h] EXCEPT !.dirty = files[h].isFree /\ files[h].dirty]
    <2>1. /\ openFiles' = [h \in Handles |-> clean(h)]
          /\ disk' = [b \in Blocks |-> IF Flushed(b) = {} THEN dk[b]
                                       ELSE files[Highest(b)].buffer]
          /\ image' = [flags |-> flags', table |-> table', root |-> root']
        BY <1>1, <1>4 DEF SyncToDisk
    <2>2. image' \in Images
        BY <2>1 DEF Images
    <2>3. Synced(files, openFiles')
        <3>1. ASSUME NEW h \in Handles
              PROVE  /\ clean(h) \in OpenFile /\ clean(h).isFree = files[h].isFree
                     /\ clean(h).blockList = files[h].blockList
                     /\ clean(h).blockNo = files[h].blockNo
                     /\ clean(h).dirty => files[h].dirty
            <4>1. files[h] \in OpenFile
                OBVIOUS
            <4>2. (files[h].isFree /\ files[h].dirty) \in BOOLEAN
                OBVIOUS
            <4>3. QED BY <4>1, <4>2 DEF OpenFile
        <3> HIDE DEF clean
        <3>2. QED BY <2>1, <3>1 DEF Synced
    <2>4. disk' \in Disks
        <3>1. ASSUME NEW b \in Blocks, Flushed(b) # {}
              PROVE  files[Highest(b)].buffer \in BlockData
            <4> DEFINE T == {k \in Nat : \E h \in Flushed(b) : k = NUM_OPEN_FILES - h}
            <4>1. \A h \in Flushed(b) : h \in Nat /\ NUM_OPEN_FILES - h \in Nat
                BY OnDiskFSAssumption, TransferAssumption DEF Handles
            <4>2. T \subseteq Nat /\ T # {}
                BY <3>1, <4>1
            <4>3. PICK m \in T : \A k \in T : m <= k
                <5> HIDE DEF T
                <5>1. QED BY <4>2, LeastNat
            <4>4. PICK h \in Flushed(b) : m = NUM_OPEN_FILES - h
                BY <4>3
            <4>5. ASSUME NEW g \in Flushed(b) PROVE g <= h
                <5>1. NUM_OPEN_FILES - g \in T
                    BY <4>1
                <5>2. m <= NUM_OPEN_FILES - g
                    BY <4>3, <5>1
                <5> HIDE DEF Flushed, T
                <5>3. g \in Nat /\ h \in Nat
                    BY <4>1
                <5>4. QED BY <4>4, <5>2, <5>3, OnDiskFSAssumption, TransferAssumption
            <4>6. Highest(b) \in Flushed(b)
                <5> HIDE DEF Flushed
                <5>1. QED BY <4>5
            <4>7. Highest(b) \in Handles
                BY <4>6
            <4> HIDE DEF Highest
            <4>8. QED BY <4>7 DEF OpenFile
        <3> HIDE DEF Highest, Flushed
        <3>2. \A b \in Blocks : dk[b] \in BlockData
            BY DEF Disks
        <3>3. QED BY <2>1, <3>1, <3>2 DEF Disks
    <2>5. ASSUME NEW b \in Blocks
          PROVE  \/ disk'[b] = dk[b]
                 \/ \E h \in Handles : /\ ~files[h].isFree /\ files[h].dirty
                                     /\ files[h].blockNo = b
        <3>1. CASE Flushed(b) = {}
            <4> HIDE DEF Highest, Flushed
            <4>1. QED BY <2>1, <3>1
        <3>2. CASE Flushed(b) # {}
            BY <3>2
        <3>3. QED BY <3>1, <3>2
    <2>6. QED BY <1>2, <2>2, <2>3, <2>4, <2>5
<1>5. QED BY <1>3, <1>4

\* A flush puts each block where a reader saw it before.
LEMMA SyncAlike ==
    ASSUME NEW f, NEW t, NEW r, Metadata(f, t, r), NEW files, NEW n, NEW op,
           HandlesOK(files, n, op, r, Chains(t, r)),
           idle \in 0..SYNC_INTERVAL, NEW dk, SyncToDisk(files, dk)
    PROVE  Alike({}, files, dk, openFiles', disk')
<1> DEFINE Flushed(b) == {h \in Handles :
               ~files[h].isFree /\ files[h].dirty /\ files[h].blockNo = b}
           Highest(b) == CHOOSE h \in Flushed(b) : \A g \in Flushed(b) : g <= h
           clean(h) == [files[h] EXCEPT !.dirty = files[h].isFree /\ files[h].dirty]
<1>1. CASE idle < SYNC_INTERVAL
    <2>1. openFiles' = files /\ disk' = dk
        BY <1>1, OnDiskFSAssumption, TransferAssumption DEF SyncToDisk
    <2>2. QED BY <2>1 DEF Alike
<1>2. CASE ~(idle < SYNC_INTERVAL)
    <2>1. /\ openFiles' = [h \in Handles |-> clean(h)]
          /\ disk' = [b \in Blocks |-> IF Flushed(b) = {} THEN dk[b]
                                       ELSE files[Highest(b)].buffer]
        BY <1>2, OnDiskFSAssumption, TransferAssumption DEF SyncToDisk
    <2> SUFFICES ASSUME NEW b \in Blocks
                 PROVE  SeenAs(openFiles', disk', b) = SeenAs(files, dk, b)
        BY DEF Alike
    <2>2. Flushed(b) = Waiting(files, b)
        BY WaitsOnce DEF Waiting
    <2>3. Waiting(openFiles', b) = {}
        <3>1. ASSUME NEW h \in Handles PROVE ~clean(h).dirty
            <4>1. files[h] \in OpenFile /\ ~(files[h].isFree /\ files[h].dirty)
                BY DEF HandlesOK, DirtyInList
            <4>2. "dirty" \in DOMAIN files[h]
                BY <4>1 DEF OpenFile
            <4>3. QED BY <4>1, <4>2
        <3> HIDE DEF clean
        <3>2. QED BY <2>1, <3>1 DEF Waiting
    <2>4. CASE Waiting(files, b) = {}
        <3> HIDE DEF Flushed, Highest, clean
        <3>1. QED BY <2>1, <2>2, <2>3, <2>4 DEF SeenAs
    <2>5. CASE Waiting(files, b) # {}
        <3>1. PICK h \in Waiting(files, b) : TRUE
            BY <2>5
        <3>2. Waiting(files, b) = {h} /\ h \in Handles
            BY <3>1, WaitsOnce DEF Waiting
        <3>3. AnyOf(Waiting(files, b)) = h
            BY <3>2 DEF AnyOf
        <3>4. Highest(b) = h
            <4>1. h \in Int
                BY <3>2, OnDiskFSAssumption, TransferAssumption DEF Handles
            <4> HIDE DEF Flushed
            <4>2. QED BY <2>2, <3>2, <4>1
        <3> HIDE DEF Flushed, Highest, clean
        <3>5. QED BY <2>1, <2>2, <2>3, <2>5, <3>3, <3>4 DEF SeenAs
    <2>6. QED BY <2>4, <2>5
<1>3. QED BY <1>1, <1>2
=============================================================================
