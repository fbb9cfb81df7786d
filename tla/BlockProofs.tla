----------------------------- MODULE BlockProofs -----------------------------
(***************************************************************************)
(* The bitmap and the table, for every container size and every content of *)
(* both: what the search for free blocks returns, wherever the cursor is;  *)
(* that there is one chain at most from a block, and what appending,       *)
(* linking and truncating make of it.                                      *)
(***************************************************************************)
EXTENDS Fat, FiniteSetTheorems, WellFoundedInduction, TLAPS

SmallerNat == {ss \in Nat \X Nat : ss[1] < ss[2]}

\* A non-empty set of natural numbers has a least element: the induction of
\* the proofs below is by least counterexample.
LEMMA LeastNat ==
    ASSUME NEW T, T \subseteq Nat, T # {}
    PROVE  \E m \in T : \A k \in T : m <= k
<1>1. IsWellFoundedOn(SmallerNat, Nat)
    BY NatLessThanWellFounded, Zenon DEF OpToRel, SmallerNat
<1>2. PICK m \in T : \A k \in T : ~(<<k, m>> \in SmallerNat)
    BY <1>1, WFMin, Zenon
<1>3. ASSUME NEW k \in T PROVE m <= k
    <2>1. m \in Nat /\ k \in Nat /\ <<k, m>> \in Nat \X Nat
        OBVIOUS
    <2>2. ~(k < m)
        BY <1>2, <2>1 DEF SmallerNat
    <2>3. QED BY <2>1, <2>2
<1>4. QED BY <1>3

\* The numbers up to n, counted.
LEMMA UpTo ==
    ASSUME NEW n \in Nat
    PROVE  IsFiniteSet(1..n) /\ Cardinality(1..n) = n
<1>1. Cardinality(1..n) = IF 1 > n THEN 0 ELSE n - 1 + 1
    BY FS_Interval
<1>2. QED BY <1>1, FS_Interval

\* The bitmap has finitely many free blocks, and the search reaches each at a
\* position of its own.
LEMMA FreeBlocksFinite ==
    ASSUME NEW flags
    PROVE  /\ IsFiniteSet(FreeBlocks(flags))
           /\ Cardinality(FreeBlocks(flags)) \in Nat
<1>1. IsFiniteSet(Blocks)
    BY FS_Interval, DmapAssumption DEF Blocks
<1>2. FreeBlocks(flags) \in SUBSET Blocks
    BY DEF FreeBlocks
<1>3. QED BY <1>1, <1>2, FS_Subset, FS_CardinalityType

\* The search meets every block at a position of its own.
LEMMA ScanPositionNat ==
    ASSUME NEW nextBlock \in Blocks, NEW b \in Blocks, NEW c \in Blocks
    PROVE  /\ ScanPosition(nextBlock, b) \in Nat
           /\ ScanPosition(nextBlock, b) = ScanPosition(nextBlock, c) => b = c
BY DmapAssumption DEF ScanPosition, Blocks

\* A list in scan order of free blocks holds each of them once, and so many
\* as its length.
LEMMA ScanOrderInjective ==
    ASSUME NEW flags, NEW nextBlock \in Blocks, NEW n \in Nat,
           NEW s \in [1..n -> FreeBlocks(flags)],
           InScanOrder(flags, nextBlock, s)
    PROVE  \A i, j \in 1..n : s[i] = s[j] => i = j
<1>1. ASSUME NEW i \in 1..n, NEW j \in 1..n, i < j, s[i] = s[j] PROVE FALSE
    <2>1. s[i] \in {s[k] : k \in 1..(j - 1)}
        BY <1>1
    <2>2. s[i] \in {b \in FreeBlocks(flags) :
                      ScanPosition(nextBlock, b) < ScanPosition(nextBlock, s[j])}
        BY <2>1 DEF InScanOrder
    <2>3. s[j] \in Blocks
        BY DEF FreeBlocks
    <2>4. QED BY <1>1, <2>2, <2>3, ScanPositionNat
<1>2. QED BY <1>1

\* A search for n blocks that there are has a result.
LEMMA ScanExists ==
    ASSUME NEW flags, NEW nextBlock \in Blocks, NEW n \in Nat, CanFind(flags, n)
    PROVE  \E s \in [1..n -> FreeBlocks(flags)] : InScanOrder(flags, nextBlock, s)
<1> DEFINE Free == FreeBlocks(flags)
           Found(k) == \E s \in [1..k -> Free] : InScanOrder(flags, nextBlock, s)
           Missing == {k \in 0..n : ~Found(k)}
<1>1. SUFFICES ASSUME Missing # {} PROVE FALSE
    OBVIOUS
<1>2. PICK m \in Missing : \A k \in Missing : m <= k
    <2>1. Missing \subseteq Nat
        OBVIOUS
    <2>2. QED BY <1>1, <2>1, LeastNat, Zenon
<1>3. m # 0
    <2>1. [i \in 1..0 |-> 0] \in [1..0 -> Free]
        OBVIOUS
    <2>2. InScanOrder(flags, nextBlock, [i \in 1..0 |-> 0])
        BY DEF InScanOrder
    <2>3. Found(0)
        BY <2>1, <2>2
    <2>4. QED BY <1>2, <2>3
<1>4. m - 1 \in 0..n /\ m - 1 \notin Missing
    BY <1>2, <1>3
<1>5. PICK s \in [1..(m - 1) -> Free] : InScanOrder(flags, nextBlock, s)
    BY <1>4
<1> DEFINE Taken == {s[i] : i \in 1..(m - 1)}
           Rest == Free \ Taken
<1>6. Rest # {}
    <2>1. SUFFICES ASSUME Free \subseteq Taken PROVE FALSE
        OBVIOUS
    <2>2. \E f \in [Free -> 1..(m - 1)] : \A x \in Free : s[f[x]] = x
        <3>1. \A x \in Free : \E i \in 1..(m - 1) : s[i] = x
            BY <2>1
        <3>2. [x \in Free |-> CHOOSE i \in 1..(m - 1) : s[i] = x]
                \in [Free -> 1..(m - 1)]
            BY <3>1
        <3>3. QED BY <3>1, <3>2
    <2>3. PICK f \in [Free -> 1..(m - 1)] : \A x \in Free : s[f[x]] = x
        BY <2>2
    <2>4. IsFiniteSet(1..(m - 1)) /\ Cardinality(1..(m - 1)) = m - 1
        <3>1. m - 1 \in Int /\ 1 \in Int /\ m - 1 >= 0
            BY <1>4
        <3>2. Cardinality(1..(m - 1)) = IF 1 > m - 1 THEN 0 ELSE m - 1 - 1 + 1
            BY <3>1, FS_Interval
        <3>3. QED BY <3>1, <3>2, FS_Interval
    <2>5. Cardinality(1..(m - 1)) < Cardinality(Free)
        BY <1>2, <2>4, FreeBlocksFinite DEF CanFind, countFreeBlocks
    <2>6. \E x, y \in Free : x # y /\ f[x] = f[y]
        BY <2>4, <2>5, FreeBlocksFinite, FS_PigeonHole, Zenon
    <2>7. QED BY <2>3, <2>6
<1>7. PICK b \in Rest : \A c \in Rest : ScanPosition(nextBlock, b) <= ScanPosition(nextBlock, c)
    <2> DEFINE At == {ScanPosition(nextBlock, c) : c \in Rest}
    <2>1. \A c \in Rest : c \in Blocks
        BY DEF FreeBlocks
    <2>2. At \subseteq Nat /\ At # {}
        BY <1>6, <2>1, ScanPositionNat
    <2>3. PICK p \in At : \A q \in At : p <= q
        BY <2>2, LeastNat, Zenon
    <2>4. QED BY <2>3
<1> DEFINE t == [i \in 1..m |-> IF i = m THEN b ELSE s[i]]
<1>8. t \in [1..m -> Free]
    BY <1>2
<1>9. InScanOrder(flags, nextBlock, t)
    <2>1. SUFFICES ASSUME NEW i \in 1..m
                   PROVE  {c \in Free : ScanPosition(nextBlock, c) < ScanPosition(nextBlock, t[i])}
                          = {t[j] : j \in 1..(i - 1)}
        BY DEF InScanOrder
    <2>2. CASE i # m
        <3>1. i \in 1..(m - 1) /\ t[i] = s[i]
            BY <2>2, <1>2
        <3>2. \A j \in 1..(i - 1) : t[j] = s[j]
            BY <3>1, <1>2
        <3> HIDE DEF t
        <3>3. {t[j] : j \in 1..(i - 1)} = {s[j] : j \in 1..(i - 1)}
            BY <3>2
        <3>4. QED BY <3>1, <3>3, <1>5 DEF InScanOrder
    <2>3. CASE i = m
        <3>1. {t[j] : j \in 1..(i - 1)} = Taken
            <4>1. \A j \in 1..(m - 1) : t[j] = s[j]
                BY <1>2
            <4> HIDE DEF t
            <4>2. QED BY <2>3, <4>1
        <3>2. ASSUME NEW j \in 1..(m - 1)
              PROVE  ScanPosition(nextBlock, s[j]) < ScanPosition(nextBlock, b)
            <4>1. s[j] \in Blocks /\ b \in Blocks /\ s[j] # b
                BY DEF FreeBlocks
            <4>2. b \notin {s[k] : k \in 1..(j - 1)}
                BY <1>2
            <4>3. ~(ScanPosition(nextBlock, b) < ScanPosition(nextBlock, s[j]))
                BY <4>2, <1>5 DEF InScanOrder
            <4>4. QED BY <4>1, <4>3, ScanPositionNat
        <3>3. ASSUME NEW c \in Free, ScanPosition(nextBlock, c) < ScanPosition(nextBlock, b)
              PROVE  c \in Taken
            <4>1. c \in Blocks /\ b \in Blocks
                BY DEF FreeBlocks
            <4>2. QED BY <3>3, <4>1, <1>7, ScanPositionNat
        <3>4. t[i] = b
            BY <2>3
        <3>5. Taken \subseteq Free
            BY <1>5
        <3>6. QED BY <3>1, <3>2, <3>3, <3>4, <3>5
    <2>4. QED BY <2>2, <2>3
<1>10. QED BY <1>2, <1>8, <1>9

\* findNFreeBlocks returns n different free blocks whenever there are n: the
\* two loops of Dmap.cpp never hand out a block that is in use, or one twice.
THEOREM FindNFreeBlocks ==
    ASSUME NEW flags, NEW nextBlock \in Blocks, NEW n \in Nat, CanFind(flags, n)
    PROVE  LET s == findNFreeBlocks(flags, nextBlock, n)
           IN  /\ s \in [1..n -> FreeBlocks(flags)]
               /\ \A i, j \in 1..n : s[i] = s[j] => i = j
<1> DEFINE s == findNFreeBlocks(flags, nextBlock, n)
<1>1. s \in [1..n -> FreeBlocks(flags)] /\ InScanOrder(flags, nextBlock, s)
    BY ScanExists DEF findNFreeBlocks
<1>2. QED BY <1>1, ScanOrderInjective

\* Two results of a search for the same number of blocks are the same.
LEMMA ScanUnique ==
    ASSUME NEW flags, NEW nextBlock \in Blocks, NEW n \in Nat,
           NEW s \in [1..n -> FreeBlocks(flags)], InScanOrder(flags, nextBlock, s),
           NEW t \in [1..n -> FreeBlocks(flags)], InScanOrder(flags, nextBlock, t)
    PROVE  s = t
<1> DEFINE Differ == {k \in 1..n : s[k] # t[k]}
           Before(b) == {c \in FreeBlocks(flags) :
                           ScanPosition(nextBlock, c) < ScanPosition(nextBlock, b)}
<1>1. SUFFICES ASSUME Differ # {} PROVE FALSE
    OBVIOUS
<1>2. PICK m \in Differ : \A k \in Differ : m <= k
    <2>1. Differ \subseteq Nat
        OBVIOUS
    <2>2. QED BY <1>1, <2>1, LeastNat, Zenon
<1>3. {s[j] : j \in 1..(m - 1)} = {t[j] : j \in 1..(m - 1)}
    <2>1. \A j \in 1..(m - 1) : s[j] = t[j]
        BY <1>2
    <2>2. QED BY <2>1
<1>4. Before(s[m]) = Before(t[m])
    BY <1>2, <1>3 DEF InScanOrder
<1>5. s[m] \in FreeBlocks(flags) /\ t[m] \in FreeBlocks(flags) /\ s[m] # t[m]
    BY <1>2
<1>6. s[m] \in Blocks /\ t[m] \in Blocks
    BY <1>5 DEF FreeBlocks
<1>7. s[m] \notin Before(s[m]) /\ t[m] \notin Before(t[m])
    BY <1>6, ScanPositionNat
<1>8. QED BY <1>4, <1>5, <1>6, <1>7, ScanPositionNat

\* What the loops of a search have found when they have looked at the blocks
\* at the first p positions: the free ones among them, in the order of the
\* search.
FoundBefore(flags, nextBlock, p, s) ==
    /\ s \in Seq(FreeBlocks(flags))
    /\ InScanOrder(flags, nextBlock, s)
    /\ {b \in FreeBlocks(flags) : ScanPosition(nextBlock, b) < p} = {s[i] : i \in DOMAIN s}

\* A search for no block finds none.
LEMMA FoundNothing ==
    ASSUME NEW flags, NEW nextBlock \in Blocks
    PROVE  FoundBefore(flags, nextBlock, 0, <<>>)
<1>1. <<>> \in Seq(FreeBlocks(flags)) /\ DOMAIN <<>> = {}
    OBVIOUS
<1>2. \A b \in FreeBlocks(flags) : ScanPosition(nextBlock, b) \in Nat
    BY ScanPositionNat DEF FreeBlocks
<1>3. QED BY <1>1, <1>2 DEF FoundBefore, InScanOrder

\* One turn of a loop, at the block at position p.
LEMMA FoundNext ==
    ASSUME NEW flags, NEW nextBlock \in Blocks, NEW p \in Nat, NEW s,
           FoundBefore(flags, nextBlock, p, s),
           NEW b \in Blocks, ScanPosition(nextBlock, b) = p
    PROVE  FoundBefore(flags, nextBlock, p + 1, IF flags[b] THEN s ELSE Append(s, b))
<1> DEFINE Free == FreeBlocks(flags)
           At(c) == ScanPosition(nextBlock, c)
           t == Append(s, b)
<1>1. \A c \in Free : c \in Blocks /\ At(c) \in Nat /\ (At(c) = p <=> c = b)
    BY ScanPositionNat DEF FreeBlocks
<1>2. \A c \in Free : At(c) < p + 1 <=> At(c) < p \/ c = b
    BY <1>1
<1>3. CASE flags[b]
    <2>1. b \notin Free
        BY <1>3 DEF FreeBlocks
    <2>2. \A c \in Free : At(c) < p + 1 <=> At(c) < p
        BY <1>2, <2>1
    <2>3. QED BY <1>3, <2>2 DEF FoundBefore
<1>4. CASE ~flags[b]
    <2>1. b \in Free
        BY <1>4 DEF FreeBlocks
    <2>2. s \in Seq(Free) /\ Len(s) \in Nat /\ DOMAIN s = 1..Len(s)
        BY DEF FoundBefore
    <2>3. /\ t \in Seq(Free) /\ Len(t) = Len(s) + 1 /\ DOMAIN t = 1..(Len(s) + 1)
          /\ t[Len(s) + 1] = b /\ \A i \in 1..Len(s) : t[i] = s[i]
        BY <2>1, <2>2
    <2> HIDE DEF t
    <2>4. {c \in Free : At(c) < p} = {s[i] : i \in 1..Len(s)}
        BY <2>2 DEF FoundBefore
    <2>5. {t[i] : i \in 1..Len(s)} = {s[i] : i \in 1..Len(s)}
        BY <2>3
    <2>6. {c \in Free : At(c) < p + 1} = {t[i] : i \in DOMAIN t}
        <3>1. DOMAIN t = 1..Len(s) \cup {Len(s) + 1}
            BY <2>2, <2>3
        <3>2. {t[i] : i \in DOMAIN t} = {t[i] : i \in 1..Len(s)} \cup {b}
            BY <2>3, <3>1
        <3>3. {c \in Free : At(c) < p + 1} = {c \in Free : At(c) < p} \cup {b}
            BY <1>2, <2>1
        <3>4. QED BY <2>4, <2>5, <3>2, <3>3
    <2>7. ASSUME NEW i \in DOMAIN t
          PROVE  {c \in Free : At(c) < At(t[i])} = {t[j] : j \in 1..(i - 1)}
        <3>1. CASE i = Len(s) + 1
            <4>1. t[i] = b /\ i - 1 = Len(s)
                BY <2>2, <2>3, <3>1
            <4>2. QED BY <2>4, <2>5, <4>1
        <3>2. CASE i # Len(s) + 1
            <4>1. i \in 1..Len(s) /\ \A j \in 1..(i - 1) : j \in 1..Len(s)
                BY <2>2, <2>3, <3>2
            <4>2. t[i] = s[i] /\ \A j \in 1..(i - 1) : t[j] = s[j]
                BY <2>3, <4>1
            <4>3. {t[j] : j \in 1..(i - 1)} = {s[j] : j \in 1..(i - 1)}
                BY <4>2
            <4>4. QED BY <2>2, <4>1, <4>2, <4>3 DEF FoundBefore, InScanOrder
        <3>3. QED BY <3>1, <3>2
    <2>8. InScanOrder(flags, nextBlock, t)
        BY <2>7 DEF InScanOrder
    <2>9. FoundBefore(flags, nextBlock, p + 1, t)
        BY <2>3, <2>6, <2>8 DEF FoundBefore
    <2>10. QED BY <1>4, <2>9 DEF t
<1>5. QED BY <1>3, <1>4

\* What a search has found is what findNFreeBlocks returns for so many blocks.
LEMMA FoundIsReturned ==
    ASSUME NEW flags, NEW nextBlock \in Blocks,
           NEW s \in Seq(FreeBlocks(flags)), InScanOrder(flags, nextBlock, s)
    PROVE  CanFind(flags, Len(s)) /\ findNFreeBlocks(flags, nextBlock, Len(s)) = s
<1> DEFINE n == Len(s)
           Free == FreeBlocks(flags)
<1>1. n \in Nat /\ s \in [1..n -> Free]
    OBVIOUS
<1> HIDE DEF n
<1>2. \A i, j \in 1..n : s[i] = s[j] => i = j
    BY <1>1, ScanOrderInjective
<1>3. IsFiniteSet(1..n) /\ Cardinality(1..n) = n
    BY <1>1, UpTo
<1>4. n <= Cardinality(Free)
    <2>1. SUFFICES ASSUME Cardinality(Free) < n PROVE FALSE
        BY <1>1, FreeBlocksFinite
    <2>2. \E i, j \in 1..n : i # j /\ s[i] = s[j]
        BY <1>1, <1>3, <2>1, FreeBlocksFinite, FS_PigeonHole, Zenon
    <2>3. QED BY <1>2, <2>2
<1>5. CanFind(flags, n)
    BY <1>4 DEF CanFind, countFreeBlocks
<1>6. /\ findNFreeBlocks(flags, nextBlock, n) \in [1..n -> Free]
      /\ InScanOrder(flags, nextBlock, findNFreeBlocks(flags, nextBlock, n))
    BY <1>1 DEF findNFreeBlocks
<1>7. findNFreeBlocks(flags, nextBlock, n) = s
    BY <1>1, <1>6, ScanUnique
<1>8. QED BY <1>5, <1>7 DEF n

\* A search that has looked everywhere has found all the free blocks.
LEMMA FoundAll ==
    ASSUME NEW flags, NEW nextBlock \in Blocks, NEW s,
           FoundBefore(flags, nextBlock, CONTAINER_BLOCKS, s),
           NEW n \in Nat, Len(s) < n
    PROVE  ~CanFind(flags, n)
<1> DEFINE Free == FreeBlocks(flags)
<1>1. s \in Seq(Free) /\ Len(s) \in Nat /\ DOMAIN s = 1..Len(s)
    BY DEF FoundBefore
<1>2. \A b \in Free : ScanPosition(nextBlock, b) < CONTAINER_BLOCKS
    BY DmapAssumption DEF ScanPosition, Blocks, FreeBlocks
<1>3. Free = {s[i] : i \in 1..Len(s)}
    BY <1>1, <1>2 DEF FoundBefore
<1> HIDE DEF Free
<1>4. \E f \in [Free -> 1..Len(s)] : \A b \in Free : s[f[b]] = b
    <2>1. \A b \in Free : \E i \in 1..Len(s) : s[i] = b
        BY <1>3
    <2>2. [b \in Free |-> CHOOSE i \in 1..Len(s) : s[i] = b] \in [Free -> 1..Len(s)]
        BY <2>1
    <2>3. QED BY <2>1, <2>2
<1>5. PICK f \in [Free -> 1..Len(s)] : \A b \in Free : s[f[b]] = b
    BY <1>4
<1>6. IsFiniteSet(1..Len(s)) /\ Cardinality(1..Len(s)) = Len(s)
    BY <1>1, UpTo
<1>7. SUFFICES ASSUME CanFind(flags, n) PROVE FALSE
    OBVIOUS
<1>8. Cardinality(1..Len(s)) < Cardinality(Free) /\ IsFiniteSet(Free)
    BY <1>1, <1>6, <1>7, FreeBlocksFinite DEF CanFind, countFreeBlocks, Free
<1>9. \E x, y \in Free : x # y /\ f[x] = f[y]
    BY <1>6, <1>8, FS_PigeonHole, Zenon
<1>10. QED BY <1>5, <1>9

\* The cursor stays in the data area, where the next search begins.
THEOREM CursorInDataArea ==
    ASSUME NEW n \in Nat \ {0}, NEW s \in [1..n -> Blocks]
    PROVE  CursorAfter(s) \in DataBlocks
<1>1. Len(s) = n /\ s \in Seq(Blocks) /\ s[n] \in Blocks
    OBVIOUS
<1>2. ((s[n] + 1) % CONTAINER_BLOCKS) \in 0..(CONTAINER_BLOCKS - 1)
    BY <1>1, DmapAssumption DEF Blocks
<1>3. QED BY <1>1, <1>2, DmapAssumption DEF CursorAfter, DataBlocks

-----------------------------------------------------------------------------
(* Chains.                                                                 *)

\* Every block list is a sequence of different blocks.
LEMMA BlockListType ==
    ASSUME NEW s \in BlockLists
    PROVE  /\ s \in Seq(Blocks) /\ Len(s) \in Nat
           /\ s \in [1..Len(s) -> Blocks] /\ DOMAIN s = 1..Len(s)
           /\ \A i, j \in 1..Len(s) : s[i] = s[j] => i = j
           /\ SetOfBlocks(s) = {s[i] : i \in 1..Len(s)}
           /\ SetOfBlocks(s) \subseteq Blocks
<1>1. PICK n \in 0..CONTAINER_BLOCKS :
          s \in {q \in [1..n -> Blocks] : \A i, j \in 1..n : q[i] = q[j] => i = j}
    BY DEF BlockLists
<1>2. n \in Nat /\ s \in [1..n -> Blocks] /\ DOMAIN s = 1..n
    BY <1>1, DmapAssumption
<1>3. s \in Seq(Blocks) /\ Len(s) = n
    BY <1>2
<1>4. QED BY <1>1, <1>2, <1>3 DEF SetOfBlocks

\* A list without repetition is no longer than the container.
LEMMA BlockListLength ==
    ASSUME NEW s \in BlockLists
    PROVE  Len(s) <= CONTAINER_BLOCKS
<1>1. PICK n \in 0..CONTAINER_BLOCKS :
          s \in {q \in [1..n -> Blocks] : \A i, j \in 1..n : q[i] = q[j] => i = j}
    BY DEF BlockLists
<1>2. n \in Nat /\ s \in [1..n -> Blocks]
    BY <1>1, DmapAssumption
<1>3. Len(s) = n
    BY <1>2
<1>4. QED BY <1>1, <1>3, DmapAssumption

\* Conversely: so many different blocks fit in the container.
LEMMA BlockListIntro ==
    ASSUME NEW n \in Nat, NEW s \in [1..n -> Blocks],
           \A i, j \in 1..n : s[i] = s[j] => i = j
    PROVE  s \in BlockLists
<1>1. IsFiniteSet(Blocks) /\ Cardinality(Blocks) = CONTAINER_BLOCKS
    <2>1. 0 \in Int /\ CONTAINER_BLOCKS \in Int /\ CONTAINER_BLOCKS - 1 \in Int
          /\ CONTAINER_BLOCKS >= 1
        BY DmapAssumption
    <2>2. Cardinality(Blocks) = IF 0 > CONTAINER_BLOCKS - 1 THEN 0
                                ELSE CONTAINER_BLOCKS - 1 - 0 + 1
        BY <2>1, FS_Interval DEF Blocks
    <2>3. IsFiniteSet(Blocks)
        BY <2>1, FS_Interval DEF Blocks
    <2>4. QED BY <2>1, <2>2, <2>3
<1>2. n <= CONTAINER_BLOCKS
    <2>1. SUFFICES ASSUME CONTAINER_BLOCKS < n PROVE FALSE
        BY DmapAssumption
    <2>2. IsFiniteSet(1..n) /\ Cardinality(1..n) = n
        BY UpTo
    <2>3. \E x, y \in 1..n : x # y /\ s[x] = s[y]
        BY <1>1, <2>1, <2>2, FS_PigeonHole, Zenon
    <2>4. QED BY <2>3
<1>3. QED BY <1>2, DmapAssumption DEF BlockLists

\* END_OF_CLUSTER is no block number.
LEMMA EndIsNoBlock == END_OF_CLUSTER \notin Blocks /\ END_OF_CLUSTER \in Links
BY DmapAssumption, FatAssumption DEF END_OF_CLUSTER, Blocks, Links

\* BlockListsFrom sorts the block lists by the block a walk begins at.
LEMMA ListsFrom ==
    ASSUME NEW first \in Links, NEW s
    PROVE  s \in BlockListsFrom[first] <=>
               /\ s \in BlockLists
               /\ IF s = <<>> THEN first = END_OF_CLUSTER ELSE s[1] = first
BY DEF BlockListsFrom

\* The walk from a block is determined by the table.
LEMMA ChainUnique ==
    ASSUME NEW table, NEW first \in Links,
           NEW s \in BlockListsFrom[first], IsChain(table, s),
           NEW t \in BlockListsFrom[first], IsChain(table, t)
    PROVE  s = t
<1>1. s \in BlockLists /\ t \in BlockLists
    BY ListsFrom
<1>2. /\ Len(s) \in Nat /\ DOMAIN s = 1..Len(s) /\ s \in [1..Len(s) -> Blocks]
      /\ Len(t) \in Nat /\ DOMAIN t = 1..Len(t) /\ t \in [1..Len(t) -> Blocks]
      /\ s \in Seq(Blocks) /\ t \in Seq(Blocks)
    BY <1>1, BlockListType
<1>3. Len(s) = 0 <=> Len(t) = 0
    BY <1>2, ListsFrom, EndIsNoBlock
<1>4. ASSUME NEW i \in 1..Len(s), i <= Len(t) PROVE s[i] = t[i]
    <2> DEFINE Differ == {k \in 1..Len(s) : k <= Len(t) /\ s[k] # t[k]}
    <2>1. SUFFICES ASSUME Differ # {} PROVE FALSE
        BY <1>4
    <2>2. PICK m \in Differ : \A k \in Differ : m <= k
        <3>1. Differ \subseteq Nat
            BY <1>2
        <3>2. QED BY <2>1, <3>1, LeastNat, Zenon
    <2>3. m # 1
        <3>1. s # <<>> /\ t # <<>>
            BY <1>2, <2>2
        <3>2. s[1] = first /\ t[1] = first
            BY <3>1, ListsFrom
        <3>3. QED BY <2>2, <3>2
    <2>4. m - 1 \in 1..Len(s) /\ m - 1 \in 1..Len(t) /\ s[m - 1] = t[m - 1]
        BY <1>2, <2>2, <2>3
    <2>5. m - 1 # Len(s) /\ m - 1 # Len(t)
        BY <1>2, <2>2
    <2>6. table[s[m - 1]] = s[m] /\ table[t[m - 1]] = t[m]
        <3>1. (m - 1) + 1 = m
            BY <2>2, <1>2
        <3>2. QED BY <1>2, <2>4, <2>5, <3>1 DEF IsChain
    <2>7. QED BY <2>2, <2>4, <2>6
<1>5. ~(Len(s) < Len(t))
    <2>1. SUFFICES ASSUME Len(s) < Len(t) PROVE FALSE
        OBVIOUS
    <2>2. Len(s) \in 1..Len(s) /\ Len(s) \in 1..Len(t) /\ Len(s) + 1 \in 1..Len(t)
        BY <1>2, <1>3, <2>1
    <2>3. s[Len(s)] = t[Len(s)]
        BY <1>4, <2>2
    <2>4. table[s[Len(s)]] = END_OF_CLUSTER /\ table[t[Len(s)]] = t[Len(s) + 1]
        BY <1>2, <2>1, <2>2 DEF IsChain
    <2>5. QED BY <1>2, <2>2, <2>3, <2>4, EndIsNoBlock
<1>6. ~(Len(t) < Len(s))
    <2>1. SUFFICES ASSUME Len(t) < Len(s) PROVE FALSE
        OBVIOUS
    <2>2. Len(t) \in 1..Len(s) /\ Len(t) \in 1..Len(t) /\ Len(t) + 1 \in 1..Len(s)
        BY <1>2, <1>3, <2>1
    <2>3. s[Len(t)] = t[Len(t)]
        BY <1>4, <2>2
    <2>4. table[t[Len(t)]] = END_OF_CLUSTER /\ table[s[Len(t)]] = s[Len(t) + 1]
        BY <1>2, <2>1, <2>2 DEF IsChain
    <2>5. QED BY <1>2, <2>2, <2>3, <2>4, EndIsNoBlock
<1>7. Len(s) = Len(t)
    <2>1. \A m, n \in Nat : ~(m < n) /\ ~(n < m) => m = n
        OBVIOUS
    <2>2. QED BY <1>2, <1>5, <1>6, <2>1, Zenon
<1>8. QED BY <1>2, <1>4, <1>7

\* getBlockList returns the chain, whenever there is one.
THEOREM GetBlockList ==
    ASSUME NEW table, NEW first \in Links,
           NEW s \in BlockListsFrom[first], IsChain(table, s)
    PROVE  WalkEnds(table, first) /\ getBlockList(table, first) = s
<1>1. WalkEnds(table, first)
    BY DEF WalkEnds
<1>2. /\ getBlockList(table, first) \in BlockListsFrom[first]
      /\ IsChain(table, getBlockList(table, first))
    BY DEF getBlockList
<1>3. QED BY <1>1, <1>2, ChainUnique

\* From any block of a chain that appendBlock is given, its first or its
\* last, getLastBlock finds the last.
THEOREM GetLastBlock ==
    ASSUME NEW table, NEW s \in BlockLists, s # <<>>, IsChain(table, s),
           NEW block \in {s[1], s[Len(s)]}
    PROVE  WalkEnds(table, block) /\ getLastBlock(table, block) = s[Len(s)]
<1>1. /\ s \in Seq(Blocks) /\ Len(s) \in Nat /\ Len(s) # 0 /\ DOMAIN s = 1..Len(s)
      /\ s \in [1..Len(s) -> Blocks]
    BY BlockListType
<1>2. CASE block = s[1]
    <2>1. s[1] \in Links /\ s \in BlockListsFrom[s[1]]
        BY <1>1, ListsFrom DEF Links
    <2>2. QED BY <1>2, <2>1, GetBlockList DEF getLastBlock
<1>3. CASE block = s[Len(s)]
    <2> DEFINE q == <<s[Len(s)]>>
    <2>1. q \in [1..1 -> Blocks] /\ Len(q) = 1 /\ q # <<>> /\ DOMAIN q = 1..1 /\ q[1] = s[Len(s)]
        BY <1>1
    <2> HIDE DEF q
    <2>2. q \in BlockLists
        <3>1. \A i, j \in 1..1 : q[i] = q[j] => i = j
            OBVIOUS
        <3>2. QED BY <2>1, <3>1, BlockListIntro
    <2>3. s[Len(s)] \in Links /\ q \in BlockListsFrom[s[Len(s)]]
        BY <1>1, <2>1, <2>2, ListsFrom DEF Links
    <2>4. IsChain(table, q)
        BY <1>1, <2>1 DEF IsChain
    <2>5. QED BY <1>3, <2>1, <2>3, <2>4, GetBlockList DEF getLastBlock
<1>4. QED BY <1>2, <1>3

-----------------------------------------------------------------------------
(* What the operations on the table make of a chain.                       *)

\* The blocks of `new`, linked, are a chain; no other entry changes.
LEMMA LinkedIsChain ==
    ASSUME NEW table \in [Blocks -> Links], NEW new \in BlockLists
    PROVE  /\ Linked(table, new) \in [Blocks -> Links]
           /\ IsChain(Linked(table, new), new)
           /\ \A b \in Blocks \ SetOfBlocks(new) : Linked(table, new)[b] = table[b]
<1>1. /\ Len(new) \in Nat /\ DOMAIN new = 1..Len(new) /\ new \in [1..Len(new) -> Blocks]
      /\ \A i, j \in 1..Len(new) : new[i] = new[j] => i = j
      /\ SetOfBlocks(new) = {new[i] : i \in 1..Len(new)}
    BY BlockListType
<1> DEFINE T == Linked(table, new)
           At(b) == CHOOSE i \in DOMAIN new : new[i] = b
<1>2. ASSUME NEW b \in Blocks, NEW i \in 1..Len(new), new[i] = b
      PROVE  T[b] = IF i = Len(new) THEN END_OF_CLUSTER ELSE new[i + 1]
    <2>1. \E k \in DOMAIN new : new[k] = b
        BY <1>1, <1>2
    <2>2. At(b) \in 1..Len(new) /\ new[At(b)] = b
        BY <1>1, <2>1
    <2>3. At(b) = i
        BY <1>1, <1>2, <2>2
    <2>4. T[b] = IF At(b) = Len(new) THEN END_OF_CLUSTER ELSE new[At(b) + 1]
        BY <2>1 DEF Linked
    <2>5. QED BY <2>3, <2>4
<1>3. ASSUME NEW b \in Blocks, b \notin SetOfBlocks(new) PROVE T[b] = table[b]
    BY <1>1, <1>3 DEF Linked
<1>4. ASSUME NEW b \in Blocks PROVE T[b] \in Links
    <2>1. CASE b \in SetOfBlocks(new)
        <3>1. PICK i \in 1..Len(new) : new[i] = b
            BY <1>1, <2>1
        <3>2. i # Len(new) => new[i + 1] \in Blocks
            <4>1. SUFFICES ASSUME i # Len(new) PROVE new[i + 1] \in Blocks
                OBVIOUS
            <4>2. \A n \in Nat : \A j \in 1..n : j # n => j + 1 \in 1..n
                OBVIOUS
            <4>3. i + 1 \in 1..Len(new)
                BY <1>1, <4>1, <4>2, Zenon
            <4>4. QED BY <1>1, <4>3
        <3>3. QED BY <1>2, <3>1, <3>2, EndIsNoBlock DEF Links
    <2>2. CASE b \notin SetOfBlocks(new)
        BY <1>3, <2>2
    <2>3. QED BY <2>1, <2>2
<1>5. T \in [Blocks -> Links]
    <2>1. T = [b \in Blocks |-> T[b]]
        BY DEF Linked
    <2>2. QED BY <1>4, <2>1
<1>6. IsChain(T, new)
    BY <1>1, <1>2 DEF IsChain
<1>7. QED BY <1>3, <1>5, <1>6

\* The concatenation of two lists without common blocks.
LEMMA ConcatBlockLists ==
    ASSUME NEW s \in BlockLists, NEW new \in BlockLists,
           SetOfBlocks(s) \cap SetOfBlocks(new) = {}
    PROVE  /\ s \o new \in BlockLists
           /\ Len(s \o new) = Len(s) + Len(new)
           /\ SetOfBlocks(s \o new) = SetOfBlocks(s) \cup SetOfBlocks(new)
           /\ \A i \in 1..Len(s) : (s \o new)[i] = s[i]
           /\ \A i \in 1..Len(new) : (s \o new)[Len(s) + i] = new[i]
<1> DEFINE q == s \o new
           n == Len(s) + Len(new)
<1>1. /\ s \in Seq(Blocks) /\ Len(s) \in Nat /\ s \in [1..Len(s) -> Blocks]
      /\ \A i, j \in 1..Len(s) : s[i] = s[j] => i = j
      /\ SetOfBlocks(s) = {s[i] : i \in 1..Len(s)}
    BY BlockListType
<1>2. /\ new \in Seq(Blocks) /\ Len(new) \in Nat /\ new \in [1..Len(new) -> Blocks]
      /\ \A i, j \in 1..Len(new) : new[i] = new[j] => i = j
      /\ SetOfBlocks(new) = {new[i] : i \in 1..Len(new)}
    BY BlockListType
<1>3. /\ q \in Seq(Blocks) /\ Len(q) = n /\ DOMAIN q = 1..n
      /\ \A i \in 1..n : q[i] = IF i <= Len(s) THEN s[i] ELSE new[i - Len(s)]
    BY <1>1, <1>2
<1> HIDE DEF q
<1>4. \A i \in 1..n : \/ i \in 1..Len(s) /\ q[i] = s[i]
                      \/ i - Len(s) \in 1..Len(new) /\ q[i] = new[i - Len(s)]
    BY <1>1, <1>2, <1>3
<1>5. \A i \in 1..Len(s) : i \in 1..n /\ q[i] = s[i]
    BY <1>1, <1>2, <1>3
<1>6. ASSUME NEW i \in 1..Len(new) PROVE Len(s) + i \in 1..n /\ q[Len(s) + i] = new[i]
    <2>1. Len(s) + i \in 1..n /\ ~(Len(s) + i <= Len(s)) /\ (Len(s) + i) - Len(s) = i
        BY <1>1, <1>2
    <2>2. QED BY <1>3, <2>1
<1>7. SetOfBlocks(q) = SetOfBlocks(s) \cup SetOfBlocks(new)
    <2>1. SetOfBlocks(q) = {q[i] : i \in 1..n}
        BY <1>3 DEF SetOfBlocks
    <2>2. ASSUME NEW b \in SetOfBlocks(q) PROVE b \in SetOfBlocks(s) \cup SetOfBlocks(new)
        BY <1>1, <1>2, <1>4, <2>1
    <2>3. ASSUME NEW b \in SetOfBlocks(s) PROVE b \in SetOfBlocks(q)
        <3>1. PICK i \in 1..Len(s) : s[i] = b
            BY <1>1
        <3>2. QED BY <1>5, <2>1, <3>1
    <2>4. ASSUME NEW b \in SetOfBlocks(new) PROVE b \in SetOfBlocks(q)
        <3>1. PICK i \in 1..Len(new) : new[i] = b
            BY <1>2
        <3>2. QED BY <1>6, <2>1, <3>1
    <2>5. QED BY <2>2, <2>3, <2>4
<1>8. ASSUME NEW i \in 1..n, NEW j \in 1..n, q[i] = q[j] PROVE i = j
    <2>1. CASE q[i] \in SetOfBlocks(s)
        <3>1. q[i] \notin SetOfBlocks(new) /\ q[j] \notin SetOfBlocks(new)
            BY <1>8, <2>1
        <3>2. i \in 1..Len(s) /\ q[i] = s[i] /\ j \in 1..Len(s) /\ q[j] = s[j]
            BY <1>2, <1>4, <3>1
        <3>3. QED BY <1>1, <1>8, <3>2
    <2>2. CASE q[i] \notin SetOfBlocks(s)
        <3>1. /\ i - Len(s) \in 1..Len(new) /\ q[i] = new[i - Len(s)]
              /\ j - Len(s) \in 1..Len(new) /\ q[j] = new[j - Len(s)]
            BY <1>1, <1>4, <1>8, <2>2
        <3>2. i - Len(s) = j - Len(s)
            BY <1>2, <1>8, <3>1
        <3>3. QED BY <1>1, <1>2, <3>2
    <2>3. QED BY <2>1, <2>2
<1>9. n \in Nat /\ q \in [1..n -> Blocks]
    BY <1>1, <1>2, <1>3
<1>10. q \in BlockLists
    BY <1>8, <1>9, BlockListIntro
<1>11. QED BY <1>3, <1>5, <1>6, <1>7, <1>10 DEF q

\* appendBlocks extends the chain of `block` by blocks that are not in it.
THEOREM AppendBlocks ==
    ASSUME NEW table \in [Blocks -> Links],
           NEW s \in BlockLists, s # <<>>, IsChain(table, s),
           NEW new \in BlockLists, new # <<>>,
           SetOfBlocks(s) \cap SetOfBlocks(new) = {},
           NEW block \in {s[1], s[Len(s)]}
    PROVE  LET T == appendBlocks(table, block, new)
           IN  /\ T \in [Blocks -> Links]
               /\ IsChain(T, s \o new)
               /\ \A b \in Blocks : b \notin SetOfBlocks(s) /\ b \notin SetOfBlocks(new)
                                    => T[b] = table[b]
<1> DEFINE last == s[Len(s)]
           U == [table EXCEPT ![last] = new[1]]
           T == Linked(U, new)
           q == s \o new
<1>1. appendBlocks(table, block, new) = T
    BY GetLastBlock DEF appendBlocks
<1>2. /\ Len(s) \in Nat /\ Len(s) \in 1..Len(s) /\ DOMAIN s = 1..Len(s)
      /\ s \in [1..Len(s) -> Blocks]
      /\ \A i, j \in 1..Len(s) : s[i] = s[j] => i = j
      /\ SetOfBlocks(s) = {s[i] : i \in 1..Len(s)}
    BY BlockListType
<1>3. /\ Len(new) \in Nat /\ Len(new) >= 1 /\ DOMAIN new = 1..Len(new)
      /\ new \in [1..Len(new) -> Blocks]
      /\ SetOfBlocks(new) = {new[i] : i \in 1..Len(new)}
    BY BlockListType
<1>4. last \in Blocks /\ new[1] \in Blocks
    BY <1>2, <1>3
<1>5. U \in [Blocks -> Links] /\ U[last] = new[1]
      /\ \A b \in Blocks : b # last => U[b] = table[b]
    BY <1>4 DEF Links
<1>6. /\ T \in [Blocks -> Links] /\ IsChain(T, new)
      /\ \A b \in Blocks \ SetOfBlocks(new) : T[b] = U[b]
    BY <1>5, LinkedIsChain
<1>7. /\ q \in BlockLists /\ Len(q) = Len(s) + Len(new) /\ DOMAIN q = 1..Len(q)
      /\ \A i \in 1..Len(s) : q[i] = s[i]
      /\ \A i \in 1..Len(new) : q[Len(s) + i] = new[i]
    BY ConcatBlockLists, BlockListType
<1> HIDE DEF q, T, U
<1>8. ASSUME NEW i \in DOMAIN q
      PROVE  T[q[i]] = IF i = Len(q) THEN END_OF_CLUSTER ELSE q[i + 1]
    <2>1. CASE i < Len(s)
        <3>1. i \in 1..Len(s) /\ i + 1 \in 1..Len(s) /\ i # Len(q) /\ i # Len(s)
            BY <1>2, <1>3, <1>7, <2>1
        <3>2. s[i] \in Blocks \ SetOfBlocks(new) /\ s[i] # last
            BY <1>2, <3>1
        <3>3. T[s[i]] = table[s[i]]
            BY <1>5, <1>6, <3>2
        <3>4. table[s[i]] = s[i + 1]
            BY <1>2, <3>1 DEF IsChain
        <3>5. QED BY <1>7, <3>1, <3>3, <3>4
    <2>2. CASE i = Len(s)
        <3>1. last \in Blocks \ SetOfBlocks(new) /\ q[i] = last
            BY <1>2, <1>7, <2>2
        <3>2. T[q[i]] = new[1]
            BY <1>5, <1>6, <3>1
        <3>3. 1 \in 1..Len(new)
            BY <1>3
        <3>4. q[i + 1] = new[1]
            <4>1. q[Len(s) + 1] = new[1]
                BY <1>7, <3>3, Zenon
            <4>2. QED BY <2>2, <4>1
        <3>5. i # Len(q)
            <4>1. \A x \in Nat, y \in Nat : y >= 1 => x # x + y
                OBVIOUS
            <4>2. QED BY <1>2, <1>3, <1>7, <2>2, <4>1
        <3>6. QED BY <3>2, <3>4, <3>5
    <2>3. CASE i > Len(s)
        <3> DEFINE k == i - Len(s)
        <3>1. k \in 1..Len(new) /\ i = Len(s) + k /\ (i = Len(q) <=> k = Len(new))
            <4>1. \A x, y \in Nat : \A j \in 1..(x + y) : j > x =>
                      /\ j - x \in 1..y /\ j = x + (j - x)
                      /\ (j = x + y <=> j - x = y)
                OBVIOUS
            <4>2. i \in 1..(Len(s) + Len(new)) /\ Len(q) = Len(s) + Len(new)
                BY <1>7
            <4>3. Len(s) \in Nat /\ Len(new) \in Nat
                BY <1>2, <1>3
            <4>4. /\ i - Len(s) \in 1..Len(new) /\ i = Len(s) + (i - Len(s))
                  /\ i = Len(s) + Len(new) <=> i - Len(s) = Len(new)
                BY <2>3, <4>1, <4>2, <4>3
            <4>5. QED BY <4>2, <4>4, Zenon
        <3>2. q[i] = new[k]
            BY <1>7, <3>1
        <3>3. T[new[k]] = IF k = Len(new) THEN END_OF_CLUSTER ELSE new[k + 1]
            BY <1>3, <1>6, <3>1 DEF IsChain
        <3>4. k # Len(new) => q[i + 1] = new[k + 1]
            <4>1. SUFFICES ASSUME k # Len(new) PROVE q[i + 1] = new[k + 1]
                OBVIOUS
            <4>2. k + 1 \in 1..Len(new) /\ i + 1 = Len(s) + (k + 1)
                BY <1>2, <1>3, <3>1, <4>1
            <4>3. QED BY <1>7, <4>2
        <3>5. QED BY <3>1, <3>2, <3>3, <3>4
    <2>4. i \in Int /\ Len(s) \in Int
        BY <1>2, <1>3, <1>7
    <2>5. QED BY <2>1, <2>2, <2>3, <2>4
<1>9. IsChain(T, q)
    BY <1>8 DEF IsChain
<1>10. ASSUME NEW b \in Blocks, b \notin SetOfBlocks(s), b \notin SetOfBlocks(new)
       PROVE  T[b] = table[b]
    <2>1. b # last
        BY <1>2, <1>10
    <2>2. QED BY <1>5, <1>6, <1>10, <2>1
<1>11. QED BY <1>1, <1>6, <1>9, <1>10 DEF q

\* Fat::truncate cuts a chain after its m-th block.
THEOREM TruncateChain ==
    ASSUME NEW table \in [Blocks -> Links],
           NEW s \in BlockLists, IsChain(table, s), NEW m \in 1..Len(s)
    PROVE  LET T == truncate(table, s[m])
               q == SubSeq(s, 1, m)
           IN  /\ T \in [Blocks -> Links]
               /\ q \in BlockLists /\ Len(q) = m /\ q[1] = s[1]
               /\ SetOfBlocks(q) = {s[k] : k \in 1..m}
               /\ IsChain(T, q)
               /\ \A b \in Blocks \ SetOfBlocks(s) : T[b] = table[b]
<1> DEFINE T == truncate(table, s[m])
           q == SubSeq(s, 1, m)
<1>1. /\ s \in Seq(Blocks) /\ Len(s) \in Nat /\ DOMAIN s = 1..Len(s)
      /\ s \in [1..Len(s) -> Blocks]
      /\ \A i, j \in 1..Len(s) : s[i] = s[j] => i = j
      /\ SetOfBlocks(s) = {s[i] : i \in 1..Len(s)}
    BY BlockListType
<1>2. m \in Nat /\ m <= Len(s) /\ 1 <= m /\ s[m] \in Blocks
    BY <1>1
<1>3. T \in [Blocks -> Links] /\ T[s[m]] = END_OF_CLUSTER
      /\ \A b \in Blocks : b # s[m] => T[b] = table[b]
    BY <1>2, EndIsNoBlock DEF truncate
<1>4. /\ q \in Seq(Blocks) /\ Len(q) = m /\ DOMAIN q = 1..m
      /\ \A i \in 1..m : q[i] = s[i]
    BY <1>1, <1>2
<1> HIDE DEF q, T
<1>5. q \in [1..m -> Blocks] /\ \A i, j \in 1..m : q[i] = q[j] => i = j
    BY <1>1, <1>2, <1>4
<1>6. q \in BlockLists
    BY <1>2, <1>5, BlockListIntro
<1>7. ASSUME NEW i \in 1..m PROVE T[q[i]] = IF i = m THEN END_OF_CLUSTER ELSE q[i + 1]
    <2>1. CASE i = m
        BY <1>3, <1>4, <2>1
    <2>2. CASE i # m
        <3>1. i \in 1..Len(s) /\ i + 1 \in 1..m /\ i # Len(s) /\ m \in 1..Len(s)
            BY <1>1, <1>2, <2>2
        <3>2. s[i] \in Blocks /\ s[i] # s[m]
            <4>1. s[i] \in Blocks /\ (s[i] = s[m] => i = m)
                BY <1>1, <3>1, Zenon
            <4>2. QED BY <2>2, <4>1
        <3>3. T[s[i]] = table[s[i]] /\ table[s[i]] = s[i + 1]
            BY <1>1, <1>3, <3>1, <3>2 DEF IsChain
        <3>4. QED BY <1>4, <2>2, <3>1, <3>3
    <2>3. QED BY <2>1, <2>2
<1>8. IsChain(T, q)
    BY <1>4, <1>7 DEF IsChain
<1>9. SetOfBlocks(q) = {s[k] : k \in 1..m}
    BY <1>4 DEF SetOfBlocks
<1>10. \A b \in Blocks \ SetOfBlocks(s) : T[b] = table[b]
    BY <1>1, <1>3
<1>11. q[1] = s[1]
    BY <1>2, <1>4
<1>12. QED BY <1>3, <1>4, <1>6, <1>8, <1>9, <1>10, <1>11 DEF q, T

-----------------------------------------------------------------------------
(* What the loops of Fat.cpp build step by step.                           *)

\* A walk that ends has met no block twice: from the second visit it would
\* have gone on as from the first.
LEMMA WalkNeverRepeats ==
    ASSUME NEW table, NEW s \in Seq(Blocks), IsChain(table, s)
    PROVE  s \in BlockLists
<1> DEFINE n == Len(s)
           Repeated == {j \in 1..n : \E i \in 1..n : i < j /\ s[i] = s[j]}
<1>1. n \in Nat /\ s \in [1..n -> Blocks] /\ DOMAIN s = 1..n
    OBVIOUS
<1>2. \A k \in 1..n : table[s[k]] = IF k = n THEN END_OF_CLUSTER ELSE s[k + 1]
    BY <1>1 DEF IsChain
<1> HIDE DEF n
<1>3. \A j \in Repeated : j # n /\ j + 1 \in Repeated
    <2>1. SUFFICES ASSUME NEW j \in 1..n, NEW i \in 1..n, i < j, s[i] = s[j]
                   PROVE  j # n /\ j + 1 \in Repeated
        OBVIOUS
    <2>2. i # n /\ i + 1 \in 1..n
        BY <1>1, <2>1
    <2>3. table[s[i]] = s[i + 1] /\ s[i + 1] \in Blocks
        BY <1>1, <1>2, <2>2
    <2>4. j # n
        BY <1>2, <2>1, <2>3, EndIsNoBlock
    <2>5. j + 1 \in 1..n /\ s[j + 1] = s[i + 1] /\ i + 1 < j + 1
        BY <1>1, <1>2, <2>1, <2>3, <2>4
    <2>6. QED BY <2>2, <2>4, <2>5
<1>4. Repeated = {}
    <2> DEFINE Left == {n - j : j \in Repeated}
    <2>1. SUFFICES ASSUME Repeated # {} PROVE FALSE
        OBVIOUS
    <2>2. Repeated \subseteq 1..n
        OBVIOUS
    <2> HIDE DEF Repeated
    <2>3. Left \subseteq Nat /\ Left # {}
        <3>1. \A j \in 1..n : n - j \in Nat
            BY <1>1
        <3>2. QED BY <2>1, <2>2, <3>1
    <2>4. PICK m \in Left : \A k \in Left : m <= k
        BY <2>3, LeastNat, Zenon
    <2>5. PICK j \in Repeated : m = n - j
        BY <2>4
    <2>6. n - (j + 1) \in Left
        BY <1>3
    <2>7. m <= n - (j + 1)
        BY <2>4, <2>6
    <2>8. QED BY <1>1, <2>2, <2>5, <2>7
<1>5. \A i, j \in 1..n : s[i] = s[j] => i = j
    <2>1. ASSUME NEW i \in 1..n, NEW j \in 1..n, s[i] = s[j], i < j PROVE FALSE
        BY <1>4, <2>1
    <2>2. QED BY <1>1, <2>1
<1>6. QED BY <1>1, <1>5, BlockListIntro

\* Two tables with the same chain that agree on all other blocks are the same.
LEMMA TableUnique ==
    ASSUME NEW t \in [Blocks -> Links], NEW u \in [Blocks -> Links], NEW s \in BlockLists,
           IsChain(t, s), IsChain(u, s),
           \A b \in Blocks \ SetOfBlocks(s) : t[b] = u[b]
    PROVE  t = u
<1>1. \A b \in SetOfBlocks(s) : t[b] = u[b]
    BY DEF IsChain, SetOfBlocks
<1>2. \A b \in Blocks : t[b] = u[b]
    BY <1>1
<1>3. QED BY <1>2

\* A list with one more block at its end.
LEMMA OneMore ==
    ASSUME NEW s \in BlockLists, NEW b \in Blocks \ SetOfBlocks(s)
    PROVE  /\ Append(s, b) \in BlockLists
           /\ Len(Append(s, b)) = Len(s) + 1
           /\ SetOfBlocks(Append(s, b)) = SetOfBlocks(s) \cup {b}
           /\ \A i \in 1..Len(s) : Append(s, b)[i] = s[i]
           /\ Append(s, b)[Len(s) + 1] = b
<1> DEFINE t == Append(s, b)
           n == Len(s)
<1>1. /\ s \in Seq(Blocks) /\ n \in Nat /\ s \in [1..n -> Blocks]
      /\ \A i, j \in 1..n : s[i] = s[j] => i = j
      /\ SetOfBlocks(s) = {s[i] : i \in 1..n}
    BY BlockListType
<1>2. /\ t \in Seq(Blocks) /\ Len(t) = n + 1 /\ t \in [1..(n + 1) -> Blocks]
      /\ \A i \in 1..n : t[i] = s[i]
      /\ t[n + 1] = b /\ DOMAIN t = 1..(n + 1)
    <2>1. b \in Blocks
        OBVIOUS
    <2>2. t \in Seq(Blocks) /\ Len(t) = n + 1 /\ t[n + 1] = b
        BY <1>1, <2>1
    <2>3. \A i \in 1..n : t[i] = s[i]
        BY <1>1
    <2> HIDE DEF t, n
    <2>4. QED BY <2>2, <2>3
<1> HIDE DEF t, n
<1>3. \A i \in 1..(n + 1) : i \in 1..n \/ i = n + 1
    BY <1>1
<1>4. \A i \in 1..n : t[i] # b
    BY <1>1, <1>2
<1>5. \A i, j \in 1..(n + 1) : t[i] = t[j] => i = j
    BY <1>1, <1>2, <1>3, <1>4
<1>6. t \in BlockLists
    BY <1>1, <1>2, <1>5, BlockListIntro
<1>7. SetOfBlocks(t) = SetOfBlocks(s) \cup {b}
    <2>1. SetOfBlocks(t) = {t[i] : i \in 1..(n + 1)}
        BY <1>2 DEF SetOfBlocks
    <2>2. \A i \in 1..n : i \in 1..(n + 1)
        BY <1>1
    <2>3. n + 1 \in 1..(n + 1)
        BY <1>1
    <2>4. QED BY <1>1, <1>2, <1>3, <2>1, <2>2, <2>3
<1>8. QED BY <1>2, <1>6, <1>7 DEF t, n

\* Linking one block behind the last of a chain, as appendBlock does.
LEMMA OneLinked ==
    ASSUME NEW table \in [Blocks -> Links], NEW s \in BlockLists, s # <<>>,
           IsChain(table, s), NEW b \in Blocks \ SetOfBlocks(s)
    PROVE  LET t == [table EXCEPT ![s[Len(s)]] = b, ![b] = END_OF_CLUSTER]
           IN  /\ t \in [Blocks -> Links] /\ IsChain(t, Append(s, b))
               /\ \A c \in Blocks \ SetOfBlocks(Append(s, b)) : t[c] = table[c]
<1> DEFINE n == Len(s)
           q == Append(s, b)
           t == [table EXCEPT ![s[n]] = b, ![b] = END_OF_CLUSTER]
<1>1. /\ n \in Nat /\ n # 0 /\ s \in [1..n -> Blocks] /\ DOMAIN s = 1..n
      /\ \A i, j \in 1..n : s[i] = s[j] => i = j
      /\ SetOfBlocks(s) = {s[i] : i \in 1..n}
    BY BlockListType
<1>2. /\ q \in BlockLists /\ Len(q) = n + 1
      /\ SetOfBlocks(q) = SetOfBlocks(s) \cup {b}
      /\ \A i \in 1..n : q[i] = s[i]
      /\ q[n + 1] = b
    BY OneMore
<1>3. DOMAIN q = 1..(n + 1)
    BY <1>2, BlockListType
<1>4. \A i \in 1..n : table[s[i]] = IF i = n THEN END_OF_CLUSTER ELSE s[i + 1]
    BY <1>1 DEF IsChain
<1> HIDE DEF q, n
<1>5. n \in 1..n /\ s[n] \in Blocks /\ s[n] # b
    BY <1>1
<1>6. /\ t \in [Blocks -> Links] /\ t[s[n]] = b /\ t[b] = END_OF_CLUSTER
      /\ \A c \in Blocks : c # s[n] /\ c # b => t[c] = table[c]
    BY <1>5, EndIsNoBlock DEF Links
<1> HIDE DEF t
<1>7. ASSUME NEW i \in 1..(n + 1)
      PROVE  t[q[i]] = IF i = n + 1 THEN END_OF_CLUSTER ELSE q[i + 1]
    <2>1. CASE i = n + 1
        BY <1>2, <1>6, <2>1
    <2>2. CASE i = n
        BY <1>1, <1>2, <1>5, <1>6, <2>2
    <2>3. CASE i # n + 1 /\ i # n
        <3>1. i \in 1..n /\ i + 1 \in 1..n
            BY <1>1, <2>3
        <3>2. s[i] \in Blocks /\ s[i] # s[n] /\ s[i] # b
            BY <1>1, <1>5, <2>3, <3>1
        <3>3. q[i] = s[i] /\ q[i + 1] = s[i + 1]
            BY <1>2, <3>1
        <3>4. QED BY <1>4, <1>6, <2>3, <3>1, <3>2, <3>3
    <2>4. QED BY <2>1, <2>2, <2>3
<1>8. IsChain(t, q)
    BY <1>2, <1>3, <1>7 DEF IsChain
<1>9. \A c \in Blocks \ SetOfBlocks(q) : t[c] = table[c]
    BY <1>1, <1>2, <1>5, <1>6
<1>10. QED BY <1>6, <1>8, <1>9 DEF t, q, n

\* The first block of a file, which is its own end.
LEMMA FirstLinked ==
    ASSUME NEW table \in [Blocks -> Links], NEW b \in Blocks
    PROVE  LET t == [table EXCEPT ![b] = END_OF_CLUSTER]
           IN  /\ t \in [Blocks -> Links] /\ IsChain(t, <<b>>) /\ <<b>> \in BlockLists
               /\ \A c \in Blocks \ SetOfBlocks(<<b>>) : t[c] = table[c]
<1> DEFINE q == <<b>>
           t == [table EXCEPT ![b] = END_OF_CLUSTER]
<1>1. q \in [1..1 -> Blocks] /\ Len(q) = 1 /\ DOMAIN q = 1..1 /\ q[1] = b
    OBVIOUS
<1>2. t \in [Blocks -> Links] /\ t[b] = END_OF_CLUSTER
      /\ \A c \in Blocks : c # b => t[c] = table[c]
    BY EndIsNoBlock
<1> HIDE DEF q, t
<1>3. q \in BlockLists
    <2>1. \A i, j \in 1..1 : q[i] = q[j] => i = j
        OBVIOUS
    <2>2. QED BY <1>1, <2>1, BlockListIntro
<1>4. IsChain(t, q)
    BY <1>1, <1>2 DEF IsChain
<1>5. \A c \in Blocks \ SetOfBlocks(q) : t[c] = table[c]
    BY <1>1, <1>2 DEF SetOfBlocks
<1>6. QED BY <1>2, <1>3, <1>4, <1>5 DEF q, t
=============================================================================
