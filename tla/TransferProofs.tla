--------------------------- MODULE TransferProofs ---------------------------
(***************************************************************************)
(* How fuseRead and fuseWrite cut a transfer into blocks, and what the     *)
(* block cache does to a handle: arithmetic and types, for every block     *)
(* size.                                                                   *)
(***************************************************************************)
EXTENDS Transfer, BlockProofs

\* Quotient and remainder: how an offset names a block and a byte of it.
LEMMA DivMod ==
    ASSUME NEW a \in Nat, NEW n \in Nat \ {0}
    PROVE  /\ a \div n \in Nat /\ a % n \in Nat /\ a % n < n
           /\ a = n * (a \div n) + (a % n)
OBVIOUS

\* There is only one such pair.
LEMMA DivUnique ==
    ASSUME NEW a \in Nat, NEW n \in Nat \ {0}, NEW q \in Nat, NEW r \in Nat,
           r < n, a = n * q + r
    PROVE  a \div n = q /\ a % n = r
<1> DEFINE p == a \div n
           s == a % n
<1>1. p \in Nat /\ s \in Nat /\ s < n /\ a = n * p + s
    BY DivMod
<1> HIDE DEF p, s
<1>2. CASE p < q
    <2>1. n * (p + 1) <= n * q
        BY <1>1, <1>2
    <2>2. QED BY <1>1, <2>1
<1>3. CASE p > q
    <2>1. n * (q + 1) <= n * p
        BY <1>1, <1>3
    <2>2. QED BY <1>1, <2>1
<1>4. QED BY <1>1, <1>2, <1>3 DEF p, s

\* A larger offset is in the same block or in a later one.
LEMMA DivMonotonic ==
    ASSUME NEW a \in Nat, NEW b \in Nat, a <= b, NEW n \in Nat \ {0}
    PROVE  a \div n <= b \div n
<1> DEFINE p == a \div n
           q == b \div n
<1>1. /\ p \in Nat /\ a % n \in Nat /\ a = n * p + (a % n)
      /\ q \in Nat /\ b % n \in Nat /\ b % n < n /\ b = n * q + (b % n)
    BY DivMod
<1> HIDE DEF p, q
<1>2. ASSUME q < p PROVE FALSE
    <2>1. n * (q + 1) <= n * p
        BY <1>1, <1>2
    <2>2. QED BY <1>1, <2>1
<1>3. QED BY <1>1, <1>2 DEF p, q

\* A transfer is cut into its head, full blocks, and at most one block of
\* rest; it ends in the block of its last byte.
LEMMA TransferCut ==
    ASSUME NEW offset \in Nat, NEW n \in Nat \ {0}
    PROVE  /\ HeadSize(offset, n) \in 1..n
           /\ offset % BLOCK_SIZE \in Nat
           /\ MiddleBlocks(offset, n) \in Nat
           /\ HeadSize(offset, n) + MiddleBlocks(offset, n) * BLOCK_SIZE <= n
           /\ BlocksTouched(offset, n) \in Nat \ {0}
           /\ IF HeadSize(offset, n) + MiddleBlocks(offset, n) * BLOCK_SIZE = n
              THEN BlocksTouched(offset, n) = MiddleBlocks(offset, n) + 1
              ELSE BlocksTouched(offset, n) = MiddleBlocks(offset, n) + 2
           /\ (offset \div BLOCK_SIZE) + BlocksTouched(offset, n)
                = ((offset + n - 1) \div BLOCK_SIZE) + 1
<1> DEFINE q == offset \div BLOCK_SIZE
           r == offset % BLOCK_SIZE
           head == HeadSize(offset, n)
           middle == MiddleBlocks(offset, n)
<1>1. BLOCK_SIZE \in Nat /\ BLOCK_SIZE # 0
    BY TransferAssumption
<1>2. q \in Nat /\ r \in Nat /\ r < BLOCK_SIZE /\ offset = BLOCK_SIZE * q + r
    BY <1>1, DivMod
<1>3. head = IF n < BLOCK_SIZE - r THEN n ELSE BLOCK_SIZE - r
    BY DEF HeadSize
<1>4. middle = IF n - head = 0 THEN 0 ELSE ((n - head) - 1) \div BLOCK_SIZE
    BY DEF MiddleBlocks
<1>5. BlocksTouched(offset, n) = IF n = head THEN 1 ELSE middle + 2
    BY DEF BlocksTouched
<1> HIDE DEF q, r, head, middle
<1>6. head \in 1..n
    BY <1>1, <1>2, <1>3
<1>7. CASE n = head
    <2>1. middle = 0 /\ BlocksTouched(offset, n) = 1 /\ middle * BLOCK_SIZE = 0
        BY <1>1, <1>4, <1>5, <1>7
    <2>2. offset + n - 1 = BLOCK_SIZE * q + (r + n - 1) /\ r + n - 1 \in Nat
          /\ r + n - 1 < BLOCK_SIZE
        BY <1>1, <1>2, <1>3, <1>7
    <2>3. (offset + n - 1) \div BLOCK_SIZE = q
        <3>1. offset + n - 1 \in Nat
            OBVIOUS
        <3>2. QED BY <1>1, <1>2, <2>2, <3>1, DivUnique
    <2>4. QED BY <1>2, <1>6, <1>7, <2>1, <2>3 DEF q, r, head, middle
<1>8. CASE n # head
    <2> DEFINE rest == n - head
               s == (rest - 1) % BLOCK_SIZE
    <2>1. rest \in Nat /\ rest # 0 /\ head = BLOCK_SIZE - r /\ rest - 1 \in Nat
        BY <1>1, <1>2, <1>3, <1>6, <1>8
    <2>2. middle = (rest - 1) \div BLOCK_SIZE
        BY <1>4, <2>1
    <2>3. middle \in Nat /\ s \in Nat /\ s < BLOCK_SIZE /\ rest - 1 = BLOCK_SIZE * middle + s
        BY <1>1, <2>1, <2>2, DivMod
    <2> HIDE DEF s
    <2>4. middle * BLOCK_SIZE = BLOCK_SIZE * middle /\ BLOCK_SIZE * middle \in Nat
        BY <1>1, <2>3
    <2>5. head + middle * BLOCK_SIZE <= n /\ head + middle * BLOCK_SIZE # n
        BY <1>6, <2>1, <2>3, <2>4
    <2>6. (offset + n - 1) \div BLOCK_SIZE = q + 1 + middle
        <3>1. offset + n - 1 = BLOCK_SIZE * (q + 1 + middle) + s
            <4>1. BLOCK_SIZE * (q + 1 + middle) = BLOCK_SIZE * q + BLOCK_SIZE + BLOCK_SIZE * middle
                BY <1>1, <1>2, <2>3
            <4>2. BLOCK_SIZE * q \in Nat
                BY <1>1, <1>2
            <4>3. QED BY <1>1, <1>2, <1>6, <2>1, <2>3, <2>4, <4>1, <4>2
        <3>2. offset + n - 1 \in Nat /\ q + 1 + middle \in Nat
            BY <1>2, <2>3
        <3>3. QED BY <1>1, <2>3, <3>1, <3>2, DivUnique
    <2>7. /\ BlocksTouched(offset, n) = middle + 2
          /\ BlocksTouched(offset, n) \in Nat /\ BlocksTouched(offset, n) # 0
          /\ q + BlocksTouched(offset, n) = (q + 1 + middle) + 1
        BY <1>2, <1>5, <1>8, <2>3
    <2>8. QED BY <1>2, <1>6, <2>3, <2>5, <2>6, <2>7 DEF q, r, head, middle
<1>9. QED BY <1>7, <1>8

\* The loops over full blocks run as long as more than a block is left, which
\* is MiddleBlocks times.
LEMMA CutAt ==
    ASSUME NEW offset \in Nat, NEW n \in Nat \ {0},
           NEW m \in Nat, m <= MiddleBlocks(offset, n)
    PROVE  LET rest == n - (HeadSize(offset, n) + m * BLOCK_SIZE)
           IN  rest \in Nat /\ (rest > BLOCK_SIZE <=> m < MiddleBlocks(offset, n))
<1> DEFINE head == HeadSize(offset, n)
           middle == MiddleBlocks(offset, n)
           R == n - head
           s == (R - 1) % BLOCK_SIZE
<1>1. BLOCK_SIZE \in Nat /\ BLOCK_SIZE # 0
    BY TransferAssumption
<1>2. head \in 1..n /\ middle \in Nat /\ R \in Nat
    <2>1. HeadSize(offset, n) \in 1..n /\ MiddleBlocks(offset, n) \in Nat
        BY TransferCut
    <2>2. QED BY <2>1
<1>3. middle = IF R = 0 THEN 0 ELSE (R - 1) \div BLOCK_SIZE
    BY DEF MiddleBlocks
<1> HIDE DEF head, middle
<1>4. CASE R = 0
    <2>1. middle = 0 /\ m = 0 /\ m * BLOCK_SIZE = 0
        BY <1>1, <1>3, <1>4 DEF middle
    <2>2. QED BY <1>1, <1>2, <1>4, <2>1 DEF head, middle
<1>5. CASE R # 0
    <2>1. R - 1 \in Nat /\ middle = (R - 1) \div BLOCK_SIZE
        BY <1>2, <1>3, <1>5
    <2>2. s \in Nat /\ s < BLOCK_SIZE /\ R - 1 = BLOCK_SIZE * middle + s
        BY <1>1, <2>1, DivMod
    <2> HIDE DEF s, R
    <2> DEFINE left == middle - m
    <2>3. left \in Nat
        BY <1>2 DEF middle
    <2>4. BLOCK_SIZE * middle = BLOCK_SIZE * left + m * BLOCK_SIZE
          /\ BLOCK_SIZE * left \in Nat /\ m * BLOCK_SIZE \in Nat
          /\ BLOCK_SIZE * middle \in Nat
        BY <1>1, <1>2, <2>3
    <2>5. n - (head + m * BLOCK_SIZE) = BLOCK_SIZE * left + s + 1
        BY <1>2, <2>2, <2>4 DEF R
    <2>6. left = 0 => BLOCK_SIZE * left = 0
        BY <1>1
    <2>7. left # 0 => BLOCK_SIZE * left >= BLOCK_SIZE
        BY <1>1, <2>3
    <2>8. m < middle <=> left # 0
        BY <1>2, <2>3
    <2> HIDE DEF left
    <2>9. BLOCK_SIZE * left + s + 1 > BLOCK_SIZE <=> left # 0
        BY <1>1, <2>2, <2>3, <2>4, <2>6, <2>7
    <2>10. QED BY <2>2, <2>3, <2>4, <2>5, <2>8, <2>9 DEF head, middle
<1>6. QED BY <1>4, <1>5

\* The bytes of the head are in the block of the offset.
LEMMA HeadPosition ==
    ASSUME NEW offset \in Nat, NEW n \in Nat \ {0},
           NEW i \in Nat, i < HeadSize(offset, n)
    PROVE  /\ (offset + i) \div BLOCK_SIZE = offset \div BLOCK_SIZE
           /\ (offset + i) % BLOCK_SIZE = (offset % BLOCK_SIZE) + i
<1> DEFINE q == offset \div BLOCK_SIZE
           r == offset % BLOCK_SIZE
<1>1. BLOCK_SIZE \in Nat \ {0}
    BY TransferAssumption
<1>2. q \in Nat /\ r \in Nat /\ r < BLOCK_SIZE /\ offset = BLOCK_SIZE * q + r
    BY <1>1, DivMod
<1>3. i < BLOCK_SIZE - r
    <2>1. HeadSize(offset, n) = IF n < BLOCK_SIZE - r THEN n ELSE BLOCK_SIZE - r
        BY DEF HeadSize
    <2> HIDE DEF r
    <2>2. QED BY <1>1, <1>2, <2>1
<1> HIDE DEF q, r
<1>4. offset + i \in Nat /\ r + i \in Nat /\ r + i < BLOCK_SIZE
      /\ offset + i = BLOCK_SIZE * q + (r + i)
    <2>1. BLOCK_SIZE * q \in Nat
        BY <1>1, <1>2
    <2>2. QED BY <1>1, <1>2, <1>3, <2>1
<1>5. (offset + i) \div BLOCK_SIZE = q /\ (offset + i) % BLOCK_SIZE = r + i
    <2> DEFINE at == offset + i
               p == r + i
    <2>1. at \in Nat /\ p \in Nat /\ p < BLOCK_SIZE /\ at = BLOCK_SIZE * q + p
        BY <1>4
    <2> HIDE DEF at, p
    <2>2. at \div BLOCK_SIZE = q /\ at % BLOCK_SIZE = p
        BY <1>1, <1>2, <2>1, DivUnique
    <2>3. QED BY <2>2 DEF at, p
<1>6. QED BY <1>5 DEF q, r

\* Byte i of the block that is m blocks behind the head.
LEMMA LaterPosition ==
    ASSUME NEW offset \in Nat, NEW n \in Nat \ {0}, NEW m \in Nat, NEW i \in Nat,
           i < BLOCK_SIZE, NEW k \in Nat, k < n,
           k = HeadSize(offset, n) + m * BLOCK_SIZE + i
    PROVE  /\ m <= MiddleBlocks(offset, n)
           /\ (offset + k) \div BLOCK_SIZE = (offset \div BLOCK_SIZE) + 1 + m
           /\ (offset + k) % BLOCK_SIZE = i
<1> DEFINE q == offset \div BLOCK_SIZE
           r == offset % BLOCK_SIZE
           head == HeadSize(offset, n)
           at == offset + k
           R == n - head - 1
<1>1. BLOCK_SIZE \in Nat \ {0} /\ m * BLOCK_SIZE \in Nat /\ m * BLOCK_SIZE = BLOCK_SIZE * m
    BY TransferAssumption
<1>2. q \in Nat /\ r \in Nat /\ r < BLOCK_SIZE /\ offset = BLOCK_SIZE * q + r
    BY <1>1, DivMod
<1>3. head \in 1..n /\ head # n /\ head = IF n < BLOCK_SIZE - r THEN n ELSE BLOCK_SIZE - r
    <2>1. HeadSize(offset, n) \in 1..n
        BY TransferCut
    <2>2. head = IF n < BLOCK_SIZE - r THEN n ELSE BLOCK_SIZE - r
        BY DEF HeadSize
    <2> HIDE DEF r, at
    <2>3. head # n
        BY <1>1, <2>1
    <2>4. QED BY <2>1, <2>2, <2>3
<1>4. MiddleBlocks(offset, n) = R \div BLOCK_SIZE
    BY <1>3 DEF MiddleBlocks
<1> HIDE DEF q, r, head
<1>5. head = BLOCK_SIZE - r /\ R \in Nat /\ m * BLOCK_SIZE <= R
    BY <1>1, <1>2, <1>3 DEF head
<1>6. m <= MiddleBlocks(offset, n)
    <2>1. (m * BLOCK_SIZE) \div BLOCK_SIZE = m
        <3>1. m * BLOCK_SIZE = BLOCK_SIZE * m + 0 /\ 0 < BLOCK_SIZE
            BY <1>1
        <3>2. QED BY <1>1, <3>1, DivUnique
    <2>2. QED BY <1>1, <1>4, <1>5, <2>1, DivMonotonic
<1>7. at = BLOCK_SIZE * (q + 1 + m) + i /\ at \in Nat
    <2>1. BLOCK_SIZE * (q + 1 + m) = BLOCK_SIZE * q + BLOCK_SIZE + BLOCK_SIZE * m
          /\ BLOCK_SIZE * q \in Nat
        BY <1>1, <1>2
    <2>2. at = offset + head + BLOCK_SIZE * m + i
        BY <1>1, <1>3 DEF head
    <2>3. QED BY <1>1, <1>2, <1>5, <2>1, <2>2
<1>8. at \div BLOCK_SIZE = q + 1 + m /\ at % BLOCK_SIZE = i
    <2>1. q + 1 + m \in Nat
        BY <1>2
    <2> HIDE DEF at
    <2>2. QED BY <1>1, <1>7, <2>1, DivUnique
<1>9. QED BY <1>6, <1>8 DEF q, head, at

\* Every byte of a transfer is in its head or in a block behind it.
LEMMA EveryPosition ==
    ASSUME NEW offset \in Nat, NEW n \in Nat \ {0}, NEW k \in Nat, k < n
    PROVE  \/ k < HeadSize(offset, n)
           \/ \E m, i \in Nat : i < BLOCK_SIZE
                                /\ k = HeadSize(offset, n) + m * BLOCK_SIZE + i
<1> SUFFICES ASSUME k >= HeadSize(offset, n)
             PROVE  \E m, i \in Nat : i < BLOCK_SIZE
                                      /\ k = HeadSize(offset, n) + m * BLOCK_SIZE + i
    BY TransferCut
<1> DEFINE head == HeadSize(offset, n)
           m == (k - head) \div BLOCK_SIZE
           i == (k - head) % BLOCK_SIZE
<1>1. BLOCK_SIZE \in Nat \ {0} /\ head \in Nat /\ k - head \in Nat
    <2>1. HeadSize(offset, n) \in 1..n
        BY TransferCut
    <2>2. QED BY <2>1, TransferAssumption
<1>2. m \in Nat /\ i \in Nat /\ i < BLOCK_SIZE /\ k - head = BLOCK_SIZE * m + i
    BY <1>1, DivMod
<1> HIDE DEF head, m, i
<1>3. m * BLOCK_SIZE = BLOCK_SIZE * m /\ BLOCK_SIZE * m \in Nat
    BY <1>1, <1>2
<1>4. k = head + m * BLOCK_SIZE + i
    BY <1>1, <1>2, <1>3
<1>5. QED BY <1>2, <1>4 DEF head

-----------------------------------------------------------------------------
(* The block cache.  S is a set of blocks the handle may write to.         *)

Cache == [file : OpenFile, disk : Disks]

\* A block that waits in the cache of c is one of S.
Guarded(S, c) == c \in Cache /\ (c.file.dirty => c.file.blockNo \in S)

\* What an operation on the cache that writes to S only makes of c.
WritesOnly(S, c, d) ==
    /\ Guarded(S, d)
    /\ d.file.isFree = c.file.isFree /\ d.file.blockList = c.file.blockList
    /\ \A b \in Blocks \ S : d.disk[b] = c.disk[b]

\* Two operations on the cache that write to S only, one after the other.
LEMMA WritesOnlyTransitive ==
    ASSUME NEW S, NEW c, NEW d, NEW e, WritesOnly(S, c, d), WritesOnly(S, d, e)
    PROVE  WritesOnly(S, c, e)
BY DEF WritesOnly

\* flushCache writes the block that waits in the cache, and no other.
LEMMA FlushCache ==
    ASSUME NEW S, NEW c, Guarded(S, c)
    PROVE  /\ WritesOnly(S, c, flushCache(c))
           /\ ~flushCache(c).file.dirty
           /\ flushCache(c).file.blockNo = c.file.blockNo
<1>1. /\ c.file \in OpenFile /\ c.disk \in Disks
      /\ c = [file |-> c.file, disk |-> c.disk]
    BY DEF Guarded, Cache
<1>2. CASE ~c.file.dirty
    BY <1>2 DEF flushCache, WritesOnly, Guarded
<1>3. CASE c.file.dirty
    <2> DEFINE f == [c.file EXCEPT !.dirty = FALSE]
               d == [c.disk EXCEPT ![c.file.blockNo] = c.file.buffer]
    <2>1. f \in OpenFile /\ f.dirty = FALSE /\ f.isFree = c.file.isFree
          /\ f.blockList = c.file.blockList /\ f.blockNo = c.file.blockNo
        BY <1>1 DEF OpenFile
    <2>2. d \in Disks /\ \A b \in Blocks \ S : d[b] = c.disk[b]
        <3>1. c.file.buffer \in BlockData /\ c.file.blockNo \in S
            BY <1>1, <1>3 DEF OpenFile, Guarded
        <3>2. QED BY <1>1, <3>1 DEF Disks
    <2> HIDE DEF f, d
    <2>3. flushCache(c) = [file |-> f, disk |-> d]
        BY <1>3 DEF flushCache, f, d
    <2>4. QED BY <2>1, <2>2, <2>3 DEF WritesOnly, Guarded, Cache
<1>4. QED BY <1>2, <1>3

\* cacheBlock writes back the block it replaces, and no other, and then holds
\* the one it was asked for.
LEMMA CacheBlock ==
    ASSUME NEW S, NEW c, Guarded(S, c), NEW b \in Blocks
    PROVE  WritesOnly(S, c, cacheBlock(c, b)) /\ cacheBlock(c, b).file.blockNo = b
<1>1. CASE c.file.blockNo = b
    BY <1>1 DEF cacheBlock, WritesOnly
<1>2. CASE c.file.blockNo # b
    <2> DEFINE clean == flushCache(c)
               f == [clean.file EXCEPT !.blockNo = b, !.buffer = clean.disk[b]]
    <2>1. WritesOnly(S, c, clean) /\ ~clean.file.dirty
        BY FlushCache
    <2>2. clean \in Cache
        BY <2>1 DEF WritesOnly, Guarded
    <2> HIDE DEF clean
    <2>3. clean.file \in OpenFile /\ clean.disk \in Disks
          /\ clean = [file |-> clean.file, disk |-> clean.disk]
        BY <2>2 DEF Cache
    <2>5. clean.disk[b] \in BlockData /\ b \in Links
        BY <2>3 DEF Disks, Links
    <2>6. f \in OpenFile /\ f.blockNo = b /\ f.dirty = clean.file.dirty
          /\ f.isFree = clean.file.isFree /\ f.blockList = clean.file.blockList
        BY <2>3, <2>5 DEF OpenFile
    <2>7. cacheBlock(c, b) = [file |-> f, disk |-> clean.disk]
        BY <1>2 DEF cacheBlock, clean
    <2> HIDE DEF f
    <2>8. QED BY <2>1, <2>3, <2>6, <2>7 DEF WritesOnly, Guarded, Cache
<1>3. QED BY <1>1, <1>2

\* Filling the buffer of a block of S makes only that block wait.
LEMMA FillBuffers ==
    ASSUME NEW S, NEW c, Guarded(S, c), c.file.blockNo \in S,
           NEW at \in Nat, NEW part \in Seq(Cells)
    PROVE  WritesOnly(S, c, FillBuffer(c, at, part))
<1> DEFINE bytes == [p \in Positions |->
                       IF p >= at /\ p < at + Len(part) THEN part[p - at + 1]
                                                        ELSE c.file.buffer[p]]
           f == [c.file EXCEPT !.buffer = bytes, !.dirty = TRUE]
<1>1. /\ c.file \in OpenFile /\ c.disk \in Disks
      /\ c = [file |-> c.file, disk |-> c.disk]
    BY DEF Guarded, Cache
<1>2. bytes \in BlockData
    <2>1. ASSUME NEW p \in Positions
          PROVE  (IF p >= at /\ p < at + Len(part) THEN part[p - at + 1]
                                                   ELSE c.file.buffer[p]) \in Cells
        <3>1. p \in Int
            BY TransferAssumption DEF Positions
        <3>2. p >= at /\ p < at + Len(part) => p - at + 1 \in 1..Len(part)
            BY <3>1
        <3>3. c.file.buffer[p] \in Cells
            BY <1>1 DEF OpenFile, BlockData
        <3>4. QED BY <3>2, <3>3
    <2>2. QED BY <2>1 DEF BlockData
<1> HIDE DEF bytes
<1>3. f \in OpenFile /\ f.blockNo = c.file.blockNo
      /\ f.isFree = c.file.isFree /\ f.blockList = c.file.blockList
    BY <1>1, <1>2 DEF OpenFile
<1>4. FillBuffer(c, at, part) = [file |-> f, disk |-> c.disk]
    BY DEF FillBuffer, bytes
<1> HIDE DEF f
<1>5. QED BY <1>1, <1>3, <1>4 DEF WritesOnly, Guarded, Cache

-----------------------------------------------------------------------------
(* The data loops of fuseWrite and fuseRead.                               *)

\* A transfer starts at block `first` of the handle's list, which has all the
\* blocks it touches.
Covered(S, c, first, offset, n) ==
    /\ Guarded(S, c)
    /\ SetOfBlocks(c.file.blockList) \subseteq S
    /\ first \in Nat \ {0} /\ offset \in Nat /\ n \in Nat \ {0}
    /\ first + BlocksTouched(offset, n) - 1 <= Len(c.file.blockList)

\* The unchecked index into blockList is in range for every block of a
\* transfer that the list covers.
LEMMA CoveredBlocks ==
    ASSUME NEW S, NEW c, NEW first, NEW offset, NEW n, Covered(S, c, first, offset, n),
           NEW k \in Nat, k < BlocksTouched(offset, n)
    PROVE  /\ first + k \in 1..Len(c.file.blockList)
           /\ c.file.blockList[first + k] \in Blocks
           /\ c.file.blockList[first + k] \in S
<1>1. c.file.blockList \in BlockLists
    BY DEF Covered, Guarded, Cache, OpenFile
<1>2. BlocksTouched(offset, n) \in Nat /\ Len(c.file.blockList) \in Nat
    BY <1>1, TransferCut, BlockListType DEF Covered
<1>3. first + k \in 1..Len(c.file.blockList)
    BY <1>2 DEF Covered
<1>4. QED BY <1>1, <1>3, BlockListType DEF Covered

\* The index of the first block fits in its uint32_t.
LEMMA IndexFits ==
    ASSUME NEW S, NEW c, NEW offset, NEW n,
           Covered(S, c, (offset \div BLOCK_SIZE) + 1, offset, n)
    PROVE  BlockIndex(offset) = offset \div BLOCK_SIZE
<1> DEFINE q == offset \div BLOCK_SIZE
<1>1. offset \in Nat /\ n \in Nat \ {0} /\ BLOCK_SIZE \in Nat \ {0}
    BY TransferAssumption DEF Covered
<1>2. q \in Nat
    BY <1>1, DivMod
<1>3. BlocksTouched(offset, n) \in Nat \ {0}
    BY <1>1, TransferCut
<1>4. c.file.blockList \in BlockLists
    BY DEF Covered, Guarded, Cache, OpenFile
<1>5. Len(c.file.blockList) \in Nat /\ Len(c.file.blockList) <= CONTAINER_BLOCKS
    BY <1>4, BlockListType, BlockListLength
<1>6. q + 1 + BlocksTouched(offset, n) - 1 <= Len(c.file.blockList)
    BY DEF Covered
<1> HIDE DEF q
<1>7. q < WORD
    BY <1>2, <1>3, <1>5, <1>6, DmapAssumption, FatAssumption
<1>8. q % WORD = q
    BY <1>2, <1>7, FatAssumption
<1>9. QED BY <1>8 DEF BlockIndex, q

\* What each part of WriteData makes: the first block, in the cache; the full
\* ones, on the container; the last, in the cache.
InHead(c, first, offset, data) ==
    FillBuffer(cacheBlock(c, c.file.blockList[first]), offset % BLOCK_SIZE,
               SubSeq(data, 1, HeadSize(offset, Len(data))))

\* The bytes of the full block k behind the head.
FullBlock(offset, data, k) ==
    [p \in Positions |->
        data[HeadSize(offset, Len(data)) + (k - 1) * BLOCK_SIZE + p + 1]]

MiddleDisk(c, first, offset, data) ==
    LET list == c.file.blockList
        middle == MiddleBlocks(offset, Len(data))
        Last(b) == CHOOSE k \in 1..middle :
                      /\ list[first + k] = b
                      /\ \A l \in (k + 1)..middle : list[first + l] # b
    IN  [b \in Blocks |-> IF \E k \in 1..middle : list[first + k] = b
                          THEN FullBlock(offset, data, Last(b))
                          ELSE InHead(c, first, offset, data).disk[b]]

AtLast(c, first, offset, data) ==
    cacheBlock([file |-> InHead(c, first, offset, data).file,
                disk |-> MiddleDisk(c, first, offset, data)],
               c.file.blockList[first + MiddleBlocks(offset, Len(data)) + 1])

\* The bytes that have been moved when the last block, if there is one, comes.
DoneBeforeLast(offset, n) == HeadSize(offset, n) + MiddleBlocks(offset, n) * BLOCK_SIZE

InLast(c, first, offset, data) ==
    FillBuffer(AtLast(c, first, offset, data), 0,
               SubSeq(data, DoneBeforeLast(offset, Len(data)) + 1, Len(data)))

LEMMA WriteDataParts ==
    ASSUME NEW c, NEW first, NEW offset, NEW data
    PROVE  WriteData(c, first, offset, data) =
               IF DoneBeforeLast(offset, Len(data)) = Len(data)
               THEN [file |-> InHead(c, first, offset, data).file,
                     disk |-> MiddleDisk(c, first, offset, data)]
               ELSE InLast(c, first, offset, data)
BY Zenon DEF WriteData, InHead, FullBlock, MiddleDisk, AtLast, InLast, DoneBeforeLast

\* The blocks of a covered transfer are different ones.
LEMMA CoveredInjective ==
    ASSUME NEW S, NEW c, NEW first, NEW offset, NEW n, Covered(S, c, first, offset, n),
           NEW j \in Nat, j < BlocksTouched(offset, n),
           NEW k \in Nat, k < BlocksTouched(offset, n),
           c.file.blockList[first + j] = c.file.blockList[first + k]
    PROVE  j = k
<1>1. c.file.blockList \in BlockLists /\ first \in Nat
    BY DEF Covered, Guarded, Cache, OpenFile
<1>2. first + j \in 1..Len(c.file.blockList) /\ first + k \in 1..Len(c.file.blockList)
    BY CoveredBlocks
<1>3. first + j = first + k
    BY <1>1, <1>2, BlockListType
<1>4. QED BY <1>1, <1>3

\* A covered transfer touches the blocks of its parts.
LEMMA TouchedBlocks ==
    ASSUME NEW offset \in Nat, NEW n \in Nat \ {0}
    PROVE  /\ MiddleBlocks(offset, n) \in Nat /\ BlocksTouched(offset, n) \in Nat
           /\ \A k \in 0..MiddleBlocks(offset, n) : k < BlocksTouched(offset, n)
           /\ DoneBeforeLast(offset, n) \in Nat /\ DoneBeforeLast(offset, n) <= n
           /\ DoneBeforeLast(offset, n) # n
                => MiddleBlocks(offset, n) + 1 < BlocksTouched(offset, n)
<1>1. /\ HeadSize(offset, n) \in 1..n /\ MiddleBlocks(offset, n) \in Nat
      /\ BlocksTouched(offset, n) \in Nat \ {0}
      /\ HeadSize(offset, n) + MiddleBlocks(offset, n) * BLOCK_SIZE <= n
      /\ IF HeadSize(offset, n) + MiddleBlocks(offset, n) * BLOCK_SIZE = n
         THEN BlocksTouched(offset, n) = MiddleBlocks(offset, n) + 1
         ELSE BlocksTouched(offset, n) = MiddleBlocks(offset, n) + 2
    BY TransferCut
<1>2. MiddleBlocks(offset, n) * BLOCK_SIZE \in Nat
    BY <1>1, TransferAssumption
<1>3. QED BY <1>1, <1>2 DEF DoneBeforeLast

\* A full block holds bytes of the data.
LEMMA FullBlockType ==
    ASSUME NEW offset \in Nat, NEW data \in Seq(Cells), Len(data) # 0,
           NEW k \in 1..MiddleBlocks(offset, Len(data))
    PROVE  FullBlock(offset, data, k) \in BlockData
<1> DEFINE n == Len(data)
           head == HeadSize(offset, n)
           middle == MiddleBlocks(offset, n)
<1>1. n \in Nat \ {0} /\ BLOCK_SIZE \in Nat \ {0}
    BY TransferAssumption
<1>2. head \in 1..n /\ middle \in Nat /\ head + middle * BLOCK_SIZE <= n
    BY <1>1, TransferCut
<1>3. ASSUME NEW p \in Positions
      PROVE  head + (k - 1) * BLOCK_SIZE + p + 1 \in 1..n
    <2>1. p \in Int /\ 0 <= p /\ p + 1 <= BLOCK_SIZE
        BY <1>1, <1>3 DEF Positions
    <2> HIDE DEF head, middle, n
    <2>2. k \in 1..middle
        BY DEF middle, n
    <2>3. (k - 1) * BLOCK_SIZE + BLOCK_SIZE <= middle * BLOCK_SIZE
          /\ (k - 1) * BLOCK_SIZE \in Nat /\ middle * BLOCK_SIZE \in Nat
        BY <1>1, <1>2, <2>2
    <2>4. QED BY <1>1, <1>2, <2>1, <2>3
<1> HIDE DEF head
<1>4. QED BY <1>3 DEF FullBlock, BlockData, head

\* Putting bytes into the first block disturbs no block outside S.
LEMMA InHeadKeeps ==
    ASSUME NEW S, NEW c, NEW first, NEW offset, NEW data \in Seq(Cells),
           Covered(S, c, first, offset, Len(data))
    PROVE  /\ c.file.blockList[first] \in Blocks /\ c.file.blockList[first] \in S
           /\ WritesOnly(S, c, cacheBlock(c, c.file.blockList[first]))
           /\ cacheBlock(c, c.file.blockList[first]).file.blockNo = c.file.blockList[first]
           /\ WritesOnly(S, c, InHead(c, first, offset, data))
           /\ SubSeq(data, 1, HeadSize(offset, Len(data))) \in Seq(Cells)
           /\ Len(SubSeq(data, 1, HeadSize(offset, Len(data)))) = HeadSize(offset, Len(data))
<1> DEFINE n == Len(data)
           b == c.file.blockList[first]
           head == HeadSize(offset, n)
           atHead == cacheBlock(c, b)
           part == SubSeq(data, 1, head)
<1>1. offset \in Nat /\ n \in Nat \ {0} /\ first \in Nat /\ Guarded(S, c)
    BY DEF Covered
<1>2. head \in 1..n /\ offset % BLOCK_SIZE \in Nat /\ BlocksTouched(offset, n) \in Nat \ {0}
    BY <1>1, TransferCut
<1>3. b \in Blocks /\ b \in S
    <2>1. 0 < BlocksTouched(offset, n) /\ first + 0 = first
        BY <1>1, <1>2
    <2>2. c.file.blockList[first + 0] \in Blocks /\ c.file.blockList[first + 0] \in S
        BY <2>1, CoveredBlocks
    <2>3. QED BY <2>1, <2>2
<1>4. WritesOnly(S, c, atHead) /\ atHead.file.blockNo = b
    BY <1>1, <1>3, CacheBlock
<1>5. part \in Seq(Cells) /\ Len(part) = head
    BY <1>1, <1>2
<1> HIDE DEF atHead, part
<1>6. WritesOnly(S, atHead, FillBuffer(atHead, offset % BLOCK_SIZE, part))
    <2>1. Guarded(S, atHead) /\ atHead.file.blockNo \in S
        BY <1>3, <1>4 DEF WritesOnly
    <2>2. QED BY <1>2, <1>5, <2>1, FillBuffers
<1>7. WritesOnly(S, c, FillBuffer(atHead, offset % BLOCK_SIZE, part))
    BY <1>4, <1>6, WritesOnlyTransitive
<1>8. InHead(c, first, offset, data) = FillBuffer(atHead, offset % BLOCK_SIZE, part)
    BY DEF InHead, atHead, part
<1>9. QED BY <1>3, <1>4, <1>5, <1>7, <1>8 DEF atHead, part

\* dk is the container when m of the full blocks have been written.
InMiddle(dk, c, first, offset, data, m) ==
    /\ dk \in Disks
    /\ \A k \in 1..m : dk[c.file.blockList[first + k]] = FullBlock(offset, data, k)
    /\ \A b \in Blocks : (\A k \in 1..m : c.file.blockList[first + k] # b)
                         => dk[b] = InHead(c, first, offset, data).disk[b]

\* There is only one such container.
LEMMA InMiddleUnique ==
    ASSUME NEW c, NEW first, NEW offset, NEW data, NEW m,
           NEW d, InMiddle(d, c, first, offset, data, m),
           NEW e, InMiddle(e, c, first, offset, data, m)
    PROVE  d = e
<1>1. ASSUME NEW b \in Blocks PROVE d[b] = e[b]
    BY DEF InMiddle
<1>2. QED BY <1>1 DEF InMiddle, Disks

\* MiddleDisk is that one: no full block is written over another.
LEMMA MiddleDiskIs ==
    ASSUME NEW S, NEW c, NEW first, NEW offset, NEW data \in Seq(Cells),
           Covered(S, c, first, offset, Len(data))
    PROVE  InMiddle(MiddleDisk(c, first, offset, data), c, first, offset, data,
                    MiddleBlocks(offset, Len(data)))
<1> DEFINE n == Len(data)
           list == c.file.blockList
           middle == MiddleBlocks(offset, n)
           inHead == InHead(c, first, offset, data)
           Is(b, k) == /\ list[first + k] = b
                       /\ \A l \in (k + 1)..middle : list[first + l] # b
           Last(b) == CHOOSE k \in 1..middle : Is(b, k)
           dk == MiddleDisk(c, first, offset, data)
<1>1. offset \in Nat /\ n \in Nat \ {0}
    BY DEF Covered
<1>2. middle \in Nat /\ \A k \in 0..middle : k < BlocksTouched(offset, n)
    BY <1>1, TouchedBlocks
<1>3. \A k \in 1..middle : list[first + k] \in Blocks
    <2>1. ASSUME NEW k \in 1..middle PROVE list[first + k] \in Blocks
        <3>1. k \in Nat /\ k < BlocksTouched(offset, n)
            BY <1>2
        <3>2. QED BY <3>1, CoveredBlocks
    <2>2. QED BY <2>1
<1>4. ASSUME NEW k \in 1..middle PROVE Last(list[first + k]) = k
    <2>1. ASSUME NEW l \in 1..middle, list[first + l] = list[first + k] PROVE l = k
        <3>1. k \in Nat /\ k < BlocksTouched(offset, n)
              /\ l \in Nat /\ l < BlocksTouched(offset, n)
            BY <1>2
        <3>2. QED BY <2>1, <3>1, CoveredInjective
    <2>2. Is(list[first + k], k)
        <3>1. ASSUME NEW l \in (k + 1)..middle, list[first + l] = list[first + k] PROVE FALSE
            <4>1. l \in 1..middle /\ l # k
                BY <1>2
            <4>2. QED BY <2>1, <3>1, <4>1
        <3>2. QED BY <3>1
    <2>3. \A l \in 1..middle : Is(list[first + k], l) => l = k
        BY <2>1
    <2> HIDE DEF Is
    <2>4. QED BY <2>2, <2>3
<1>5. dk = [b \in Blocks |-> IF \E k \in 1..middle : list[first + k] = b
                             THEN FullBlock(offset, data, Last(b)) ELSE inHead.disk[b]]
    BY DEF MiddleDisk
<1>6. inHead.disk \in Disks
    BY InHeadKeeps DEF WritesOnly, Guarded, Cache
<1> HIDE DEF Last, dk, inHead
<1>7. \A k \in 1..middle : dk[list[first + k]] = FullBlock(offset, data, k)
    BY <1>3, <1>4, <1>5
<1>8. \A b \in Blocks : (\A k \in 1..middle : list[first + k] # b) => dk[b] = inHead.disk[b]
    BY <1>5
<1>9. dk \in Disks
    <2>1. ASSUME NEW b \in Blocks PROVE dk[b] \in BlockData
        <3>1. CASE \E k \in 1..middle : list[first + k] = b
            <4>1. PICK k \in 1..middle : list[first + k] = b
                BY <3>1
            <4>2. QED BY <1>1, <1>7, <4>1, FullBlockType
        <3>2. CASE ~\E k \in 1..middle : list[first + k] = b
            BY <1>6, <1>8, <3>2 DEF Disks
        <3>3. QED BY <3>1, <3>2
    <2>2. dk = [b \in Blocks |-> dk[b]]
        BY <1>5
    <2>3. QED BY <2>1, <2>2 DEF Disks
<1>10. QED BY <1>7, <1>8, <1>9 DEF InMiddle, dk, inHead

\* The full blocks and the first are written, no other.
LEMMA MiddleDiskKeeps ==
    ASSUME NEW S, NEW c, NEW first, NEW offset, NEW data \in Seq(Cells),
           Covered(S, c, first, offset, Len(data))
    PROVE  WritesOnly(S, c, [file |-> InHead(c, first, offset, data).file,
                             disk |-> MiddleDisk(c, first, offset, data)])
<1> DEFINE n == Len(data)
           middle == MiddleBlocks(offset, n)
           inHead == InHead(c, first, offset, data)
           dk == MiddleDisk(c, first, offset, data)
<1>1. InMiddle(dk, c, first, offset, data, middle)
    BY MiddleDiskIs
<1>2. WritesOnly(S, c, inHead)
    BY InHeadKeeps
<1>3. \A k \in 1..middle : c.file.blockList[first + k] \in S
    <2>1. ASSUME NEW k \in 1..middle PROVE c.file.blockList[first + k] \in S
        <3>1. offset \in Nat /\ n \in Nat \ {0}
            BY DEF Covered
        <3>2. k \in Nat /\ k < BlocksTouched(offset, n)
            BY <3>1, TouchedBlocks
        <3>3. QED BY <3>2, CoveredBlocks
    <2>2. QED BY <2>1
<1> HIDE DEF dk, inHead, middle
<1>4. dk \in Disks /\ \A b \in Blocks \ S : dk[b] = c.disk[b]
    BY <1>1, <1>2, <1>3 DEF InMiddle, WritesOnly, inHead
<1>5. WritesOnly(S, c, [file |-> inHead.file, disk |-> dk])
    BY <1>2, <1>4 DEF WritesOnly, Guarded, Cache
<1>6. QED BY <1>5 DEF dk, inHead

\* So does the last block.
LEMMA AtLastKeeps ==
    ASSUME NEW S, NEW c, NEW first, NEW offset, NEW data \in Seq(Cells),
           Covered(S, c, first, offset, Len(data)),
           DoneBeforeLast(offset, Len(data)) # Len(data)
    PROVE  LET b == c.file.blockList[first + MiddleBlocks(offset, Len(data)) + 1]
               rest == SubSeq(data, DoneBeforeLast(offset, Len(data)) + 1, Len(data))
           IN  /\ b \in Blocks /\ b \in S
               /\ WritesOnly(S, c, AtLast(c, first, offset, data))
               /\ AtLast(c, first, offset, data).file.blockNo = b
               /\ rest \in Seq(Cells)
               /\ Len(rest) = Len(data) - DoneBeforeLast(offset, Len(data))
               /\ WritesOnly(S, c, InLast(c, first, offset, data))
<1> DEFINE n == Len(data)
           middle == MiddleBlocks(offset, n)
           b == c.file.blockList[first + middle + 1]
           done == DoneBeforeLast(offset, n)
           rest == SubSeq(data, done + 1, n)
           inMiddle == [file |-> InHead(c, first, offset, data).file,
                        disk |-> MiddleDisk(c, first, offset, data)]
           atLast == AtLast(c, first, offset, data)
<1>1. offset \in Nat /\ n \in Nat \ {0} /\ first \in Nat
    BY DEF Covered
<1>2. /\ middle \in Nat /\ middle + 1 < BlocksTouched(offset, n)
      /\ done \in Nat /\ done <= n
    BY <1>1, TouchedBlocks
<1>3. b \in Blocks /\ b \in S
    <2>1. middle + 1 \in Nat /\ first + (middle + 1) = first + middle + 1
        BY <1>1, <1>2
    <2>2. c.file.blockList[first + (middle + 1)] \in Blocks
          /\ c.file.blockList[first + (middle + 1)] \in S
        BY <1>2, <2>1, CoveredBlocks
    <2>3. QED BY <2>1, <2>2
<1>4. WritesOnly(S, c, inMiddle)
    BY MiddleDiskKeeps
<1>5. atLast = cacheBlock(inMiddle, b)
    BY DEF AtLast
<1>6. rest \in Seq(Cells) /\ Len(rest) = n - done
    BY <1>1, <1>2
<1> HIDE DEF inMiddle, atLast, b, rest, done, middle
<1>7. WritesOnly(S, inMiddle, atLast) /\ atLast.file.blockNo = b
    BY <1>3, <1>4, <1>5, CacheBlock DEF WritesOnly
<1>8. WritesOnly(S, c, atLast)
    BY <1>4, <1>7, WritesOnlyTransitive
<1>9. WritesOnly(S, atLast, FillBuffer(atLast, 0, rest))
    BY <1>3, <1>6, <1>7, FillBuffers DEF WritesOnly
<1>10. WritesOnly(S, c, FillBuffer(atLast, 0, rest))
    BY <1>8, <1>9, WritesOnlyTransitive
<1>11. InLast(c, first, offset, data) = FillBuffer(atLast, 0, rest)
    BY DEF InLast, atLast, rest, done
<1>12. QED BY <1>3, <1>6, <1>7, <1>8, <1>10, <1>11 DEF b, rest, atLast, done, middle

\* fuseWrite leaves the handle what it is and writes to no other block.
THEOREM WriteDataStaysInList ==
    ASSUME NEW S, NEW c, NEW first, NEW offset, NEW data \in Seq(Cells),
           Covered(S, c, first, offset, Len(data))
    PROVE  WritesOnly(S, c, WriteData(c, first, offset, data))
<1>1. CASE DoneBeforeLast(offset, Len(data)) = Len(data)
    BY <1>1, MiddleDiskKeeps, WriteDataParts
<1>2. CASE DoneBeforeLast(offset, Len(data)) # Len(data)
    BY <1>2, AtLastKeeps, WriteDataParts
<1>3. QED BY <1>1, <1>2

\* fuseRead leaves the handle what it is, writes back nothing but the block
\* that waited in its cache, and returns as many bytes as it was asked for.
THEOREM ReadDataStaysInList ==
    ASSUME NEW S, NEW c, NEW first, NEW offset, NEW n,
           Covered(S, c, first, offset, n)
    PROVE  /\ WritesOnly(S, c, ReadData(c, first, offset, n).cache)
           /\ ReadData(c, first, offset, n).data \in Seq(Cells)
           /\ Len(ReadData(c, first, offset, n).data) = n
<1> DEFINE list == c.file.blockList
           touched == BlocksTouched(offset, n)
           middle == MiddleBlocks(offset, n)
           atHead == cacheBlock(c, list[first])
           atLast == IF touched = 1 THEN atHead
                     ELSE cacheBlock(atHead, list[first + middle + 1])
           K(at) == at \div BLOCK_SIZE - offset \div BLOCK_SIZE
           Cell(at) ==
               LET k == at \div BLOCK_SIZE - offset \div BLOCK_SIZE
                   p == at % BLOCK_SIZE
               IN  IF k = 0 THEN atHead.file.buffer[p]
                   ELSE IF k <= middle THEN atHead.disk[list[first + k]][p]
                   ELSE atLast.file.buffer[p]
           data == [j \in 1..n |-> Cell(offset + j - 1)]
<1>1. /\ offset \in Nat /\ n \in Nat \ {0} /\ first \in Nat \ {0}
      /\ Guarded(S, c) /\ BLOCK_SIZE \in Nat \ {0}
    BY TransferAssumption DEF Covered
<1>2. /\ middle \in Nat /\ touched \in Nat \ {0} /\ middle < touched
      /\ touched = 1 \/ touched = middle + 2
    <2>1. BlocksTouched(offset, n) = 1 \/ BlocksTouched(offset, n) = middle + 2
        BY DEF BlocksTouched
    <2>2. /\ MiddleBlocks(offset, n) \in Nat /\ BlocksTouched(offset, n) \in Nat \ {0}
          /\ \/ BlocksTouched(offset, n) = MiddleBlocks(offset, n) + 1
             \/ BlocksTouched(offset, n) = MiddleBlocks(offset, n) + 2
        BY <1>1, TransferCut
    <2>3. QED BY <2>1, <2>2
<1>3. \A k \in Nat : k < touched => list[first + k] \in Blocks
    BY CoveredBlocks
<1>4. WritesOnly(S, c, atHead)
    <2>1. list[first] \in Blocks
        <3>1. 0 < touched /\ first + 0 = first
            BY <1>1, <1>2
        <3>2. QED BY <1>3, <3>1
    <2>2. QED BY <1>1, <2>1, CacheBlock
<1>5. WritesOnly(S, c, atLast)
    <2>1. CASE touched = 1
        BY <1>4, <2>1
    <2>2. CASE touched # 1
        <3>1. list[first + middle + 1] \in Blocks
            <4>1. middle + 1 \in Nat /\ middle + 1 < touched
                  /\ first + (middle + 1) = first + middle + 1
                BY <1>1, <1>2, <2>2
            <4>2. QED BY <1>3, <4>1
        <3>2. Guarded(S, atHead)
            BY <1>4 DEF WritesOnly
        <3> HIDE DEF atHead
        <3>3. WritesOnly(S, atHead, cacheBlock(atHead, list[first + middle + 1]))
            BY <3>1, <3>2, CacheBlock
        <3>4. QED BY <1>4, <2>2, <3>3, WritesOnlyTransitive
    <2>3. QED BY <2>1, <2>2
<1>6. ASSUME NEW j \in 1..n PROVE Cell(offset + j - 1) \in Cells
    <2> DEFINE at == offset + j - 1
               k == at \div BLOCK_SIZE - offset \div BLOCK_SIZE
               p == at % BLOCK_SIZE
    <2>1. at \in Nat /\ offset <= at
        BY <1>1
    <2>2. p \in Positions
        <3>1. p \in Nat /\ p < BLOCK_SIZE
            BY <1>1, <2>1, DivMod
        <3>2. QED BY <1>1, <3>1 DEF Positions
    <2>3. k \in Nat
        <3>1. /\ at \div BLOCK_SIZE \in Nat /\ offset \div BLOCK_SIZE \in Nat
              /\ offset \div BLOCK_SIZE <= at \div BLOCK_SIZE
            <4>1. at \in Nat /\ offset \in Nat /\ offset <= at /\ BLOCK_SIZE \in Nat \ {0}
                BY <1>1, <2>1
            <4> HIDE DEF at
            <4>2. at \div BLOCK_SIZE \in Nat /\ offset \div BLOCK_SIZE \in Nat
                BY <4>1, DivMod
            <4>3. offset \div BLOCK_SIZE <= at \div BLOCK_SIZE
                BY <4>1, DivMonotonic, Zenon
            <4>4. QED BY <4>2, <4>3
        <3>2. QED BY <3>1
    <2>4. /\ atHead.file.buffer \in BlockData /\ atLast.file.buffer \in BlockData
          /\ atHead.disk \in Disks
        BY <1>4, <1>5 DEF WritesOnly, Guarded, Cache, OpenFile
    <2> HIDE DEF at, atHead, atLast
    <2>5. k <= middle => atHead.disk[list[first + k]] \in BlockData
        <3>1. k <= middle => list[first + k] \in Blocks
            BY <1>2, <1>3, <2>3
        <3>2. QED BY <2>4, <3>1 DEF Disks
    <2> HIDE DEF k, p
    <2>6. (IF k = 0 THEN atHead.file.buffer[p]
           ELSE IF k <= middle THEN atHead.disk[list[first + k]][p]
           ELSE atLast.file.buffer[p]) \in Cells
        BY <2>2, <2>4, <2>5 DEF BlockData
    <2>7. QED BY <2>6 DEF k, p, at
<1>7. ReadData(c, first, offset, n) = [cache |-> atLast, data |-> data]
    BY DEF ReadData
<1> HIDE DEF Cell
<1>8. data \in Seq(Cells) /\ Len(data) = n
    <2>1. data \in [1..n -> Cells]
        BY <1>6
    <2>2. QED BY <1>1, <2>1
<1> HIDE DEF data, atLast
<1>9. QED BY <1>5, <1>7, <1>8

-----------------------------------------------------------------------------
(* The bytes of a file, as its handle finds them.                          *)

\* Block b, as the handle would see it: in the cache, or on the container.
FoundIn(c, b) == IF c.file.blockNo = b THEN c.file.buffer ELSE c.disk[b]

\* Byte `at` of the file.
ByteOf(c, at) == FoundIn(c, c.file.blockList[(at \div BLOCK_SIZE) + 1])[at % BLOCK_SIZE]

\* A buffer that does not wait to be written is the block it stands for.
InStep(c, b) == c.file.blockNo = b /\ ~c.file.dirty => c.file.buffer = c.disk[b]

\* Moving the cache to another block loses nothing of the one it held.
LEMMA CacheShows ==
    ASSUME NEW S, NEW c, Guarded(S, c), NEW b \in Blocks, NEW e \in Blocks,
           e = b \/ InStep(c, e)
    PROVE  /\ FoundIn(cacheBlock(c, b), e) = FoundIn(c, e)
           /\ InStep(c, e) => InStep(cacheBlock(c, b), e)
<1>1. CASE c.file.blockNo = b
    BY <1>1 DEF cacheBlock
<1>2. CASE c.file.blockNo # b
    <2> DEFINE clean == flushCache(c)
               f == [clean.file EXCEPT !.blockNo = b, !.buffer = clean.disk[b]]
    <2>1. c.file \in OpenFile /\ c.disk \in Disks
        BY DEF Guarded, Cache
    <2>2. clean.file \in OpenFile /\ clean.disk \in Disks
        BY FlushCache DEF WritesOnly, Guarded, Cache
    <2>3. /\ e # c.file.blockNo => clean.disk[e] = c.disk[e]
          /\ e = c.file.blockNo => clean.disk[e] = IF c.file.dirty THEN c.file.buffer
                                                   ELSE c.disk[e]
        BY <2>1 DEF flushCache, Disks
    <2> HIDE DEF clean
    <2>4. f.blockNo = b /\ f.buffer = clean.disk[b]
        BY <2>2 DEF OpenFile
    <2>5. cacheBlock(c, b) = [file |-> f, disk |-> clean.disk]
        BY <1>2 DEF cacheBlock, clean
    <2> HIDE DEF f
    <2>6. FoundIn(cacheBlock(c, b), e) = clean.disk[e]
        BY <2>4, <2>5 DEF FoundIn
    <2>7. clean.disk[e] = FoundIn(c, e)
        BY <1>2, <2>3 DEF FoundIn, InStep
    <2>8. InStep(cacheBlock(c, b), e)
        BY <2>4, <2>5 DEF InStep
    <2>9. QED BY <2>6, <2>7, <2>8
<1>3. QED BY <1>1, <1>2

\* Filling the buffer changes the block it stands for and no other.
LEMMA FillShows ==
    ASSUME NEW S, NEW c, Guarded(S, c), NEW at, NEW part, NEW e
    PROVE  /\ FoundIn(FillBuffer(c, at, part), e) =
                IF e = c.file.blockNo
                THEN [p \in Positions |-> IF p >= at /\ p < at + Len(part)
                                          THEN part[p - at + 1] ELSE FoundIn(c, e)[p]]
                ELSE FoundIn(c, e)
           /\ InStep(c, e) => InStep(FillBuffer(c, at, part), e)
<1> DEFINE bytes == [p \in Positions |->
                       IF p >= at /\ p < at + Len(part) THEN part[p - at + 1]
                                                        ELSE c.file.buffer[p]]
           f == [c.file EXCEPT !.buffer = bytes, !.dirty = TRUE]
<1>1. c.file \in OpenFile
    BY DEF Guarded, Cache
<1>2. FillBuffer(c, at, part) = [file |-> f, disk |-> c.disk]
    BY DEF FillBuffer
<1>3. e = c.file.blockNo =>
        bytes = [p \in Positions |-> IF p >= at /\ p < at + Len(part)
                                     THEN part[p - at + 1] ELSE FoundIn(c, e)[p]]
    BY DEF FoundIn
<1> HIDE DEF bytes
<1>4. f.buffer = bytes /\ f.blockNo = c.file.blockNo /\ f.dirty
    BY <1>1 DEF OpenFile
<1> HIDE DEF f
<1>5. QED BY <1>2, <1>3, <1>4 DEF FoundIn, InStep

\* What a write leaves in each block, seen through its handle.
LEMMA WriteDataFound ==
    ASSUME NEW S, NEW c, NEW first, NEW offset, NEW data \in Seq(Cells),
           Covered(S, c, first, offset, Len(data))
    PROVE  LET n == Len(data)
               r == offset % BLOCK_SIZE
               head == HeadSize(offset, n)
               middle == MiddleBlocks(offset, n)
               done == DoneBeforeLast(offset, n)
               list == c.file.blockList
               d == WriteData(c, first, offset, data)
           IN  /\ \A p \in Positions :
                     FoundIn(d, list[first])[p] =
                        IF p >= r /\ p < r + head THEN data[p - r + 1]
                        ELSE FoundIn(c, list[first])[p]
               /\ \A k \in 1..middle : FoundIn(d, list[first + k]) = FullBlock(offset, data, k)
               /\ done # n =>
                    \A p \in Positions :
                       /\ p < n - done =>
                            FoundIn(d, list[first + middle + 1])[p] = data[done + p + 1]
                       /\ p >= n - done /\ InStep(c, list[first + middle + 1]) =>
                            FoundIn(d, list[first + middle + 1])[p]
                              = FoundIn(c, list[first + middle + 1])[p]
               /\ \A e \in Blocks :
                     (\A k \in Nat : k < BlocksTouched(offset, n) => list[first + k] # e)
                     /\ InStep(c, e) => FoundIn(d, e) = FoundIn(c, e)
<1> DEFINE n == Len(data)
           r == offset % BLOCK_SIZE
           head == HeadSize(offset, n)
           middle == MiddleBlocks(offset, n)
           done == DoneBeforeLast(offset, n)
           list == c.file.blockList
           b == list[first]
           z == list[first + middle + 1]
           touched == BlocksTouched(offset, n)
           atHead == cacheBlock(c, b)
           headPart == SubSeq(data, 1, head)
           inHead == InHead(c, first, offset, data)
           dk == MiddleDisk(c, first, offset, data)
           inMiddle == [file |-> inHead.file, disk |-> dk]
           atLast == AtLast(c, first, offset, data)
           lastPart == SubSeq(data, done + 1, n)
           d == WriteData(c, first, offset, data)
<1>1. offset \in Nat /\ n \in Nat \ {0} /\ first \in Nat /\ Guarded(S, c)
    BY DEF Covered
<1>2. /\ middle \in Nat /\ touched \in Nat /\ done \in Nat /\ done <= n
      /\ \A k \in 0..middle : k < touched
      /\ done # n => middle + 1 < touched
    BY <1>1, TouchedBlocks
<1>3. head \in 1..n /\ r \in Nat
    BY <1>1, TransferCut
<1>4. /\ b \in Blocks /\ WritesOnly(S, c, atHead) /\ atHead.file.blockNo = b
      /\ WritesOnly(S, c, inHead) /\ Len(headPart) = head
    BY InHeadKeeps
<1>5. inHead = FillBuffer(atHead, r, headPart)
    BY DEF InHead
<1>6. \A k \in 1..middle : list[first + k] \in Blocks /\ list[first + k] # b
    <2>1. ASSUME NEW k \in 1..middle PROVE list[first + k] \in Blocks /\ list[first + k] # b
        <3>1. k \in Nat /\ k < touched /\ 0 < touched /\ first + 0 = first /\ k # 0
            BY <1>1, <1>2
        <3>2. list[first + k] \in Blocks
            BY <3>1, CoveredBlocks
        <3>3. list[first + 0] = list[first + k] => 0 = k
            BY <3>1, CoveredInjective
        <3>4. QED BY <3>1, <3>2, <3>3
    <2>2. QED BY <2>1
<1>7. done # n => /\ z \in Blocks /\ z # b
                  /\ \A k \in 1..middle : list[first + k] # z
    <2> SUFFICES ASSUME done # n
                 PROVE  /\ z \in Blocks /\ z # b
                        /\ \A k \in 1..middle : list[first + k] # z
        OBVIOUS
    <2>1. middle + 1 \in Nat /\ middle + 1 < touched /\ first + (middle + 1) = first + middle + 1
          /\ 0 < touched /\ first + 0 = first
        BY <1>1, <1>2
    <2>2. list[first + (middle + 1)] \in Blocks
        BY <2>1, CoveredBlocks
    <2>3. ASSUME NEW k \in Nat, k < middle + 1 PROVE list[first + k] # list[first + (middle + 1)]
        <3>1. k < touched /\ k # middle + 1
            BY <1>2, <2>1, <2>3
        <3>2. QED BY <2>1, <2>3, <3>1, CoveredInjective
    <2>4. \A k \in 1..middle : k \in Nat /\ k < middle + 1
        BY <1>2
    <2>5. 0 < middle + 1
        BY <1>2
    <2>6. QED BY <2>1, <2>2, <2>3, <2>4, <2>5
<1>8. InMiddle(dk, c, first, offset, data, middle)
    BY MiddleDiskIs
<1>9. WritesOnly(S, c, inMiddle)
    BY MiddleDiskKeeps
<1>10. done # n => /\ WritesOnly(S, c, atLast) /\ atLast.file.blockNo = z
                   /\ atLast = cacheBlock(inMiddle, z)
                   /\ d = FillBuffer(atLast, 0, lastPart) /\ Len(lastPart) = n - done
    BY AtLastKeeps, WriteDataParts DEF InLast, AtLast
<1>11. done = n => d = inMiddle
    BY WriteDataParts
<1> HIDE DEF atHead, headPart, inHead, dk, atLast, d, b, z
\* The first block.
<1>12. \A e \in Blocks \ {b} : InStep(c, e) => FoundIn(inHead, e) = FoundIn(c, e)
    <2>1. ASSUME NEW e \in Blocks \ {b}, InStep(c, e) PROVE FoundIn(inHead, e) = FoundIn(c, e)
        <3>1. FoundIn(atHead, e) = FoundIn(c, e)
            BY <1>1, <1>4, <2>1, CacheShows DEF atHead
        <3>2. FoundIn(inHead, e) = FoundIn(atHead, e)
            BY <1>4, <1>5, <2>1, FillShows DEF WritesOnly
        <3>3. QED BY <3>1, <3>2
    <2>2. QED BY <2>1
<1>13. \A p \in Positions :
          FoundIn(inHead, b)[p] = IF p >= r /\ p < r + head THEN data[p - r + 1]
                                  ELSE FoundIn(c, b)[p]
    <2>1. FoundIn(atHead, b) = FoundIn(c, b)
        BY <1>1, <1>4, CacheShows DEF atHead
    <2>2. Guarded(S, atHead)
        BY <1>4 DEF WritesOnly
    <2>3. FoundIn(inHead, b) =
              [p \in Positions |-> IF p >= r /\ p < r + Len(headPart)
                                   THEN headPart[p - r + 1] ELSE FoundIn(atHead, b)[p]]
        BY <1>4, <1>5, <2>2, FillShows
    <2>4. ASSUME NEW p \in Positions, p >= r, p < r + head
          PROVE  headPart[p - r + 1] = data[p - r + 1]
        <3>1. p - r + 1 \in 1..head /\ head <= n
            BY <1>3, <2>4, TransferAssumption DEF Positions
        <3> DEFINE i == p - r + 1
        <3>2. i \in 1..head /\ head \in Nat /\ head <= n
            BY <1>3, <3>1
        <3> HIDE DEF head, r, i
        <3>3. headPart[i] = data[i]
            BY <1>1, <3>2 DEF headPart
        <3>4. QED BY <3>3 DEF i
    <2>5. QED BY <1>4, <2>1, <2>3, <2>4
<1>14. inHead.file.blockNo = b /\ inHead.file.dirty
    <2>1. atHead.file \in OpenFile
        BY <1>4 DEF WritesOnly, Guarded, Cache
    <2>2. QED BY <1>4, <1>5, <2>1 DEF FillBuffer, OpenFile
\* The full blocks.
<1>15. \A e \in Blocks : FoundIn(inMiddle, e) = IF e = b THEN FoundIn(inHead, e) ELSE dk[e]
    BY <1>14 DEF FoundIn
<1>16. \A e \in Blocks : (\A k \in 1..middle : list[first + k] # e)
                         => FoundIn(inMiddle, e) = FoundIn(inHead, e)
    BY <1>8, <1>14, <1>15 DEF InMiddle, FoundIn, inHead
<1>17. \A k \in 1..middle : FoundIn(inMiddle, list[first + k]) = FullBlock(offset, data, k)
    BY <1>6, <1>8, <1>15 DEF InMiddle
\* The last block.
<1>18. \A e \in Blocks : InStep(inMiddle, e)
    BY <1>14 DEF InStep
<1> HIDE DEF inMiddle
<1>19. \A e \in Blocks : (done = n \/ e # z) => FoundIn(d, e) = FoundIn(inMiddle, e)
    <2>1. CASE done = n
        BY <1>11, <2>1
    <2>2. ASSUME done # n, NEW e \in Blocks, e # z PROVE FoundIn(d, e) = FoundIn(inMiddle, e)
        <3>1. Guarded(S, inMiddle) /\ Guarded(S, atLast)
            BY <1>9, <1>10, <2>2 DEF WritesOnly
        <3>2. FoundIn(atLast, e) = FoundIn(inMiddle, e)
            BY <1>7, <1>10, <1>18, <2>2, <3>1, CacheShows
        <3>3. FoundIn(d, e) = FoundIn(atLast, e)
            BY <1>10, <2>2, <3>1, FillShows
        <3>4. QED BY <3>2, <3>3
    <2>3. QED BY <2>1, <2>2
<1>20. done # n => \A p \in Positions :
                      FoundIn(d, z)[p] = IF p < n - done THEN data[done + p + 1]
                                         ELSE FoundIn(inHead, z)[p]
    <2> SUFFICES ASSUME done # n, NEW p \in Positions
                 PROVE  FoundIn(d, z)[p] = IF p < n - done THEN data[done + p + 1]
                                           ELSE FoundIn(inHead, z)[p]
        OBVIOUS
    <2>1. Guarded(S, inMiddle) /\ Guarded(S, atLast)
        BY <1>9, <1>10 DEF WritesOnly
    <2>2. FoundIn(atLast, z) = FoundIn(inHead, z)
        <3>1. FoundIn(atLast, z) = FoundIn(inMiddle, z)
            BY <1>7, <1>10, <2>1, CacheShows
        <3>2. FoundIn(inMiddle, z) = FoundIn(inHead, z)
            BY <1>7, <1>16
        <3>3. QED BY <3>1, <3>2
    <2>3. FoundIn(d, z) =
              [x \in Positions |-> IF x >= 0 /\ x < 0 + Len(lastPart)
                                   THEN lastPart[x - 0 + 1] ELSE FoundIn(atLast, z)[x]]
        <3> HIDE DEF lastPart
        <3>1. d = FillBuffer(atLast, 0, lastPart) /\ z = atLast.file.blockNo
            BY <1>10
        <3>2. QED BY <2>1, <3>1, FillShows
    <2>4. p \in Nat
        BY TransferAssumption DEF Positions
    <2> DEFINE G == FoundIn(atLast, z)
    <2>5. p < n - done => lastPart[p + 1] = data[done + p + 1]
        <3>1. p < n - done => p + 1 \in 1..(n - done)
            BY <1>1, <1>2, <2>4
        <3>2. QED BY <1>1, <1>2, <2>4, <3>1, SMTT(30)
    <2>6. p >= 0 /\ p - 0 + 1 = p + 1 /\ 0 + (n - done) = n - done
        BY <1>1, <1>2, <2>4
    <2> HIDE DEF lastPart, done, n
    <2>7. QED BY <1>10, <2>2, <2>3, <2>5, <2>6
\* Together.
<1>21. \A p \in Positions :
          FoundIn(d, b)[p] = IF p >= r /\ p < r + head THEN data[p - r + 1]
                             ELSE FoundIn(c, b)[p]
    BY <1>4, <1>6, <1>7, <1>13, <1>16, <1>19
<1>22. \A k \in 1..middle : FoundIn(d, list[first + k]) = FullBlock(offset, data, k)
    BY <1>6, <1>7, <1>17, <1>19
<1>23. done # n => \A p \in Positions : p >= n - done /\ InStep(c, z)
                                        => FoundIn(d, z)[p] = FoundIn(c, z)[p]
    <2>1. done # n /\ InStep(c, z) => FoundIn(inHead, z) = FoundIn(c, z)
        BY <1>7, <1>12
    <2>2. \A p \in Positions : p >= n - done => ~(p < n - done)
        BY <1>1, <1>2, TransferAssumption DEF Positions
    <2>3. QED BY <1>20, <2>1, <2>2
<1>24. \A e \in Blocks :
          (\A k \in Nat : k < touched => list[first + k] # e) /\ InStep(c, e)
          => FoundIn(d, e) = FoundIn(c, e)
    <2>1. ASSUME NEW e \in Blocks, \A k \in Nat : k < touched => list[first + k] # e,
                 InStep(c, e)
          PROVE  FoundIn(d, e) = FoundIn(c, e)
        <3>1. \A k \in 0..middle : list[first + k] # e
            BY <1>2, <2>1
        <3>2. first + 0 = first /\ 0 \in 0..middle /\ \A k \in 1..middle : k \in 0..middle
            BY <1>1, <1>2
        <3>3. e # b /\ \A k \in 1..middle : list[first + k] # e
            BY <3>1, <3>2 DEF b
        <3>4. done # n => e # z
            <4>1. middle + 1 \in Nat /\ first + (middle + 1) = first + middle + 1
                BY <1>1, <1>2
            <4>2. QED BY <1>2, <2>1, <4>1 DEF z
        <3>5. QED BY <1>12, <1>16, <1>19, <2>1, <3>3, <3>4
    <2>2. QED BY <2>1
<1>25. QED BY <1>20, <1>21, <1>22, <1>23, <1>24 DEF b, z, d

\* A position has one quotient and one remainder.
LEMMA SamePosition ==
    ASSUME NEW x \in Nat, NEW y \in Nat, x \div BLOCK_SIZE = y \div BLOCK_SIZE,
           x % BLOCK_SIZE = y % BLOCK_SIZE
    PROVE  x = y
<1>1. /\ x = BLOCK_SIZE * (x \div BLOCK_SIZE) + (x % BLOCK_SIZE)
      /\ y = BLOCK_SIZE * (y \div BLOCK_SIZE) + (y % BLOCK_SIZE)
    BY TransferAssumption, DivMod
<1>2. QED BY <1>1, Zenon

\* Moving the cache to another block writes what waited in it and no more.
LEMMA CacheCleans ==
    ASSUME NEW c \in Cache, NEW b
    PROVE  \/ cacheBlock(c, b) = c
           \/ /\ ~cacheBlock(c, b).file.dirty
              /\ cacheBlock(c, b).disk = flushCache(c).disk
<1>1. c.file \in OpenFile
    BY DEF Cache
<1>2. flushCache(c).file \in [isFree : BOOLEAN, dirty : {FALSE}, blockNo : Links,
                              buffer : BlockData, blockList : BlockLists]
    BY <1>1 DEF flushCache, OpenFile
<1> DEFINE clean == flushCache(c)
<1>3. clean = flushCache(c)
    OBVIOUS
<1> HIDE DEF clean
<1>4. cacheBlock(c, b) = IF c.file.blockNo = b THEN c
                         ELSE [file |-> [clean.file EXCEPT !.blockNo = b,
                                                           !.buffer = clean.disk[b]],
                               disk |-> clean.disk]
    BY DEF cacheBlock, clean
<1> DEFINE moved == [clean.file EXCEPT !.blockNo = b, !.buffer = clean.disk[b]]
<1>5. ~moved.dirty
    BY <1>2, <1>3
<1> HIDE DEF moved
<1>6. cacheBlock(c, b) = IF c.file.blockNo = b THEN c
                         ELSE [file |-> moved, disk |-> clean.disk]
    BY <1>4 DEF moved
<1>7. QED BY <1>3, <1>5, <1>6

\* So does a read.
LEMMA ReadDataCleans ==
    ASSUME NEW S, NEW c, NEW first, NEW offset, NEW n, Covered(S, c, first, offset, n)
    PROVE  LET d == ReadData(c, first, offset, n).cache
           IN  d = c \/ (~d.file.dirty /\ d.disk = flushCache(c).disk)
<1> DEFINE list == c.file.blockList
           atHead == cacheBlock(c, list[first])
           last == list[first + MiddleBlocks(offset, n) + 1]
           d == ReadData(c, first, offset, n).cache
<1>1. d = atHead \/ d = cacheBlock(atHead, last)
    BY DEF ReadData
<1>2. c \in Cache
    BY DEF Covered, Guarded
<1>3. atHead = c \/ (~atHead.file.dirty /\ atHead.disk = flushCache(c).disk)
    BY <1>2, CacheCleans
<1>4. atHead \in Cache
    <2>1. list[first] \in Blocks
        <3>1. first \in Nat /\ BlocksTouched(offset, n) \in Nat \ {0}
            BY TransferCut DEF Covered
        <3>2. 0 \in Nat /\ 0 < BlocksTouched(offset, n) /\ first + 0 = first
            BY <3>1
        <3> HIDE DEF atHead, last, d
        <3>3. list[first + 0] \in Blocks
            BY <3>2, CoveredBlocks
        <3>4. QED BY <3>2, <3>3
    <2>2. QED BY <2>1, CacheBlock DEF Covered, WritesOnly, Guarded
<1> HIDE DEF d, atHead
<1>5. \/ cacheBlock(atHead, last) = atHead
      \/ /\ ~cacheBlock(atHead, last).file.dirty
         /\ cacheBlock(atHead, last).disk = flushCache(atHead).disk
    BY <1>4, CacheCleans
<1>6. ~atHead.file.dirty => flushCache(atHead) = atHead
    BY DEF flushCache
<1>7. d = c \/ (~d.file.dirty /\ d.disk = flushCache(c).disk)
    BY <1>1, <1>3, <1>5, <1>6
<1>8. QED BY <1>7 DEF d

\* A flush leaves the buffer in step, and so does a read.
LEMMA FlushShows ==
    ASSUME NEW c \in Cache, NEW e \in Blocks, InStep(c, e)
    PROVE  InStep(flushCache(c), e)
<1>1. CASE c.file.dirty
    <2> DEFINE clean == [c.file EXCEPT !.dirty = FALSE]
               dk == [c.disk EXCEPT ![c.file.blockNo] = c.file.buffer]
    <2>1. flushCache(c) = [file |-> clean, disk |-> dk]
        BY <1>1 DEF flushCache
    <2>2. clean.blockNo = c.file.blockNo /\ clean.buffer = c.file.buffer
        OBVIOUS
    <2>3. c.file.blockNo = e => dk[e] = c.file.buffer
        BY DEF Cache, Disks
    <2> HIDE DEF clean, dk
    <2>4. QED BY <2>1, <2>2, <2>3 DEF InStep
<1>2. CASE ~c.file.dirty
    BY <1>2 DEF flushCache
<1>3. QED BY <1>1, <1>2

LEMMA ReadDataShows ==
    ASSUME NEW S, NEW c, NEW first, NEW offset, NEW n, Covered(S, c, first, offset, n),
           NEW e \in Blocks, InStep(c, e)
    PROVE  InStep(ReadData(c, first, offset, n).cache, e)
<1> DEFINE b == c.file.blockList[first]
           last == c.file.blockList[first + MiddleBlocks(offset, n) + 1]
           atHead == cacheBlock(c, b)
<1>1. ReadData(c, first, offset, n).cache =
          IF BlocksTouched(offset, n) = 1 THEN atHead ELSE cacheBlock(atHead, last)
    BY DEF ReadData
<1>2. /\ offset \in Nat /\ n \in Nat \ {0} /\ Guarded(S, c)
    BY DEF Covered
<1>3. b \in Blocks
    <2>1. BlocksTouched(offset, n) \in Nat \ {0}
        BY <1>2, TransferCut
    <2>2. 0 < BlocksTouched(offset, n)
        BY <2>1
    <2>3. c.file.blockList[first + 0] \in Blocks
        BY <2>2, CoveredBlocks
    <2>4. first + 0 = first
        BY DEF Covered
    <2>5. QED BY <2>3, <2>4
<1> HIDE DEF b
<1>4. WritesOnly(S, c, atHead) /\ InStep(atHead, e)
    BY <1>2, <1>3, CacheBlock, CacheShows
<1>5. Guarded(S, atHead)
    BY <1>4 DEF WritesOnly
<1>6. CASE BlocksTouched(offset, n) = 1
    BY <1>1, <1>4, <1>6
<1>7. CASE BlocksTouched(offset, n) # 1
    <2>1. /\ MiddleBlocks(offset, n) + 1 < BlocksTouched(offset, n)
          /\ MiddleBlocks(offset, n) \in Nat
        BY <1>2, <1>7, TransferCut DEF BlocksTouched
    <2>2. c.file.blockList[first + (MiddleBlocks(offset, n) + 1)] \in Blocks
        BY <2>1, CoveredBlocks
    <2>3. first + (MiddleBlocks(offset, n) + 1) = first + MiddleBlocks(offset, n) + 1
        BY <2>1 DEF Covered
    <2>4. last \in Blocks
        BY <2>2, <2>3
    <2> HIDE DEF last, atHead
    <2>5. InStep(cacheBlock(atHead, last), e)
        BY <1>4, <1>5, <2>4, CacheShows
    <2>6. QED BY <1>1, <1>7, <2>5
<1>8. QED BY <1>6, <1>7

\* After a write the block it ended in waits in the cache.
LEMMA WriteDataWaits ==
    ASSUME NEW S, NEW c, NEW first, NEW offset, NEW data \in Seq(Cells),
           Covered(S, c, first, offset, Len(data))
    PROVE  WriteData(c, first, offset, data).file.dirty
<1>1. ASSUME NEW d, d.file \in OpenFile, NEW at, NEW part
      PROVE  FillBuffer(d, at, part).file.dirty
    BY <1>1 DEF FillBuffer, OpenFile
<1>2. InHead(c, first, offset, data).file.dirty
    <2> DEFINE d == cacheBlock(c, c.file.blockList[first])
    <2>1. d.file \in OpenFile
        BY InHeadKeeps DEF WritesOnly, Guarded, Cache
    <2>2. InHead(c, first, offset, data)
            = FillBuffer(d, offset % BLOCK_SIZE, SubSeq(data, 1, HeadSize(offset, Len(data))))
        BY DEF InHead
    <2> HIDE DEF d
    <2>3. QED BY <1>1, <2>1, <2>2
<1>3. ASSUME DoneBeforeLast(offset, Len(data)) # Len(data)
      PROVE  InLast(c, first, offset, data).file.dirty
    <2>1. AtLast(c, first, offset, data).file \in OpenFile
        BY <1>3, AtLastKeeps DEF WritesOnly, Guarded, Cache
    <2>2. QED BY <1>1, <2>1 DEF InLast
<1>4. QED BY <1>2, <1>3, WriteDataParts

\* The list of a handle does not change while bytes are moved.
LEMMA WriteDataList ==
    ASSUME NEW S, NEW c, NEW first, NEW offset, NEW data \in Seq(Cells),
           Covered(S, c, first, offset, Len(data))
    PROVE  WriteData(c, first, offset, data).file.blockList = c.file.blockList
BY WriteDataStaysInList DEF WritesOnly

\* The bytes of a write are in the file, each where it belongs: not lost when
\* the cache moves on, nor written over by another block of the same write.
THEOREM WriteDataPuts ==
    ASSUME NEW S, NEW c, NEW offset, NEW data \in Seq(Cells),
           Covered(S, c, (offset \div BLOCK_SIZE) + 1, offset, Len(data)),
           NEW k \in 1..Len(data)
    PROVE  ByteOf(WriteData(c, (offset \div BLOCK_SIZE) + 1, offset, data), offset + k - 1)
             = data[k]
<1> DEFINE n == Len(data)
           q == offset \div BLOCK_SIZE
           r == offset % BLOCK_SIZE
           first == q + 1
           head == HeadSize(offset, n)
           middle == MiddleBlocks(offset, n)
           done == DoneBeforeLast(offset, n)
           list == c.file.blockList
           d == WriteData(c, first, offset, data)
           at == offset + k - 1
<1>1. offset \in Nat /\ n \in Nat \ {0} /\ BLOCK_SIZE \in Nat \ {0} /\ k \in 1..n
    BY TransferAssumption DEF Covered
<1>2. q \in Nat /\ r \in Nat /\ r < BLOCK_SIZE
    BY <1>1, DivMod
<1>3. head \in 1..n /\ middle \in Nat /\ done \in Nat
    <2>1. HeadSize(offset, n) \in 1..n
        BY <1>1, TransferCut
    <2>2. MiddleBlocks(offset, n) \in Nat /\ DoneBeforeLast(offset, n) \in Nat
        BY <1>1, TouchedBlocks
    <2>3. QED BY <2>1, <2>2
<1>4. d.file.blockList = list
    BY WriteDataList
<1>5. ByteOf(d, at) = FoundIn(d, list[(at \div BLOCK_SIZE) + 1])[at % BLOCK_SIZE]
    BY <1>4 DEF ByteOf
<1>6. /\ \A p \in Positions : p >= r /\ p < r + head =>
            FoundIn(d, list[first])[p] = data[p - r + 1]
      /\ \A j \in 1..middle : FoundIn(d, list[first + j]) = FullBlock(offset, data, j)
      /\ done # n => \A p \in Positions : p < n - done =>
            FoundIn(d, list[first + middle + 1])[p] = data[done + p + 1]
    BY WriteDataFound
<1>7. \A p \in Nat : p < BLOCK_SIZE => p \in Positions
    BY <1>1 DEF Positions
<1> SUFFICES ByteOf(d, at) = data[k]
    OBVIOUS
<1> HIDE DEF d, n, q, r, list
<1>8. CASE k - 1 < head
    <2>1. k - 1 \in Nat /\ offset + (k - 1) = at
        BY <1>1
    <2>2. at \div BLOCK_SIZE = q /\ at % BLOCK_SIZE = r + (k - 1)
        <3>1. (offset + (k - 1)) \div BLOCK_SIZE = q /\ (offset + (k - 1)) % BLOCK_SIZE = r + (k - 1)
            <4> DEFINE i == k - 1
            <4>1. i \in Nat /\ i < HeadSize(offset, n)
                BY <1>8, <2>1
            <4> HIDE DEF i
            <4>2. (offset + i) \div BLOCK_SIZE = q /\ (offset + i) % BLOCK_SIZE = r + i
                BY <1>1, <4>1, HeadPosition DEF q, r
            <4>3. QED BY <4>2 DEF i
        <3>2. QED BY <2>1, <3>1
    <2> DEFINE p == r + (k - 1)
    <2>3. p \in Positions /\ p >= r /\ p < r + head /\ p - r + 1 = k
        <3>1. at \in Nat
            BY <1>1
        <3>2. at % BLOCK_SIZE \in Nat /\ at % BLOCK_SIZE < BLOCK_SIZE
            BY <1>1, <3>1, DivMod
        <3> HIDE DEF head, at
        <3>3. p \in Nat /\ p < BLOCK_SIZE
            BY <2>2, <3>2
        <3>4. QED BY <1>1, <1>2, <1>3, <1>7, <1>8, <3>3
    <2> HIDE DEF p, at
    <2>4. FoundIn(d, list[first])[p] = data[k]
        BY <1>6, <2>3
    <2>5. QED BY <1>5, <2>2, <2>4 DEF p
<1>9. CASE k - 1 >= head
    <2>1. PICK m \in Nat, i \in Nat : i < BLOCK_SIZE /\ k - 1 = head + m * BLOCK_SIZE + i
        <3>1. k - 1 \in Nat /\ k - 1 < n /\ ~(k - 1 < head)
            BY <1>1, <1>3, <1>9
        <3> DEFINE x == k - 1
        <3> HIDE DEF x
        <3>2. x \in Nat /\ x < n /\ ~(x < head)
            BY <3>1 DEF x
        <3>3. \E m, i \in Nat : i < BLOCK_SIZE /\ x = head + m * BLOCK_SIZE + i
            BY <1>1, <3>2, EveryPosition
        <3>4. QED BY <3>3 DEF x
    <2>2. m * BLOCK_SIZE \in Nat /\ k - 1 \in Nat /\ k - 1 < n /\ offset + (k - 1) = at
        BY <1>1
    <2>3. m <= middle /\ (offset + (k - 1)) \div BLOCK_SIZE = q + 1 + m
          /\ (offset + (k - 1)) % BLOCK_SIZE = i
        <3> DEFINE x == k - 1
        <3>1. x \in Nat /\ x < n /\ x = HeadSize(offset, n) + m * BLOCK_SIZE + i
            BY <2>1, <2>2
        <3> HIDE DEF x, head, at, first
        <3>2. /\ m <= MiddleBlocks(offset, n)
              /\ (offset + x) \div BLOCK_SIZE = (offset \div BLOCK_SIZE) + 1 + m
              /\ (offset + x) % BLOCK_SIZE = i
            <4>1. offset \in Nat /\ n \in Nat \ {0} /\ i < BLOCK_SIZE
                BY <1>1, <2>1
            <4> HIDE DEF middle, done
            <4>2. QED BY <3>1, <4>1, LaterPosition
        <3>3. QED BY <3>2 DEF q, x
    <2>4. m <= middle /\ at \div BLOCK_SIZE = q + 1 + m /\ at % BLOCK_SIZE = i
        BY <2>2, <2>3
    <2>5. i \in Positions
        BY <1>7, <2>1
    <2> HIDE DEF at, head, middle
    <2>6. CASE m < middle
        <3>1. m + 1 \in 1..middle /\ (m + 1) - 1 = m /\ q + 1 + m + 1 = first + (m + 1)
            BY <1>2, <1>3, <2>6
        <3>2. FoundIn(d, list[first + (m + 1)]) = FullBlock(offset, data, m + 1)
            BY <1>6, <3>1
        <3>3. FullBlock(offset, data, m + 1)[i]
                = data[HeadSize(offset, Len(data)) + (m + 1 - 1) * BLOCK_SIZE + i + 1]
            BY <2>5 DEF FullBlock
        <3>4. HeadSize(offset, Len(data)) + (m + 1 - 1) * BLOCK_SIZE + i + 1
                = head + m * BLOCK_SIZE + i + 1
            BY <3>1 DEF head, n
        <3>5. head + m * BLOCK_SIZE + i + 1 = k
            BY <1>1, <1>3, <2>1, <2>2
        <3> HIDE DEF first
        <3>6. FullBlock(offset, data, m + 1)[i] = data[k]
            BY <3>3, <3>4, <3>5
        <3>7. QED BY <1>5, <2>4, <3>1, <3>2, <3>6
    <2>7. CASE m = middle
        <3>1. done = head + m * BLOCK_SIZE
            BY <2>7 DEF done, DoneBeforeLast, head, middle
        <3>2. done + i + 1 = k /\ i < n - done /\ done # n
            <4>1. done + i = k - 1 /\ done + i < n
                BY <2>1, <2>2, <3>1
            <4> HIDE DEF done
            <4>2. QED BY <1>1, <1>3, <4>1
        <3>3. q + 1 + m + 1 = first + middle + 1
            BY <1>2, <1>3, <2>7
        <3> HIDE DEF first, done
        <3>4. FoundIn(d, list[first + middle + 1])[i] = data[k]
            BY <1>6, <2>5, <3>2
        <3>5. QED BY <1>5, <2>4, <3>3, <3>4
    <2>8. QED BY <1>3, <2>4, <2>6, <2>7 DEF middle
<1>10. k - 1 < head \/ k - 1 >= head
    BY <1>1, <1>3
<1>11. QED BY <1>8, <1>9, <1>10

\* A handle is in step when its buffer, unless it waits to be written, is the
\* block it stands for: for the blocks of its own file, as long as nobody else
\* writes to them.
FileInStep(c) == \A b \in SetOfBlocks(c.file.blockList) : InStep(c, b)

\* A byte of a covered transfer behind its head, by the block it is in.
LEMMA BehindHead ==
    ASSUME NEW offset \in Nat, NEW n \in Nat \ {0}, NEW m \in Nat, NEW i \in Nat,
           i < BLOCK_SIZE, HeadSize(offset, n) + m * BLOCK_SIZE + i < n,
           NEW at \in Nat, at \div BLOCK_SIZE = (offset \div BLOCK_SIZE) + 1 + m,
           at % BLOCK_SIZE = i
    PROVE  at \in offset..(offset + n - 1)
<1> DEFINE M == m * BLOCK_SIZE
           k == HeadSize(offset, n) + M + i
<1>1. HeadSize(offset, n) \in Nat /\ M \in Nat
    <2>1. HeadSize(offset, n) \in 1..n
        BY TransferCut
    <2>2. QED BY <2>1, TransferAssumption
<1>2. k \in Nat /\ k < n /\ k = HeadSize(offset, n) + m * BLOCK_SIZE + i
    BY <1>1
<1> HIDE DEF k
<1>3. (offset + k) \div BLOCK_SIZE = (offset \div BLOCK_SIZE) + 1 + m
      /\ (offset + k) % BLOCK_SIZE = i
    BY <1>2, LaterPosition
<1> DEFINE x == offset + k
<1>4. x \in Nat
    BY <1>2
<1> HIDE DEF x
<1>5. x = at
    BY <1>3, <1>4, SamePosition DEF x
<1>6. QED BY <1>2, <1>5 DEF x

\* A write leaves the bytes of the file in front of it and behind it alone.
THEOREM WriteDataLeaves ==
    ASSUME NEW S, NEW c, NEW offset, NEW data \in Seq(Cells),
           Covered(S, c, (offset \div BLOCK_SIZE) + 1, offset, Len(data)),
           FileInStep(c), NEW at \in Nat,
           (at \div BLOCK_SIZE) + 1 \in DOMAIN c.file.blockList,
           at \notin offset..(offset + Len(data) - 1)
    PROVE  ByteOf(WriteData(c, (offset \div BLOCK_SIZE) + 1, offset, data), at) = ByteOf(c, at)
<1> DEFINE n == Len(data)
           q == offset \div BLOCK_SIZE
           r == offset % BLOCK_SIZE
           first == q + 1
           head == HeadSize(offset, n)
           middle == MiddleBlocks(offset, n)
           done == DoneBeforeLast(offset, n)
           touched == BlocksTouched(offset, n)
           list == c.file.blockList
           d == WriteData(c, first, offset, data)
           j == at \div BLOCK_SIZE
           p == at % BLOCK_SIZE
           e == list[j + 1]
<1>1. offset \in Nat /\ n \in Nat \ {0} /\ BLOCK_SIZE \in Nat \ {0}
    BY TransferAssumption DEF Covered
<1>2. /\ q \in Nat /\ r \in Nat /\ r < BLOCK_SIZE /\ offset = BLOCK_SIZE * q + r
      /\ j \in Nat /\ p \in Nat /\ p < BLOCK_SIZE /\ at = BLOCK_SIZE * j + p
    BY <1>1, DivMod
<1>3. /\ HeadSize(offset, n) \in 1..n /\ MiddleBlocks(offset, n) \in Nat
      /\ HeadSize(offset, n) + MiddleBlocks(offset, n) * BLOCK_SIZE <= n
      /\ IF HeadSize(offset, n) + MiddleBlocks(offset, n) * BLOCK_SIZE = n
         THEN BlocksTouched(offset, n) = MiddleBlocks(offset, n) + 1
         ELSE BlocksTouched(offset, n) = MiddleBlocks(offset, n) + 2
    BY <1>1, TransferCut
<1>4. p \in Positions
    BY <1>1, <1>2 DEF Positions
<1>5. list \in BlockLists
    BY DEF Covered, Guarded, Cache, OpenFile
<1>6. e \in Blocks /\ e \in SetOfBlocks(list) /\ InStep(c, e)
    BY <1>5, BlockListType DEF FileInStep, SetOfBlocks
<1>7. ByteOf(d, at) = FoundIn(d, e)[p] /\ ByteOf(c, at) = FoundIn(c, e)[p]
    BY WriteDataList DEF ByteOf
<1>8. /\ \A x \in Positions :
            FoundIn(d, list[first])[x] = IF x >= r /\ x < r + head THEN data[x - r + 1]
                                         ELSE FoundIn(c, list[first])[x]
      /\ done # n => \A x \in Positions :
            x >= n - done /\ InStep(c, list[first + middle + 1]) =>
               FoundIn(d, list[first + middle + 1])[x] = FoundIn(c, list[first + middle + 1])[x]
      /\ \A b \in Blocks :
            (\A k \in Nat : k < touched => list[first + k] # b) /\ InStep(c, b)
            => FoundIn(d, b) = FoundIn(c, b)
    BY WriteDataFound
<1> SUFFICES FoundIn(d, e)[p] = FoundIn(c, e)[p]
    BY <1>7
<1>9. /\ head \in 1..n /\ middle \in Nat /\ done \in Nat /\ done <= n
      /\ touched = IF done = n THEN middle + 1 ELSE middle + 2
      /\ done = head + middle * BLOCK_SIZE
    <2>1. MiddleBlocks(offset, n) * BLOCK_SIZE \in Nat
        BY <1>1, <1>3
    <2>2. QED BY <1>3, <2>1 DEF DoneBeforeLast
<1>10. at \notin offset..(offset + n - 1)
    OBVIOUS
<1> HIDE DEF d, n, q, r, list, head, middle, done, touched, j, p, e
<1>11. CASE \A k \in Nat : k < touched => list[first + k] # e
    BY <1>6, <1>8, <1>11
<1>12. ASSUME NEW k \in Nat, k < touched, list[first + k] = e PROVE FoundIn(d, e)[p] = FoundIn(c, e)[p]
    <2>1. first + k = j + 1
        <3>1. first + k \in 1..Len(list)
            BY <1>12, CoveredBlocks DEF touched, list, n, q
        <3>2. j + 1 \in 1..Len(list)
            BY <1>5, BlockListType DEF list, j
        <3>3. QED BY <1>5, <1>12, <3>1, <3>2, BlockListType DEF e
    <2>2. j = q + k
        BY <1>2, <2>1
    <2>3. CASE k = 0
        <3>1. j = q /\ e = list[first]
            BY <1>2, <1>12, <2>2, <2>3
        <3>2. ~(p >= r /\ p < r + head)
            <4>1. SUFFICES ASSUME p >= r, p < r + head PROVE FALSE
                OBVIOUS
            <4>2. at = offset + (p - r)
                <5> DEFINE Q == BLOCK_SIZE * q
                <5>1. Q \in Nat /\ at = Q + p /\ offset = Q + r
                    BY <1>1, <1>2, <3>1
                <5> HIDE DEF Q
                <5>2. QED BY <1>2, <5>1, SMTT(30)
            <4>3. QED BY <1>1, <1>2, <1>9, <1>10, <4>1, <4>2
        <3>3. QED BY <1>4, <1>8, <3>1, <3>2
    <2>4. CASE k \in 1..middle
        <3> DEFINE m == k - 1
        <3>1. m \in Nat /\ k = m + 1 /\ m + 1 <= middle
            BY <1>9, <2>4
        <3> HIDE DEF m
        <3>2. head + m * BLOCK_SIZE + p < n
            <4>1. m * BLOCK_SIZE \in Nat /\ m * BLOCK_SIZE + BLOCK_SIZE <= middle * BLOCK_SIZE
                  /\ middle * BLOCK_SIZE \in Nat
                BY <1>1, <1>9, <3>1
            <4>2. QED BY <1>1, <1>2, <1>9, <4>1
        <3>3. j = q + 1 + m
            BY <1>2, <2>2, <3>1
        <3>4. HeadSize(offset, n) + m * BLOCK_SIZE + p < n
            BY <3>2 DEF head
        <3>5. at \div BLOCK_SIZE = (offset \div BLOCK_SIZE) + 1 + m /\ at % BLOCK_SIZE = p
            BY <3>3 DEF j, p, q
        <3>6. at \in offset..(offset + n - 1)
            BY <1>1, <1>2, <3>1, <3>4, <3>5, BehindHead
        <3>7. QED BY <1>10, <3>6
    <2>5. CASE k = middle + 1 /\ done # n
        <3>1. e = list[first + middle + 1]
            <4>1. first + k = first + middle + 1
                BY <1>2, <1>9, <2>5
            <4>2. QED BY <1>12, <4>1
        <3>2. ~(p < n - done)
            <4>1. SUFFICES ASSUME p < n - done PROVE FALSE
                OBVIOUS
            <4>2. HeadSize(offset, n) + middle * BLOCK_SIZE + p < n
                <5>1. done + p < n
                    BY <1>1, <1>2, <1>9, <4>1
                <5>2. QED BY <1>9, <5>1 DEF head
            <4>3. j = q + 1 + middle
                BY <1>2, <1>9, <2>2, <2>5
            <4>4. at \div BLOCK_SIZE = (offset \div BLOCK_SIZE) + 1 + middle /\ at % BLOCK_SIZE = p
                BY <4>3 DEF j, p, q
            <4>5. at \in offset..(offset + n - 1)
                BY <1>1, <1>2, <1>9, <4>2, <4>4, BehindHead
            <4>6. QED BY <1>10, <4>5
        <3>3. p >= n - done
            BY <1>1, <1>2, <1>9, <3>2, SMTT(30)
        <3>4. QED BY <1>4, <1>6, <1>8, <2>5, <3>1, <3>3
    <2>6. QED BY <1>9, <1>12, <2>3, <2>4, <2>5
<1>13. QED BY <1>11, <1>12

\* What ReadData finds in the first block, and in those behind it.
LEMMA ReadDataHead ==
    ASSUME NEW c, NEW first \in Nat, NEW offset \in Nat, NEW n \in Nat \ {0},
           NEW x \in 1..n, x - 1 < HeadSize(offset, n)
    PROVE  ReadData(c, first, offset, n).data[x]
             = cacheBlock(c, c.file.blockList[first]).file.buffer[(offset % BLOCK_SIZE) + (x - 1)]
<1> DEFINE i == x - 1
           atHead == cacheBlock(c, c.file.blockList[first])
           middle == MiddleBlocks(offset, n)
           atLast == IF BlocksTouched(offset, n) = 1 THEN atHead
                     ELSE cacheBlock(atHead, c.file.blockList[first + middle + 1])
           Cell(at) ==
               LET k == at \div BLOCK_SIZE - offset \div BLOCK_SIZE
                   p == at % BLOCK_SIZE
               IN  IF k = 0 THEN atHead.file.buffer[p]
                   ELSE IF k <= middle THEN atHead.disk[c.file.blockList[first + k]][p]
                   ELSE atLast.file.buffer[p]
<1>1. ReadData(c, first, offset, n).data = [j \in 1..n |-> Cell(offset + j - 1)]
    BY DEF ReadData
<1>2. /\ (offset + i) \div BLOCK_SIZE = offset \div BLOCK_SIZE
      /\ (offset + i) % BLOCK_SIZE = (offset % BLOCK_SIZE) + i
    <2>1. i \in Nat /\ i < HeadSize(offset, n)
        OBVIOUS
    <2> HIDE DEF i
    <2>2. QED BY <2>1, HeadPosition
<1>3. (offset \div BLOCK_SIZE) - (offset \div BLOCK_SIZE) = 0
    <2>1. offset \div BLOCK_SIZE \in Nat
        BY DivMod, TransferAssumption
    <2>2. QED BY <2>1
<1> HIDE DEF atHead, atLast, middle
<1>4. Cell(offset + i) = atHead.file.buffer[(offset % BLOCK_SIZE) + i]
    BY <1>2, <1>3
<1>5. offset + x - 1 = offset + i
    OBVIOUS
<1> HIDE DEF Cell
<1>6. QED BY <1>1, <1>4, <1>5 DEF atHead

BehindHeadAt(offset, n, m, i) == HeadSize(offset, n) + m * BLOCK_SIZE + i

LEMMA ReadDataBehind ==
    ASSUME NEW c, NEW first \in Nat, NEW offset \in Nat, NEW n \in Nat \ {0},
           NEW m \in Nat, NEW i \in Nat, i < BLOCK_SIZE,
           NEW x \in 1..n, x - 1 = BehindHeadAt(offset, n, m, i)
    PROVE  LET list == c.file.blockList
               atHead == cacheBlock(c, list[first])
               middle == MiddleBlocks(offset, n)
           IN  ReadData(c, first, offset, n).data[x] =
                 IF m < middle THEN atHead.disk[list[first + m + 1]][i]
                 ELSE cacheBlock(atHead, list[first + middle + 1]).file.buffer[i]
<1> DEFINE list == c.file.blockList
           atHead == cacheBlock(c, list[first])
           middle == MiddleBlocks(offset, n)
           q == offset \div BLOCK_SIZE
           w == x - 1
           last == cacheBlock(atHead, list[first + middle + 1])
           atLast == IF BlocksTouched(offset, n) = 1 THEN atHead ELSE last
           Cell(at) ==
               LET k == at \div BLOCK_SIZE - q
                   p == at % BLOCK_SIZE
               IN  IF k = 0 THEN atHead.file.buffer[p]
                   ELSE IF k <= middle THEN atHead.disk[list[first + k]][p]
                   ELSE atLast.file.buffer[p]
<1>1. ReadData(c, first, offset, n).data = [j \in 1..n |-> Cell(offset + j - 1)]
    BY DEF ReadData
<1>2. /\ m <= middle /\ (offset + w) \div BLOCK_SIZE = q + 1 + m
      /\ (offset + w) % BLOCK_SIZE = i
    <2>1. /\ m <= MiddleBlocks(offset, n)
          /\ (offset + w) \div BLOCK_SIZE = (offset \div BLOCK_SIZE) + 1 + m
          /\ (offset + w) % BLOCK_SIZE = i
        <3>1. w \in Nat /\ w < n /\ w = HeadSize(offset, n) + m * BLOCK_SIZE + i
            BY DEF BehindHeadAt
        <3> HIDE DEF w
        <3>2. QED BY <3>1, LaterPosition
    <2>2. QED BY <2>1
<1>3. q \in Nat /\ middle \in Nat
    <2>1. MiddleBlocks(offset, n) \in Nat
        BY TransferCut
    <2>2. QED BY <2>1, DivMod, TransferAssumption
<1>4. BlocksTouched(offset, n) # 1
    <2>1. HeadSize(offset, n) # n
        <3>1. m * BLOCK_SIZE \in Nat /\ HeadSize(offset, n) \in 1..n
            BY TransferAssumption, TransferCut
        <3>2. w < n /\ w = HeadSize(offset, n) + m * BLOCK_SIZE + i
            BY DEF BehindHeadAt
        <3> DEFINE M == m * BLOCK_SIZE
        <3> HIDE DEF w, M
        <3>3. M \in Nat /\ w = HeadSize(offset, n) + M + i
            BY <3>1, <3>2 DEF M
        <3>4. QED BY <3>1, <3>2, <3>3
    <2>2. BlocksTouched(offset, n) = middle + 2
        BY <2>1 DEF BlocksTouched
    <2>3. QED BY <1>3, <2>2
<1> HIDE DEF atHead, last, middle, q, list
<1>5. /\ (q + 1 + m) - q = m + 1 /\ m + 1 # 0 /\ first + (m + 1) = first + m + 1
      /\ m + 1 <= middle <=> m < middle
    BY <1>3
<1>6. Cell(offset + w) = IF m < middle THEN atHead.disk[list[first + m + 1]][i]
                         ELSE last.file.buffer[i]
    BY <1>2, <1>4, <1>5
<1>7. offset + x - 1 = offset + w
    OBVIOUS
<1> HIDE DEF Cell
<1>8. QED BY <1>1, <1>6, <1>7 DEF atHead, last, middle, list

\* A read returns the bytes of the file, wherever they are.
THEOREM ReadDataFinds ==
    ASSUME NEW S, NEW c, NEW offset, NEW n,
           Covered(S, c, (offset \div BLOCK_SIZE) + 1, offset, n), FileInStep(c),
           NEW x \in 1..n
    PROVE  ReadData(c, (offset \div BLOCK_SIZE) + 1, offset, n).data[x]
             = ByteOf(c, offset + x - 1)
<1> DEFINE q == offset \div BLOCK_SIZE
           first == q + 1
           head == HeadSize(offset, n)
           middle == MiddleBlocks(offset, n)
           touched == BlocksTouched(offset, n)
           list == c.file.blockList
           b == list[first]
           z == list[first + middle + 1]
           atHead == cacheBlock(c, b)
           w == x - 1
           at == offset + w
           cell == ReadData(c, first, offset, n).data[x]
<1>1. /\ offset \in Nat /\ n \in Nat \ {0} /\ BLOCK_SIZE \in Nat \ {0} /\ q \in Nat
      /\ Guarded(S, c) /\ list \in BlockLists /\ w \in Nat /\ w < n /\ x = w + 1
    BY TransferAssumption, DivMod DEF Covered, Guarded, Cache, OpenFile
<1>2. /\ middle \in Nat /\ touched \in Nat /\ \A y \in 0..middle : y < touched
      /\ DoneBeforeLast(offset, n) # n => middle + 1 < touched
    BY <1>1, TouchedBlocks
<1>3. \A y \in Nat : y < touched => list[first + y] \in Blocks /\ InStep(c, list[first + y])
    <2>1. ASSUME NEW y \in Nat, y < touched
          PROVE  list[first + y] \in Blocks /\ InStep(c, list[first + y])
        <3>1. first + y \in 1..Len(list) /\ list[first + y] \in Blocks
            BY <2>1, CoveredBlocks
        <3>2. DOMAIN list = 1..Len(list)
            BY <1>1, BlockListType
        <3>3. QED BY <3>1, <3>2 DEF FileInStep, SetOfBlocks
    <2>2. QED BY <2>1
<1>4. b \in Blocks /\ InStep(c, b)
    <2>1. 0 < touched /\ first + 0 = first
        BY <1>1, <1>2
    <2>2. QED BY <1>3, <2>1
<1>5. /\ WritesOnly(S, c, atHead) /\ atHead.file.blockNo = b
      /\ \A e \in Blocks : InStep(c, e) => FoundIn(atHead, e) = FoundIn(c, e)
    BY <1>1, <1>4, CacheBlock, CacheShows
<1>6. ByteOf(c, at) = FoundIn(c, list[(at \div BLOCK_SIZE) + 1])[at % BLOCK_SIZE]
    BY DEF ByteOf
<1>7. first \in Nat
    BY <1>1
<1> SUFFICES cell = ByteOf(c, at)
    <2>1. at = offset + x - 1
        BY <1>1
    <2> HIDE DEF w, q, at
    <2>2. QED BY <2>1 DEF q
<1> HIDE DEF w, q, list, b, z, atHead, touched, middle, cell, first
<1>8. CASE w < head
    <2>1. at \div BLOCK_SIZE = q /\ at % BLOCK_SIZE = (offset % BLOCK_SIZE) + w
        BY <1>1, <1>8, HeadPosition DEF q
    <2>2. cell = atHead.file.buffer[(offset % BLOCK_SIZE) + w]
        <3>1. offset \in Nat /\ n \in Nat \ {0} /\ w \in Nat /\ w < HeadSize(offset, n)
              /\ w = x - 1 /\ x \in 1..n
            BY <1>1, <1>8
        <3> HIDE DEF at, head
        <3>2. ReadData(c, first, offset, n).data[x]
                = cacheBlock(c, c.file.blockList[first]).file.buffer[(offset % BLOCK_SIZE) + w]
            BY <1>7, <3>1, ReadDataHead
        <3>3. QED BY <3>2 DEF cell, atHead, b, list
    <2>3. atHead.file.buffer = FoundIn(c, b)
        BY <1>4, <1>5 DEF FoundIn
    <2>4. QED BY <1>6, <2>1, <2>2, <2>3 DEF b, first
<1>9. CASE ~(w < head)
    <2>1. PICK m \in Nat, i \in Nat : i < BLOCK_SIZE
                                      /\ w = HeadSize(offset, n) + m * BLOCK_SIZE + i
        BY <1>1, <1>9, EveryPosition, ZenonT(60)
    <2>2. m <= middle /\ at \div BLOCK_SIZE = q + 1 + m /\ at % BLOCK_SIZE = i
        <3>1. /\ m <= MiddleBlocks(offset, n)
              /\ (offset + w) \div BLOCK_SIZE = (offset \div BLOCK_SIZE) + 1 + m
              /\ (offset + w) % BLOCK_SIZE = i
            <4> HIDE DEF at, head
            <4>1. offset \in Nat /\ n \in Nat \ {0} /\ w \in Nat /\ w < n
                BY <1>1
            <4>2. QED BY <2>1, <4>1, LaterPosition
        <3>2. QED BY <3>1 DEF middle, q
    <2>3. cell = IF m < middle THEN atHead.disk[list[first + m + 1]][i]
                 ELSE cacheBlock(atHead, z).file.buffer[i]
        <3> HIDE DEF at, head
        <3>1. offset \in Nat /\ n \in Nat \ {0} /\ x \in 1..n
              /\ x - 1 = BehindHeadAt(offset, n, m, i)
            BY <1>1, <2>1 DEF BehindHeadAt
        <3>2. ReadData(c, first, offset, n).data[x] =
                IF m < MiddleBlocks(offset, n)
                THEN cacheBlock(c, c.file.blockList[first]).disk[c.file.blockList[first + m + 1]][i]
                ELSE cacheBlock(cacheBlock(c, c.file.blockList[first]),
                                c.file.blockList[first + MiddleBlocks(offset, n) + 1]).file.buffer[i]
            BY <1>7, <2>1, <3>1, ReadDataBehind, SMTT(90)
        <3>3. QED BY <3>2 DEF cell, atHead, b, z, list, middle
    <2>4. (at \div BLOCK_SIZE) + 1 = first + m + 1 /\ first + m + 1 = first + (m + 1)
        BY <1>1, <2>2 DEF first
    <2>5. CASE m < middle
        <3>1. m + 1 \in Nat /\ m + 1 < touched /\ 0 < touched /\ first + 0 = first /\ m + 1 # 0
            BY <1>2, <1>7, <2>5
        <3>2. list[first + (m + 1)] \in Blocks /\ InStep(c, list[first + (m + 1)])
            BY <1>3, <3>1
        <3>3. list[first + (m + 1)] # b
            <4>1. list[first + 0] = list[first + (m + 1)] => 0 = m + 1
                BY <3>1, CoveredInjective DEF list, q, touched, first
            <4>2. QED BY <3>1, <4>1 DEF b
        <3>4. atHead.disk[list[first + (m + 1)]] = FoundIn(c, list[first + (m + 1)])
            BY <1>5, <3>2, <3>3 DEF FoundIn
        <3>5. QED BY <1>6, <2>2, <2>3, <2>4, <2>5, <3>4
    <2>6. CASE m = middle
        <3>1. DoneBeforeLast(offset, n) # n
            <4> DEFINE M == m * BLOCK_SIZE
            <4>1. M \in Nat /\ w = HeadSize(offset, n) + M + i
                  /\ DoneBeforeLast(offset, n) = HeadSize(offset, n) + M
                BY <1>1, <2>1, <2>6 DEF DoneBeforeLast, middle
            <4>2. HeadSize(offset, n) \in 1..n
                BY <1>1, TransferCut
            <4> HIDE DEF M
            <4>3. QED BY <1>1, <4>1, <4>2
        <3>2. middle + 1 \in Nat /\ middle + 1 < touched
              /\ first + (middle + 1) = first + middle + 1 /\ ~(m < middle)
            BY <1>2, <1>7, <2>6, <3>1
        <3>3. z \in Blocks /\ InStep(c, z)
            BY <1>3, <3>2 DEF z
        <3>4. FoundIn(cacheBlock(atHead, z), z) = FoundIn(atHead, z)
              /\ cacheBlock(atHead, z).file.blockNo = z
            <4>1. Guarded(S, atHead)
                BY <1>5 DEF WritesOnly
            <4>2. QED BY <3>3, <4>1, CacheBlock, CacheShows
        <3>5. cacheBlock(atHead, z).file.buffer = FoundIn(c, z)
            BY <1>5, <3>3, <3>4 DEF FoundIn
        <3>6. QED BY <1>6, <2>2, <2>3, <2>4, <2>6, <3>2, <3>5 DEF z
    <2>7. QED BY <1>2, <2>2, <2>5, <2>6
<1>10. QED BY <1>8, <1>9
=============================================================================
