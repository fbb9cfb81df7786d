--------------------------- MODULE SessionsProofs ---------------------------
(***************************************************************************)
(* Sessions one after the other: the invariant of a mounted session        *)
(* outlives its process, whether that unmounts or dies, because what a     *)
(* dump leaves on disk is the metadata of one moment and fuseInit reads    *)
(* just that.                                                              *)
(***************************************************************************)
EXTENDS Sessions, OnDiskFSProofs

\* The conditions of the theorems besides Mounted and NumbersFit: the first
\* dump is made, no two names share what is stored of them, and the bytes of
\* the bitmap divide the links of a block of the table (8 and 128).
Careful ==
    /\ ~Hasty
    /\ \A name, other \in Names : Shortened[name] = Shortened[other] => name = other
    /\ \E k \in Nat : LINKS_PER_BLOCK = k * BITS

\* What is on disk, once it is anything, is consistent.
ImageOK == DumpedOnce => Metadata(image.flags, image.table, image.root)

Reachable == Session /\ ImageOK

-----------------------------------------------------------------------------
(* Reading the metadata.                                                   *)

\* The table is made of full blocks, at least one link to each.
LEMMA LinksPerBlock == LINKS_PER_BLOCK \in Nat \ {0}
<1>1. WORD_BYTES \in Nat \ {0} /\ BLOCK_BYTES \in Nat \ {0} /\ BLOCK_BYTES % WORD_BYTES = 0
    BY LayoutAssumption
<1>2. /\ BLOCK_BYTES \div WORD_BYTES \in Nat
      /\ BLOCK_BYTES = WORD_BYTES * (BLOCK_BYTES \div WORD_BYTES) + (BLOCK_BYTES % WORD_BYTES)
    <2>1. BLOCK_BYTES \in Nat
        BY <1>1
    <2>2. QED BY <1>1, <2>1, DivMod
<1>3. QED BY <1>1, <1>2 DEF LINKS_PER_BLOCK

\* Division that rounds up gives enough.
LEMMA CeilingType ==
    ASSUME NEW m \in Nat, NEW k \in Nat \ {0}
    PROVE  Ceiling(m, k) \in Nat /\ m <= k * Ceiling(m, k)
<1> DEFINE c == Ceiling(m, k)
<1>1. m + k - 1 \in Nat
    OBVIOUS
<1>2. /\ c \in Nat /\ ((m + k - 1) % k) \in Nat /\ (m + k - 1) % k < k
      /\ m + k - 1 = k * c + ((m + k - 1) % k)
    BY <1>1, DivMod DEF Ceiling
<1> DEFINE r == (m + k - 1) % k
           kc == k * c
<1>3. kc \in Nat
    BY <1>2
<1>4. r \in Nat /\ r < k /\ m + k - 1 = kc + r
    BY <1>2
<1> HIDE DEF c, r, kc
<1>5. m <= kc
    BY <1>3, <1>4
<1>6. QED BY <1>2, <1>5 DEF c, kc

\* A smaller multiple is one of a smaller number.
LEMMA CancelLess ==
    ASSUME NEW k \in Nat \ {0}, NEW p \in Nat, NEW q \in Nat, k * p < k * q
    PROVE  p < q
<1>1. SUFFICES ASSUME q <= p PROVE FALSE
    OBVIOUS
<1>2. k * q <= k * p
    BY <1>1
<1>3. QED BY <1>2

\* A container whose table fills its blocks has a bitmap that fills its bytes.
LEMMA BitmapFillsBytes ==
    ASSUME Careful, FatFillsBlocks
    PROVE  \E k \in Nat : CONTAINER_BLOCKS = k * BITS
<1>1. PICK j \in Nat : LINKS_PER_BLOCK = j * BITS
    BY DEF Careful
<1>2. FatBlocks(CONTAINER_BLOCKS) \in Nat
    BY LinksPerBlock, CeilingType, DmapAssumption DEF FatBlocks
<1> DEFINE n == FatBlocks(CONTAINER_BLOCKS)
<1>3. n * (j * BITS) = CONTAINER_BLOCKS
    BY <1>1 DEF FatFillsBlocks
<1>4. BITS \in Nat
    BY LayoutAssumption
<1> HIDE DEF n
<1>5. n \in Nat
    BY <1>2 DEF n
<1>6. n * j \in Nat /\ (n * j) * BITS = n * (j * BITS)
    BY <1>4, <1>5
<1>7. QED BY <1>3, <1>6

\* The bitmap comes back as it was dumped: no last byte is left out.
LEMMA LoadedFlagsSame ==
    ASSUME Careful, FatFillsBlocks, NEW f \in [Blocks -> BOOLEAN]
    PROVE  LoadedFlags(f) = f
<1>1. PICK k \in Nat : CONTAINER_BLOCKS = k * BITS
    BY BitmapFillsBytes
<1>2. BITS \in Nat \ {0}
    BY LayoutAssumption
<1>3. ASSUME NEW b \in Blocks PROVE (b \div BITS + 1) * BITS <= CONTAINER_BLOCKS
    <2> DEFINE q == b \div BITS
    <2>1. b \in Nat /\ b < CONTAINER_BLOCKS
        BY DmapAssumption DEF Blocks
    <2>2. q \in Nat /\ (b % BITS) \in Nat /\ b = BITS * q + (b % BITS)
        BY <1>2, <2>1, DivMod
    <2> HIDE DEF q
    <2>3. BITS * q < BITS * k
        BY <1>1, <1>2, <2>1, <2>2
    <2>4. q < k
        BY <1>2, <2>2, <2>3, CancelLess
    <2>5. (q + 1) * BITS <= k * BITS
        BY <1>2, <2>2, <2>4
    <2>6. QED BY <1>1, <2>5 DEF q
<1>4. QED BY <1>3 DEF LoadedFlags

\* Wherever the search begins after a mount, it is a block of the container.
LEMMA LoadedCursorType ==
    ASSUME Careful, FatFillsBlocks, NEW f
    PROVE  LoadedCursor(f) \in Blocks
<1>1. PICK k \in Nat : CONTAINER_BLOCKS = k * BITS
    BY BitmapFillsBytes
<1>2. BITS \in Nat \ {0} /\ CONTAINER_BLOCKS \in Nat /\ CONTAINER_BLOCKS > 0
    BY LayoutAssumption, DmapAssumption
<1>3. Ceiling(CONTAINER_BLOCKS, BITS) = k
    <2>1. BITS - 1 \in Nat /\ BITS - 1 < BITS /\ CONTAINER_BLOCKS + BITS - 1 \in Nat
        BY <1>2
    <2>2. CONTAINER_BLOCKS + BITS - 1 = BITS * k + (BITS - 1)
        BY <1>1, <1>2
    <2>3. QED BY <1>2, <2>1, <2>2, DivUnique DEF Ceiling
<1>4. CASE OpenBytes(f) = {}
    BY <1>2, <1>4 DEF LoadedCursor, Blocks
<1>5. CASE OpenBytes(f) # {}
    <2> DEFINE S == OpenBytes(f)
    <2>1. S \subseteq 0..(k - 1)
        BY <1>3 DEF OpenBytes
    <2>2. PICK i \in S : \A j \in S : i <= j
        <3>1. S \subseteq Nat
            BY <2>1
        <3> HIDE DEF S
        <3>2. QED BY <1>5, <3>1, LeastNat DEF S
    <2>3. \E j \in S : LoadedCursor(f) = BITS * j
        BY <1>5, <2>2 DEF LoadedCursor
    <2>4. PICK j \in S : LoadedCursor(f) = BITS * j
        BY <2>3
    <2>5. j \in Nat /\ j <= k - 1
        BY <2>1
    <2>6. BITS * j \in Nat /\ BITS * j <= k * BITS - BITS
        BY <1>2, <2>5
    <2>7. QED BY <1>1, <1>2, <2>4, <2>6 DEF Blocks
<1>6. QED BY <1>4, <1>5

\* The directory comes back with the same chains, and names still unique.
LEMMA LoadedRootKeeps ==
    ASSUME Careful, NEW f, NEW t, NEW r, Metadata(f, t, r)
    PROVE  Metadata(f, t, LoadedRoot(r))
<1> DEFINE r2 == LoadedRoot(r)
<1>1. /\ r \in [Entries -> Files] /\ Shortened \in [Names -> Names] /\ NoName \notin Names
    BY LayoutAssumption, RootAssumption DEF Metadata
<1>2. \A i \in Entries :
          /\ r2[i].firstBlock = r[i].firstBlock /\ r2[i].size = r[i].size
          /\ r[i].name = NoName => r2[i].name = NoName
          /\ r[i].name # NoName => /\ r[i].name \in Names
                                   /\ r2[i].name = Shortened[r[i].name]
          /\ r2[i] \in Files
    <2>1. SUFFICES ASSUME NEW i \in Entries
                   PROVE  /\ r2[i].firstBlock = r[i].firstBlock /\ r2[i].size = r[i].size
                          /\ r[i].name = NoName => r2[i].name = NoName
                          /\ r[i].name # NoName => /\ r[i].name \in Names
                                                   /\ r2[i].name = Shortened[r[i].name]
                          /\ r2[i] \in Files
        OBVIOUS
    <2>2. r[i] \in Files
        BY <1>1
    <2>3. r2[i] = IF r[i].name = NoName THEN r[i]
                  ELSE [r[i] EXCEPT !.name = Shortened[r[i].name]]
        BY DEF LoadedRoot
    <2>4. r[i].name # NoName => r[i].name \in Names /\ Shortened[r[i].name] \in Names
        BY <1>1, <2>2 DEF Files
    <2> HIDE DEF r2
    <2>5. QED BY <2>2, <2>3, <2>4 DEF Files
<1>3. r2 \in [Entries -> Files]
    <2>1. r2 = [i \in Entries |-> r2[i]]
        BY DEF LoadedRoot
    <2> HIDE DEF r2
    <2>2. QED BY <1>2, <2>1
<1> HIDE DEF r2
<1>4. Layout(f, t, r2, Chains(t, r))
    BY <1>2 DEF Metadata, Layout
<1>5. \A i \in Entries : /\ r2[i].size <= MaxSize
                         /\ Len(Chains(t, r)[i]) = Needed(r2[i].size)
    BY <1>2 DEF Metadata
<1>6. \A i \in Entries : r2[i].name = NoName <=> r[i].name = NoName
    BY <1>1, <1>2
<1>7. \A i \in Entries : r2[i].name = NoName => r2[i].size = 0
    BY <1>2, <1>6 DEF Metadata
<1>8. ASSUME NEW i \in Entries, NEW j \in Entries, r2[i].name = r2[j].name,
             r2[i].name # NoName
      PROVE  i = j
    <2>1. r[i].name # NoName /\ r[j].name # NoName
        BY <1>6, <1>8
    <2>2. Shortened[r[i].name] = Shortened[r[j].name]
        BY <1>2, <1>8, <2>1
    <2>3. r[i].name = r[j].name
        BY <1>2, <2>1, <2>2 DEF Careful
    <2>4. QED BY <2>1, <2>3 DEF Metadata
<1>9. Metadata(f, t, r2)
    BY <1>3, <1>4, <1>5, <1>7, <1>8, MetadataIntro
<1>10. QED BY <1>9 DEF r2

-----------------------------------------------------------------------------
(* Every step.                                                             *)

Current == [flags |-> flags, table |-> table, root |-> root]

\* A handler leaves the image alone or replaces it whole, by the metadata as
\* they are at its end.
LEMMA SyncedImage ==
    ASSUME NEW files, NEW dk, SyncToDisk(files, dk)
    PROVE  image' = image \/ image' = Current'
BY DEF SyncToDisk, Current

LEMMA NextImage ==
    ASSUME [Next]_vars
    PROVE  image' = image \/ image' = Current'
<1>1. ASSUME NEW name \in Names, NEW newSize \in NewSizes, fuseTruncate(name, newSize)
      PROVE  image' = image \/ image' = Current'
    BY <1>1, SyncedImage DEF fuseTruncate, Returns, Faults, storage
<1>2. ASSUME NEW h \in Handles, NEW newSize \in NewSizes, fuseTruncateOpen(h, newSize)
      PROVE  image' = image \/ image' = Current'
    BY <1>2, SyncedImage DEF fuseTruncateOpen, Returns, Faults, storage
<1>3. ASSUME NEW h \in Handles, NEW offset \in Offsets, NEW data \in Payloads,
             fuseWrite(h, offset, data)
      PROVE  image' = image \/ image' = Current'
    BY <1>3, SyncedImage DEF fuseWrite, Returns, Faults, storage
<1>4. ASSUME NEW name \in Names,
             \/ \E mode \in Modes : fuseMknod(name, mode)
             \/ fuseUnlink(name)
             \/ \E newName \in Names : fuseRename(name, newName)
             \/ \E mode \in Modes : fuseChmod(name, mode)
             \/ \E owner \in Owners : fuseChown(name, owner)
             \/ fuseOpen(name)
      PROVE  image' = image
    BY <1>4 DEF fuseMknod, fuseUnlink, fuseRename, fuseChmod, fuseChown, fuseOpen,
                Returns, Faults, storage
<1>5. ASSUME NEW h \in Handles,
             \/ fuseRelease(h)
             \/ \E offset \in Offsets, n \in ReadSizes : fuseRead(h, offset, n)
      PROVE  image' = image
    BY <1>5 DEF fuseRelease, fuseRead, Returns, Faults, storage
<1>6. CASE Tick \/ UNCHANGED vars
    BY <1>6 DEF Tick, vars, storage
<1>7. QED BY <1>1, <1>2, <1>3, <1>4, <1>5, <1>6 DEF Next

\* A new image is consistent if the structures in memory are.
LEMMA ImageKept ==
    ASSUME ImageOK, MetadataOK', image' = image \/ image' = Current'
    PROVE  ImageOK'
<1>1. CASE image' = image
    BY <1>1 DEF ImageOK, DumpedOnce
<1>2. CASE image' = Current'
    BY <1>2 DEF ImageOK, Current, MetadataOK
<1>3. QED BY <1>1, <1>2

\* Every container that a kill can leave is one.
LEMMA FlushedBelowType ==
    ASSUME NEW files \in [Handles -> OpenFile], NEW dk \in Disks,
           NEW g \in 0..NUM_OPEN_FILES
    PROVE  FlushedBelow(files, dk, g) \in Disks
<1> DEFINE Flushed(b) == {h \in 0..(g - 1) :
               ~files[h].isFree /\ files[h].dirty /\ files[h].blockNo = b}
           Highest(b) == CHOOSE h \in Flushed(b) : \A k \in Flushed(b) : k <= h
<1>1. NUM_OPEN_FILES \in Nat /\ g \in Nat /\ g <= NUM_OPEN_FILES
    BY OnDiskFSAssumption
<1>2. \A h \in 0..(g - 1) : h \in Handles /\ h \in Nat /\ g - h \in Nat
    BY <1>1 DEF Handles
<1>3. ASSUME NEW b \in Blocks, Flushed(b) # {} PROVE files[Highest(b)].buffer \in BlockData
    <2> DEFINE F == Flushed(b)
               T == {k \in Nat : \E h \in F : k = g - h}
    <2>1. F \subseteq 0..(g - 1)
        OBVIOUS
    <2>2. Highest(b) = CHOOSE h \in F : \A k \in F : k <= h
        OBVIOUS
    <2>3. F # {}
        BY <1>3
    <2> HIDE DEF F, Highest, Flushed
    <2>4. T \subseteq Nat /\ T # {}
        BY <1>2, <2>1, <2>3
    <2>5. PICK m \in T : \A k \in T : m <= k
        <3> HIDE DEF T
        <3>1. QED BY <2>4, LeastNat
    <2>6. PICK h \in F : m = g - h
        BY <2>5
    <2>7. ASSUME NEW k \in F PROVE k <= h
        <3>1. g - k \in T
            BY <1>2, <2>1
        <3>2. m <= g - k
            BY <2>5, <3>1
        <3>3. QED BY <1>1, <1>2, <2>1, <2>6, <3>2
    <2>8. Highest(b) \in F
        BY <2>2, <2>6, <2>7
    <2>9. files[Highest(b)] \in OpenFile
        BY <1>2, <2>1, <2>8
    <2>10. QED BY <2>9 DEF OpenFile
<1>4. FlushedBelow(files, dk, g)
          = [b \in Blocks |-> IF Flushed(b) = {} THEN dk[b] ELSE files[Highest(b)].buffer]
    BY DEF FlushedBelow
<1> HIDE DEF Flushed, Highest
<1>5. QED BY <1>3, <1>4 DEF Disks

LEMMA InSyncType ==
    ASSUME NEW files \in [Handles -> OpenFile], NEW dk \in Disks
    PROVE  InSync(files, dk) \subseteq Disks
BY FlushedBelowType DEF InSync

LEMMA InTruncateType ==
    ASSUME Session, NEW h \in Handles, opened[h] # NoName
    PROVE  InTruncate(h) \subseteq Disks
<1> DEFINE c == flushCache([file |-> openFiles[h], disk |-> disk])
           file == c.file
           dk == c.disk
           files == [openFiles EXCEPT ![h] = file]
<1>1. file \in OpenFile /\ dk \in Disks
    BY FlushOpen
<1>2. openFiles \in [Handles -> OpenFile]
    BY OpenHandle
<1>3. InTruncate(h) = InSync(files, dk)
    BY DEF InTruncate
<1> HIDE DEF file, dk
<1>4. files \in [Handles -> OpenFile]
    BY <1>1, <1>2
<1> HIDE DEF files
<1>5. QED BY <1>1, <1>3, <1>4, InSyncType

\* The head of a transfer is a transfer of its own, of one block.
LEMMA HeadAlone ==
    ASSUME NEW offset \in Nat, NEW n \in Nat \ {0}
    PROVE  /\ HeadSize(offset, n) \in 1..n
           /\ BlocksTouched(offset, HeadSize(offset, n)) = 1
           /\ BlocksTouched(offset, n) \in Nat \ {0}
<1>1. HeadSize(offset, n) \in 1..n /\ BlocksTouched(offset, n) \in Nat \ {0}
    BY TransferCut
<1>2. HeadSize(offset, HeadSize(offset, n)) = HeadSize(offset, n)
    BY DEF HeadSize
<1>3. QED BY <1>1, <1>2 DEF BlocksTouched

LEMMA InTransferType ==
    ASSUME NEW S, NEW c, NEW offset, NEW data \in Seq(Cells),
           Covered(S, c, BlockIndex(offset) + 1, offset, Len(data))
    PROVE  InTransfer(c, offset, data) \subseteq Disks
<1> DEFINE first == BlockIndex(offset) + 1
           n == Len(data)
           part == SubSeq(data, 1, HeadSize(offset, n))
           atHead == WriteData(c, first, offset, part).disk
           done == WriteData(c, first, offset, data).disk
           Upto(j) == {c.file.blockList[first + k] : k \in 1..j}
<1>1. offset \in Nat /\ n \in Nat \ {0} /\ Covered(S, c, first, offset, n)
    BY DEF Covered
<1>2. part \in Seq(Cells) /\ Len(part) = HeadSize(offset, n)
    BY <1>1, InHeadKeeps
<1>3. Covered(S, c, first, offset, Len(part))
    <2> DEFINE len == Len(part)
    <2>1. len \in Nat \ {0} /\ BlocksTouched(offset, len) = 1
          /\ BlocksTouched(offset, n) \in Nat \ {0}
        <3> HIDE DEF part, n
        <3>1. len = HeadSize(offset, n)
            BY <1>2
        <3> HIDE DEF len, first, atHead, done, Upto
        <3>2. /\ HeadSize(offset, n) \in 1..n
              /\ BlocksTouched(offset, HeadSize(offset, n)) = 1
              /\ BlocksTouched(offset, n) \in Nat \ {0}
            BY <1>1, HeadAlone
        <3>3. len \in 1..n /\ BlocksTouched(offset, len) = 1
            BY <3>1, <3>2, Zenon
        <3>4. QED BY <1>1, <3>2, <3>3
    <2>2. c.file.blockList \in BlockLists
        BY <1>1 DEF Covered, Guarded, Cache, OpenFile
    <2> HIDE DEF len, n, first
    <2>3. first + BlocksTouched(offset, n) - 1 <= Len(c.file.blockList) /\ first \in Nat
        BY <1>1 DEF Covered
    <2>4. Len(c.file.blockList) \in Nat
        BY <2>2, BlockListType
    <2>5. first + BlocksTouched(offset, len) - 1 <= Len(c.file.blockList)
        BY <2>1, <2>3, <2>4
    <2>6. Covered(S, c, first, offset, len)
        BY <1>1, <2>1, <2>5 DEF Covered
    <2>7. QED BY <2>6 DEF len
<1>4. atHead \in Disks
    <2> HIDE DEF part, first
    <2>1. WritesOnly(S, c, WriteData(c, first, offset, part))
        BY <1>2, <1>3, WriteDataStaysInList
    <2>2. QED BY <2>1 DEF WritesOnly, Guarded, Cache
<1>5. done \in Disks
    <2> HIDE DEF first
    <2>1. WritesOnly(S, c, WriteData(c, first, offset, data))
        BY <1>1, WriteDataStaysInList DEF n
    <2>2. QED BY <2>1 DEF WritesOnly, Guarded, Cache
<1>6. InTransfer(c, offset, data)
          = {[b \in Blocks |-> IF b \in Upto(j) THEN done[b] ELSE atHead[b]] :
                j \in 0..MiddleBlocks(offset, n)}
    BY DEF InTransfer
<1> HIDE DEF atHead, done, Upto
<1>7. QED BY <1>4, <1>5, <1>6 DEF Disks

LEMMA InWriteType ==
    ASSUME Session, NumbersFit, NEW h \in Handles, opened[h] # NoName,
           NEW offset \in Offsets, NEW data \in Payloads
    PROVE  InWrite(h, offset, data) \subseteq Disks
<1> DEFINE n == Len(data)
           longer == Longer(h, offset, n)
           before == WriteBefore(h, offset, n)
           after == WriteAfter(h, offset, data)
           file == after.file
           dk == after.disk
           files == [openFiles EXCEPT ![h] = file]
<1>1. /\ offset \in Nat /\ data \in Seq(Cells) /\ Len(data) # 0
      /\ openFiles \in [Handles -> OpenFile]
    <2>1. openFiles \in [Handles -> OpenFile]
        BY OpenHandle
    <2>2. offset \in Nat /\ data \in Seq(Cells) /\ data # <<>>
        BY OnDiskFSAssumption, TransferAssumption
    <2>3. QED BY <2>1, <2>2
<1>2. InWrite(h, offset, data) =
          IF /\ offset + n <= MaxSize
             /\ CanFind(flags, BlocksMissing(h, offset, n)) /\ ~WriteFaults(h, offset, n)
          THEN InTransfer(before, offset, data) \cup InSync(files, dk)
          ELSE {}
    BY Zenon DEF InWrite, WriteBefore, WriteAfter, Longer, CachedList
<1>3. SUFFICES ASSUME offset + n <= MaxSize, CanFind(flags, BlocksMissing(h, offset, n))
               PROVE  InTransfer(before, offset, data) \cup InSync(files, dk) \subseteq Disks
    BY <1>2
<1>4. WriteStarts(h, offset, n) /\ file \in OpenFile /\ dk \in Disks
    BY <1>1, <1>3, WriteMoves
<1>5. InTransfer(before, offset, data) \subseteq Disks
    <2>1. Covered(SetOfBlocks(longer), before, BlockIndex(offset) + 1, offset, n)
        BY <1>4 DEF WriteStarts
    <2> HIDE DEF longer, before
    <2>2. QED BY <1>1, <2>1, InTransferType
<1>6. InSync(files, dk) \subseteq Disks
    <2> HIDE DEF file, dk
    <2>1. files \in [Handles -> OpenFile]
        BY <1>1, <1>4
    <2> HIDE DEF files
    <2>2. QED BY <1>4, <2>1, InSyncType
<1>7. QED BY <1>5, <1>6

LEMMA InACallType == Session /\ NumbersFit => InACall \subseteq Disks
<1> SUFFICES ASSUME Session, NumbersFit PROVE InACall \subseteq Disks
    OBVIOUS
<1>1. openFiles \in [Handles -> OpenFile] /\ disk \in Disks
    BY DEF Session, HandlesFit, HandlesOK, StorageOK
<1>2. InSync(openFiles, disk) \subseteq Disks
    BY <1>1, InSyncType
<1>3. ASSUME NEW h \in Handles, opened[h] # NoName
      PROVE  /\ InTruncate(h) \subseteq Disks
             /\ \A offset \in Offsets, data \in Payloads :
                    InWrite(h, offset, data) \subseteq Disks
    BY <1>3, InTruncateType, InWriteType
<1>4. QED BY <1>2, <1>3 DEF InACall

\* A mount of consistent metadata begins a session that satisfies the
\* invariant.
LEMMA MountReachable ==
    ASSUME Careful, Session, NEW img \in Images, NEW dk \in Disks,
           Metadata(img.flags, img.table, img.root), Mount(img, dk)
    PROVE  Reachable'
<1>1. /\ FatFillsBlocks
      /\ flags' = LoadedFlags(img.flags) /\ nextBlock' = LoadedCursor(img.flags)
      /\ table' = img.table /\ root' = LoadedRoot(img.root)
      /\ openFiles' = [h \in Handles |-> UnusedHandle] /\ openFileCount' = 0
      /\ opened' = [h \in Handles |-> NoName]
      /\ image' = img /\ idle' = 0 /\ disk' = dk /\ fault' = FALSE
      /\ reply' = [call |-> "init", code |-> 0, data |-> <<>>]
    BY DEF Mount
<1>2. MetadataOK'
    <2>1. flags' = img.flags
        BY <1>1, LoadedFlagsSame DEF Images
    <2>2. Metadata(flags', table', root')
        BY <1>1, <2>1, LoadedRootKeeps
    <2>3. nextBlock' \in Blocks
        BY <1>1, LoadedCursorType
    <2>4. QED BY <2>2, <2>3 DEF MetadataOK
<1>3. HandlesFit'
    BY <1>1, NoHandles DEF HandlesFit
<1>4. StorageOK'
    BY <1>1, OnDiskFSAssumption DEF Session, StorageOK
<1>5. reply' \in Replies
    BY <1>1 DEF Replies
<1>6. ImageOK'
    BY <1>1 DEF ImageOK
<1>7. QED BY <1>1, <1>2, <1>3, <1>4, <1>5, <1>6 DEF Reachable, Session

\* The end of a session and the beginning of the next.
LEMMA RestartReachable ==
    ASSUME NumbersFit, Careful, Reachable, Remount \/ Crash
    PROVE  Reachable'
<1>1. /\ Session /\ image \in Images /\ Current \in Images /\ disk \in Disks
      /\ openFiles \in [Handles -> OpenFile]
    BY DEF Reachable, Session, StorageOK, HandlesFit, HandlesOK,
           MetadataOK, Metadata, Layout, Images, Current
<1>2. CASE Crash
    <2>1. DumpedOnce /\ \E dk \in {disk} \cup InACall : Mount(image, dk)
        BY <1>2 DEF Crash, Careful
    <2>2. PICK dk \in Disks : Mount(image, dk)
        BY <1>1, <2>1, InACallType
    <2>3. Metadata(image.flags, image.table, image.root)
        BY <2>1 DEF Reachable, ImageOK
    <2>4. QED BY <1>1, <2>2, <2>3, MountReachable
<1>3. CASE Remount
    <2> DEFINE dk == FlushedBelow(openFiles, disk, NUM_OPEN_FILES)
    <2>1. Mount(Current, dk)
        BY <1>3 DEF Remount, Current
    <2>2. dk \in Disks
        <3>1. NUM_OPEN_FILES \in 0..NUM_OPEN_FILES
            BY OnDiskFSAssumption
        <3>2. QED BY <1>1, <3>1, FlushedBelowType
    <2>3. Metadata(Current.flags, Current.table, Current.root)
        BY <1>1 DEF Current, Session, MetadataOK
    <2> HIDE DEF dk
    <2>4. QED BY <1>1, <2>1, <2>2, <2>3, MountReachable
<1>4. QED BY <1>2, <1>3

\* The invariant holds in every state of every session.
THEOREM SessionsInvariant ==
    ASSUME Mounted, NumbersFit, Careful
    PROVE  SessionsSpec => []Reachable
<1>1. SessionsInit => Reachable
    <2>1. Init => ~DumpedOnce
        BY DEF Init, DumpedOnce
    <2>2. QED BY <2>1, InitSession DEF SessionsInit, Reachable, ImageOK
<1>2. Reachable /\ [SessionsNext]_sessionVars => Reachable'
    <2> SUFFICES ASSUME Reachable, [SessionsNext]_sessionVars PROVE Reachable'
        OBVIOUS
    <2>1. CASE InSession \/ UNCHANGED sessionVars
        <3>1. [Next]_vars
            BY <2>1 DEF InSession, sessionVars
        <3>2. Session'
            BY <3>1, NextSession DEF Reachable
        <3>3. ImageOK'
            BY <3>1, <3>2, NextImage, ImageKept DEF Reachable, Session
        <3>4. QED BY <3>2, <3>3 DEF Reachable
    <2>2. CASE Remount \/ Crash
        BY <2>2, RestartReachable
    <2>3. QED BY <2>1, <2>2 DEF SessionsNext
<1>3. QED BY <1>1, <1>2, PTL DEF SessionsSpec

\* However each session ended, the next one has chains that fit the sizes,
\* blocks with one owner, an exact bitmap and unique names.
THEOREM ConsistentForEver ==
    ASSUME Mounted, NumbersFit, Careful
    PROVE  SessionsSpec => []SessionsConsistent
<1>1. Reachable => SessionsConsistent
    BY SessionConsistent DEF Reachable, SessionsConsistent
<1>2. QED BY <1>1, SessionsInvariant, PTL

\* No session finds a block of the metadata free.
THEOREM MarkedForEver ==
    ASSUME Mounted, NumbersFit, Careful
    PROVE  SessionsSpec => []MetadataMarked
<1>1. Reachable => MetadataMarked
    BY DEF Reachable, Session, MetadataOK, Metadata, Layout, MetadataMarked
<1>2. QED BY <1>1, SessionsInvariant, PTL

-----------------------------------------------------------------------------
(* A dump that the death of the process cuts short.                        *)

\* The structures lie one behind the other in the container, bitmap, table
\* and directory, and each flag, link and entry has a place in its own.
THEOREM StructuresApart ==
    /\ \A b \in Blocks :
          /\ dmapStart <= flagAt(b) /\ flagAt(b) < fatStart(CONTAINER_BLOCKS)
          /\ fatStart(CONTAINER_BLOCKS) <= linkAt(b)
          /\ linkAt(b) < rootStart(CONTAINER_BLOCKS)
    /\ \A i \in Entries : /\ rootStart(CONTAINER_BLOCKS) <= entryAt(i)
                           /\ entryAt(i) < dataStart(CONTAINER_BLOCKS)
<1> DEFINE n == CONTAINER_BLOCKS
           bytes == Ceiling(n, BITS)
<1>1. /\ n \in Nat /\ BITS \in Nat \ {0} /\ BLOCK_BYTES \in Nat \ {0}
      /\ NUM_DIR_ENTRIES \in Nat
    BY DmapAssumption, LayoutAssumption, RootAssumption
<1>2. bytes \in Nat /\ n <= BITS * bytes
    BY <1>1, CeilingType
<1>3. DmapBlocks(n) \in Nat /\ bytes <= BLOCK_BYTES * DmapBlocks(n)
    BY <1>1, <1>2, CeilingType DEF DmapBlocks
<1>4. FatBlocks(n) \in Nat /\ n <= LINKS_PER_BLOCK * FatBlocks(n)
    BY <1>1, LinksPerBlock, CeilingType DEF FatBlocks
<1>5. /\ fatStart(n) = 1 + DmapBlocks(n) /\ rootStart(n) = 1 + DmapBlocks(n) + FatBlocks(n)
      /\ dataStart(n) = 1 + DmapBlocks(n) + FatBlocks(n) + NUM_DIR_ENTRIES
    BY DEF dmapStart, fatStart, rootStart, dataStart, RootBlocks
<1> DEFINE bits == BITS * BLOCK_BYTES
<1>6. bits \in Nat \ {0} /\ n <= bits * DmapBlocks(n)
    <2> DEFINE d == DmapBlocks(n)
    <2>1. d \in Nat /\ bytes <= BLOCK_BYTES * d
        BY <1>3
    <2> HIDE DEF n, bytes, d
    <2>2. BITS * bytes <= BITS * (BLOCK_BYTES * d)
        BY <1>1, <1>2, <2>1
    <2>3. BITS * (BLOCK_BYTES * d) = bits * d /\ bits \in Nat \ {0}
        BY <1>1, <2>1
    <2>4. n <= bits * d
        <3>1. BITS * bytes \in Nat /\ bits * d \in Nat
            BY <1>1, <1>2, <2>1
        <3>2. QED BY <1>1, <1>2, <2>2, <2>3, <3>1
    <2>5. QED BY <2>3, <2>4 DEF d
<1>7. ASSUME NEW b \in Blocks, NEW size \in Nat \ {0}, NEW count \in Nat, n <= size * count
      PROVE  b \div size \in Nat /\ b \div size < count
    <2> DEFINE q == b \div size
    <2>1. b \in Nat /\ b < n
        BY <1>1 DEF Blocks
    <2>2. q \in Nat /\ b % size \in Nat /\ b = size * q + (b % size)
        BY <2>1, DivMod
    <2> HIDE DEF q, n
    <2>3. size * q < size * count
        <3>1. size * q \in Nat /\ size * count \in Nat
            BY <2>2
        <3>2. QED BY <1>1, <1>7, <2>1, <2>2, <3>1
    <2>4. QED BY <2>2, <2>3, CancelLess DEF q
<1>8. ASSUME NEW b \in Blocks
      PROVE  /\ dmapStart <= flagAt(b) /\ flagAt(b) < fatStart(n)
             /\ fatStart(n) <= linkAt(b) /\ linkAt(b) < rootStart(n)
    <2>1. b \div bits \in Nat /\ b \div bits < DmapBlocks(n)
        BY <1>3, <1>6, <1>7
    <2>2. b \div LINKS_PER_BLOCK \in Nat /\ b \div LINKS_PER_BLOCK < FatBlocks(n)
        BY <1>4, <1>7, LinksPerBlock
    <2>3. flagAt(b) = 1 + b \div bits /\ linkAt(b) = fatStart(n) + b \div LINKS_PER_BLOCK
        BY DEF flagAt, linkAt, dmapStart
    <2> HIDE DEF bits, n
    <2>4. QED BY <1>3, <1>4, <1>5, <2>1, <2>2, <2>3 DEF dmapStart
<1>9. ASSUME NEW i \in Entries
      PROVE  rootStart(n) <= entryAt(i) /\ entryAt(i) < dataStart(n)
    <2>1. i \in Nat /\ 1 <= i /\ i <= NUM_DIR_ENTRIES
        BY <1>1 DEF Entries
    <2>2. entryAt(i) = rootStart(n) + (i - 1)
        BY DEF entryAt
    <2> HIDE DEF n
    <2>3. QED BY <1>1, <1>3, <1>4, <1>5, <2>1, <2>2
<1>10. QED BY <1>8, <1>9

\* Places, starts and lengths are numbers.
LEMMA PlacesAreNumbers ==
    /\ DmapBlocks(CONTAINER_BLOCKS) \in Nat /\ FatBlocks(CONTAINER_BLOCKS) \in Nat
    /\ fatStart(CONTAINER_BLOCKS) = 1 + DmapBlocks(CONTAINER_BLOCKS)
    /\ rootStart(CONTAINER_BLOCKS) = fatStart(CONTAINER_BLOCKS) + FatBlocks(CONTAINER_BLOCKS)
    /\ \A b \in Blocks : flagAt(b) \in Nat /\ linkAt(b) \in Nat
    /\ \A i \in Entries : entryAt(i) \in Nat
<1>1. /\ CONTAINER_BLOCKS \in Nat /\ BITS \in Nat \ {0} /\ BLOCK_BYTES \in Nat \ {0}
      /\ NUM_DIR_ENTRIES \in Nat
    BY DmapAssumption, LayoutAssumption, RootAssumption
<1>2. DmapBlocks(CONTAINER_BLOCKS) \in Nat
    BY <1>1, CeilingType DEF DmapBlocks
<1>3. FatBlocks(CONTAINER_BLOCKS) \in Nat
    BY <1>1, CeilingType, LinksPerBlock DEF FatBlocks
<1>4. /\ fatStart(CONTAINER_BLOCKS) = 1 + DmapBlocks(CONTAINER_BLOCKS)
      /\ rootStart(CONTAINER_BLOCKS)
            = fatStart(CONTAINER_BLOCKS) + FatBlocks(CONTAINER_BLOCKS)
    BY DEF fatStart, rootStart, dmapStart
<1>5. ASSUME NEW b \in Blocks PROVE flagAt(b) \in Nat /\ linkAt(b) \in Nat
    <2>1. b \in Nat /\ BITS * BLOCK_BYTES \in Nat \ {0}
        BY <1>1 DEF Blocks
    <2>2. b \div (BITS * BLOCK_BYTES) \in Nat /\ b \div LINKS_PER_BLOCK \in Nat
        <3> DEFINE bits == BITS * BLOCK_BYTES
        <3>1. bits \in Nat \ {0}
            BY <2>1
        <3> HIDE DEF bits
        <3>2. b \div bits \in Nat /\ b \div LINKS_PER_BLOCK \in Nat
            BY <2>1, <3>1, DivMod, LinksPerBlock
        <3>3. QED BY <3>2 DEF bits
    <2>3. QED BY <1>2, <1>3, <1>4, <2>2 DEF flagAt, linkAt, dmapStart
<1>6. \A i \in Entries : entryAt(i) \in Nat
    BY <1>1, <1>2, <1>3, <1>4 DEF Entries, entryAt
<1>7. QED BY <1>2, <1>3, <1>4, <1>5, <1>6

\* The walk from a block of a chain is the rest of it.
LEMMA WalkFromWithin ==
    ASSUME NEW t, NEW s \in BlockLists, IsChain(t, s), NEW m \in 1..Len(s)
    PROVE  /\ WalkEnds(t, s[m])
           /\ SetOfBlocks(getBlockList(t, s[m])) \subseteq SetOfBlocks(s)
<1> DEFINE n == Len(s) - m + 1
           rest == [k \in 1..n |-> s[m + k - 1]]
<1>1. /\ Len(s) \in Nat /\ s \in [1..Len(s) -> Blocks] /\ DOMAIN s = 1..Len(s)
      /\ \A i, j \in 1..Len(s) : s[i] = s[j] => i = j
      /\ SetOfBlocks(s) = {s[i] : i \in 1..Len(s)}
    BY BlockListType
<1>2. n \in Nat \ {0} /\ \A k \in 1..n : m + k - 1 \in 1..Len(s) /\ rest[k] = s[m + k - 1]
    BY <1>1
<1>3. rest \in [1..n -> Blocks] /\ \A i, j \in 1..n : rest[i] = rest[j] => i = j
    BY <1>1, <1>2, SMTT(30)
<1>4. rest \in BlockLists
    BY <1>2, <1>3, BlockListIntro
<1>5. rest[1] = s[m] /\ s[m] \in Links
    BY <1>1, <1>2 DEF Links
<1> HIDE DEF rest
<1>6. Len(rest) = n /\ DOMAIN rest = 1..n
    <2>1. DOMAIN rest = 1..n
        BY <1>3
    <2>2. DOMAIN rest = 1..Len(rest) /\ Len(rest) \in Nat
        BY <1>4, BlockListType
    <2>3. 1..n = 1..Len(rest)
        BY <2>1, <2>2
    <2> DEFINE len == Len(rest)
    <2>4. len \in Nat /\ 1..n = 1..len
        BY <2>2, <2>3
    <2> HIDE DEF len, n
    <2>5. n <= len
        <3>1. n \in 1..len
            BY <1>2, <2>4
        <3>2. QED BY <1>2, <2>4, <3>1
    <2>6. len <= n
        <3>1. len \in 1..n
            BY <1>2, <2>4, <2>5
        <3>2. QED BY <1>2, <2>4, <3>1
    <2>7. QED BY <1>2, <2>1, <2>4, <2>5, <2>6 DEF len
<1>7. rest \in BlockListsFrom[s[m]]
    <2>1. rest # <<>>
        BY <1>2, <1>6
    <2>2. QED BY <1>4, <1>5, <2>1, ListsFrom
<1>8. IsChain(t, rest)
    <2>1. SUFFICES ASSUME NEW k \in 1..n
                   PROVE  t[rest[k]] = IF k = n THEN END_OF_CLUSTER ELSE rest[k + 1]
        BY <1>6 DEF IsChain
    <2>2. t[s[m + k - 1]] = IF m + k - 1 = Len(s) THEN END_OF_CLUSTER ELSE s[m + k - 1 + 1]
        BY <1>1, <1>2 DEF IsChain
    <2>3. k # n => k + 1 \in 1..n /\ rest[k + 1] = s[m + k - 1 + 1]
        BY <1>1, <1>2
    <2>4. m + k - 1 = Len(s) <=> k = n
        BY <1>1
    <2>5. QED BY <1>2, <2>2, <2>3, <2>4
<1>9. WalkEnds(t, s[m]) /\ getBlockList(t, s[m]) = rest
    BY <1>5, <1>7, <1>8, GetBlockList
<1>10. SetOfBlocks(rest) \subseteq SetOfBlocks(s)
    <2>1. SetOfBlocks(rest) = {rest[k] : k \in 1..n}
        BY <1>6 DEF SetOfBlocks
    <2>2. QED BY <1>1, <1>2, <2>1
<1>11. QED BY <1>9, <1>10

\* The blocks of a file in an image that is consistent, as the chains of the
\* invariant list them.
LEMMA ImageChains ==
    ASSUME NEW img, Metadata(img.flags, img.table, img.root), NEW i \in Entries
    PROVE  /\ BlocksIn(img, i) = SetOfBlocks(Chains(img.table, img.root)[i])
           /\ WalkEnds(img.table, img.root[i].firstBlock)
           /\ BlocksIn(img, i) \subseteq Blocks
           /\ \A b \in BlocksIn(img, i) : img.flags[b]
           /\ \A j \in Entries : i # j =>
                  BlocksIn(img, i) \cap SetOfBlocks(Chains(img.table, img.root)[j]) = {}
<1>1. /\ Chains(img.table, img.root)[i] = getBlockList(img.table, img.root[i].firstBlock)
      /\ Chains(img.table, img.root)[i] \in BlockLists
      /\ WalkEnds(img.table, img.root[i].firstBlock)
    BY ChainFacts
<1>2. BlocksIn(img, i) = SetOfBlocks(Chains(img.table, img.root)[i])
    BY <1>1 DEF BlocksIn
<1>3. BlocksIn(img, i) \subseteq Blocks
    BY <1>1, <1>2, BlockListType
<1>4. \A b \in BlocksIn(img, i) : img.flags[b]
    BY <1>2, <1>3 DEF Metadata, Layout
<1>5. \A j \in Entries : i # j =>
          BlocksIn(img, i) \cap SetOfBlocks(Chains(img.table, img.root)[j]) = {}
    BY <1>2 DEF Metadata, Layout
<1>6. QED BY <1>1, <1>2, <1>3, <1>4, <1>5

\* While only the bitmap is written, the chains are the old ones, and marked
\* by either bitmap.
LEMMA TornInBitmap ==
    ASSUME NEW old \in Images, NEW new \in Images, Sound(old),
           Metadata(new.flags, new.table, new.root),
           \A i \in Entries : BlocksIn(old, i) \subseteq BlocksIn(new, i),
           NEW k \in Nat, k <= DmapBlocks(CONTAINER_BLOCKS)
    PROVE  Sound(Torn(old, new, k))
<1> DEFINE torn == Torn(old, new, k)
<1>1. dmapStart + k <= fatStart(CONTAINER_BLOCKS)
    <2>1. DmapBlocks(CONTAINER_BLOCKS) \in Nat
        BY CeilingType, DmapAssumption, LayoutAssumption DEF DmapBlocks
    <2>2. QED BY <2>1 DEF fatStart, dmapStart
<1>2. \A b \in Blocks : ~Dumped(linkAt(b), k)
    BY <1>1, StructuresApart, PlacesAreNumbers DEF Dumped, dmapStart
<1>3. \A i \in Entries : ~Dumped(entryAt(i), k)
    BY <1>1, StructuresApart, PlacesAreNumbers DEF Dumped, dmapStart
<1>4. torn.table = old.table /\ torn.root = old.root
    BY <1>2, <1>3 DEF Torn, Images
<1>5. \A i \in Entries : BlocksIn(torn, i) = BlocksIn(old, i)
    BY <1>4 DEF BlocksIn
<1>6. ASSUME NEW i \in Entries, NEW b \in BlocksIn(torn, i) PROVE torn.flags[b]
    <2>1. b \in Blocks /\ new.flags[b]
        BY <1>5, <1>6, ImageChains
    <2>2. old.flags[b]
        BY <1>5, <1>6 DEF Sound
    <2>3. QED BY <2>1, <2>2 DEF Torn
<1> HIDE DEF torn
<1>7. Sound(torn)
    BY <1>4, <1>5, <1>6 DEF Sound
<1>8. QED BY <1>7 DEF torn

\* Once the table is written, every entry of the directory, old or new, begins
\* a chain within the new blocks of its file.
LEMMA TornInDirectory ==
    ASSUME NEW old \in Images, NEW new \in Images, Sound(old),
           Metadata(new.flags, new.table, new.root),
           \A i \in Entries : BlocksIn(old, i) \subseteq BlocksIn(new, i),
           NEW k \in Nat, rootStart(CONTAINER_BLOCKS) <= dmapStart + k
    PROVE  Sound(Torn(old, new, k))
<1> DEFINE torn == Torn(old, new, k)
<1>1. \A b \in Blocks : Dumped(flagAt(b), k) /\ Dumped(linkAt(b), k)
    BY StructuresApart, PlacesAreNumbers DEF Dumped, dmapStart
<1>2. torn.flags = new.flags /\ torn.table = new.table
    BY <1>1 DEF Torn, Images
<1>3. \A i \in Entries : torn.root[i] \in {old.root[i], new.root[i]}
    BY DEF Torn
<1>4. ASSUME NEW i \in Entries
      PROVE  /\ WalkEnds(new.table, old.root[i].firstBlock)
             /\ SetOfBlocks(getBlockList(new.table, old.root[i].firstBlock))
                    \subseteq BlocksIn(new, i)
    <2> DEFINE first == old.root[i].firstBlock
               s == Chains(new.table, new.root)[i]
    <2>1. first \in Links
        BY DEF Images, Files
    <2>2. CASE first = END_OF_CLUSTER
        <3>1. <<>> \in BlockListsFrom[first] /\ IsChain(new.table, <<>>)
            BY <2>1, <2>2, EmptyList, ListsFrom DEF IsChain
        <3>2. QED BY <2>1, <3>1, GetBlockList, EmptyList
    <2>3. CASE first # END_OF_CLUSTER
        <3>1. first \in BlocksIn(old, i)
            <4>1. WalkEnds(old.table, first)
                BY DEF Sound
            <4>2. getBlockList(old.table, first) \in BlockListsFrom[first]
                BY <4>1 DEF WalkEnds, getBlockList
            <4> DEFINE walk == getBlockList(old.table, first)
            <4>3. walk \in BlockLists /\ walk # <<>> /\ walk[1] = first
                BY <2>1, <2>3, <4>2, ListsFrom
            <4> HIDE DEF walk
            <4>4. walk[1] \in SetOfBlocks(walk)
                <5>1. /\ walk \in Seq(Blocks) /\ Len(walk) \in Nat
                      /\ SetOfBlocks(walk) = {walk[m] : m \in 1..Len(walk)}
                    BY <4>3, BlockListType
                <5>2. 1 \in 1..Len(walk)
                    BY <4>3, <5>1
                <5>3. QED BY <5>1, <5>2
            <4>5. QED BY <4>3, <4>4 DEF BlocksIn, walk
        <3>2. s \in BlockLists /\ IsChain(new.table, s) /\ BlocksIn(new, i) = SetOfBlocks(s)
            BY ImageChains DEF Metadata, Layout
        <3> HIDE DEF s, first
        <3>3. PICK m \in 1..Len(s) : first = s[m]
            BY <3>1, <3>2, BlockListType
        <3>4. WalkEnds(new.table, s[m])
              /\ SetOfBlocks(getBlockList(new.table, s[m])) \subseteq SetOfBlocks(s)
            BY <3>2, WalkFromWithin
        <3>5. QED BY <3>2, <3>3, <3>4 DEF first
    <2>4. QED BY <2>2, <2>3
<1>5. \A i \in Entries : /\ WalkEnds(torn.table, torn.root[i].firstBlock)
                         /\ BlocksIn(torn, i) \subseteq BlocksIn(new, i)
    <2>1. SUFFICES ASSUME NEW i \in Entries
                   PROVE  /\ WalkEnds(torn.table, torn.root[i].firstBlock)
                          /\ BlocksIn(torn, i) \subseteq BlocksIn(new, i)
        OBVIOUS
    <2> HIDE DEF torn
    <2>2. CASE torn.root[i] = new.root[i]
        BY <1>2, <2>2, ImageChains DEF BlocksIn
    <2>3. CASE torn.root[i] = old.root[i]
        BY <1>2, <1>4, <2>3 DEF BlocksIn
    <2>4. QED BY <1>3, <2>2, <2>3
<1> HIDE DEF torn
<1>6. \A i \in Entries : \A b \in BlocksIn(torn, i) : torn.flags[b]
    BY <1>2, <1>5, ImageChains
<1>7. ASSUME NEW i \in Entries, NEW j \in Entries, i # j
      PROVE  BlocksIn(torn, i) \cap BlocksIn(torn, j) = {}
    <2>1. BlocksIn(new, i) \cap BlocksIn(new, j) = {}
        BY <1>7, ImageChains
    <2>2. QED BY <1>5, <2>1
<1>8. Sound(torn)
    BY <1>5, <1>6, <1>7 DEF Sound
<1>9. QED BY <1>8 DEF torn

\* A step that changes the image dumps consistent metadata.
LEMMA NewImage ==
    ASSUME Mounted, NumbersFit, Careful, Reachable, [SessionsNext]_sessionVars,
           image' # image
    PROVE  /\ image \in Images /\ image' \in Images
           /\ Metadata(image'.flags, image'.table, image'.root)
<1>1. Session /\ image \in Images
    BY DEF Reachable, Session, StorageOK
<1>2. CASE InSession \/ UNCHANGED sessionVars
    <2>1. [Next]_vars
        BY <1>2 DEF InSession, sessionVars
    <2>2. Session' /\ image' = Current'
        BY <1>1, <2>1, NextSession, NextImage
    <2>3. QED BY <1>1, <2>2 DEF Session, StorageOK, MetadataOK, Current
<1>3. CASE Remount \/ Crash
    <2>1. image' = Current
        BY <1>3 DEF Remount, Crash, Mount, Current
    <2>2. QED BY <1>1, <2>1 DEF Session, MetadataOK, Metadata, Layout, Images, Current
<1>4. QED BY <1>2, <1>3 DEF SessionsNext

\* A dump cut short by the death of the process leaves no block to two files
\* and none unmarked, unless a file had lost blocks or the cut was in the
\* table.
THEOREM TearingSafe ==
    ASSUME Mounted, NumbersFit, Careful
    PROVE  SessionsSpec => TearingKeepsOwners
<1>1. Reachable /\ [SessionsNext]_sessionVars => TornSoundly
    <2> SUFFICES ASSUME Reachable, [SessionsNext]_sessionVars, image' # image, Sound(image),
                        \A i \in Entries : BlocksIn(image, i) \subseteq BlocksIn(image', i),
                        NEW k \in 1..DumpBlocks,
                        k \notin (DmapBlocks(CONTAINER_BLOCKS) + 1)
                                    ..(DumpBlocks - RootBlocks - 1)
                 PROVE  Sound(Torn(image, image', k))
        BY DEF TornSoundly
    <2>1. /\ image \in Images /\ image' \in Images
          /\ Metadata(image'.flags, image'.table, image'.root)
        BY NewImage
    <2>2. k \in Nat /\ DmapBlocks(CONTAINER_BLOCKS) \in Nat
          /\ FatBlocks(CONTAINER_BLOCKS) \in Nat /\ RootBlocks \in Nat
        <3>1. RootBlocks \in Nat /\ dmapStart = 1
            BY RootAssumption DEF RootBlocks, dmapStart
        <3>2. DumpBlocks \in Int
            BY <3>1, PlacesAreNumbers DEF DumpBlocks, dataStart
        <3>3. QED BY <3>1, <3>2, PlacesAreNumbers
    <2>3. /\ rootStart(CONTAINER_BLOCKS)
                = 1 + DmapBlocks(CONTAINER_BLOCKS) + FatBlocks(CONTAINER_BLOCKS)
          /\ DumpBlocks - RootBlocks = rootStart(CONTAINER_BLOCKS) - dmapStart
          /\ dmapStart = 1
        BY <2>2 DEF DumpBlocks, dataStart, rootStart, fatStart, dmapStart
    <2>4. \/ k <= DmapBlocks(CONTAINER_BLOCKS)
          \/ rootStart(CONTAINER_BLOCKS) <= dmapStart + k
        BY <2>2, <2>3
    <2>5. QED BY <2>1, <2>2, <2>4, TornInBitmap, TornInDirectory
<1>2. QED BY <1>1, SessionsInvariant, PTL DEF SessionsSpec, TearingKeepsOwners
=============================================================================
