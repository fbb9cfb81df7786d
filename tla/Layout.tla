------------------------------- MODULE Layout -------------------------------
(***************************************************************************)
(* Where the metadata lies in the container (src/src/Superblock.cpp), and  *)
(* what becomes of the bitmap, the table and the directory when they are   *)
(* serialised to its blocks and read back.                                 *)
(***************************************************************************)
EXTENDS Root

CONSTANTS
    BITS,           \* bits in a byte
    BLOCK_BYTES,    \* bytes in a block
    WORD_BYTES,     \* bytes in a uint32_t
    Shortened       \* the name that is left of each: its first NAME_LENGTH characters

ASSUME LayoutAssumption ==
    /\ BITS \in Nat \ {0}
    /\ WORD_BYTES \in Nat \ {0}
    /\ BLOCK_BYTES \in Nat \ {0}
    /\ BLOCK_BYTES % WORD_BYTES = 0
    /\ Shortened \in [Names -> Names]
    /\ \A name \in Names \ LongNames : Shortened[name] = name

\* Division that rounds up.
Ceiling(m, k) == (m + k - 1) \div k

LINKS_PER_BLOCK == BLOCK_BYTES \div WORD_BYTES

\* requiredBlocks of Dmap, Fat and Root.
DmapBlocks(n) == Ceiling(Ceiling(n, BITS), BLOCK_BYTES)
FatBlocks(n) == Ceiling(n, LINKS_PER_BLOCK)
RootBlocks == NUM_DIR_ENTRIES

\* Superblock::init: one structure behind the other.
dmapStart == 1
fatStart(n) == dmapStart + DmapBlocks(n)
rootStart(n) == fatStart(n) + FatBlocks(n)
dataStart(n) == rootStart(n) + RootBlocks

-----------------------------------------------------------------------------
(* What syncToDisk dumps, block by block, for a container of               *)
(* CONTAINER_BLOCKS blocks: first the bitmap, then the table, then the     *)
(* directory.                                                              *)

DumpBlocks == dataStart(CONTAINER_BLOCKS) - dmapStart

\* The block of the container that a flag, a link or an entry is written to.
flagAt(b) == dmapStart + b \div (BITS * BLOCK_BYTES)

linkAt(b) == fatStart(CONTAINER_BLOCKS) + b \div LINKS_PER_BLOCK

entryAt(i) == rootStart(CONTAINER_BLOCKS) + (i - 1)

\* The directory dumped first (a mutant).
RootFirst(at, k) ==
    IF at >= rootStart(CONTAINER_BLOCKS)
    THEN at < rootStart(CONTAINER_BLOCKS) + k
    ELSE at < dmapStart + k - RootBlocks

\* Whether block `at` of the container is among the first k that are written.
Dumped(at, k) == at < dmapStart + k

\* The metadata on disk when k blocks of a dump of `new` over `old` are written.
Torn(old, new, k) ==
    [flags |-> [b \in Blocks |-> IF Dumped(flagAt(b), k) THEN new.flags[b] ELSE old.flags[b]],
     table |-> [b \in Blocks |-> IF Dumped(linkAt(b), k) THEN new.table[b] ELSE old.table[b]],
     root |-> [i \in Entries |-> IF Dumped(entryAt(i), k) THEN new.root[i] ELSE old.root[i]]]

-----------------------------------------------------------------------------
(* What readMetadata makes of it.                                          *)

\* A bitmap read in behind the flags that are there already (a mutant).
LoadedBehindOld(flags) == [b \in Blocks |-> FALSE]

\* Dmap::serialize leaves out a last byte that is not full, which is then read
\* as the zeroes of the padding.
LoadedFlags(flags) ==
    [b \in Blocks |-> flags[b] /\ (b \div BITS + 1) * BITS <= CONTAINER_BLOCKS]

\* The bytes of the bitmap on disk that are not 0xFF.
OpenBytes(flags) ==
    {i \in 0..(Ceiling(CONTAINER_BLOCKS, BITS) - 1) :
        \E b \in (i * BITS)..(i * BITS + BITS - 1) :
            b \notin Blocks \/ ~LoadedFlags(flags)[b]}

\* The cursor after Dmap::deserialize: the first block of the first such byte,
\* metadata or not, and where the constructor put it if there is none.
LoadedCursor(flags) ==
    IF OpenBytes(flags) = {} THEN 0
    ELSE BITS * (CHOOSE i \in OpenBytes(flags) : \A j \in OpenBytes(flags) : i <= j)

\* A name is stored with its length in one byte, and cut to what that counts.
LoadedRoot(root) ==
    [i \in Entries |->
        IF root[i].name = NoName THEN root[i]
        ELSE [root[i] EXCEPT !.name = Shortened[root[i].name]]]

\* Fat::deserialize throws unless the table fills its blocks.
FatFillsBlocks == FatBlocks(CONTAINER_BLOCKS) * LINKS_PER_BLOCK = CONTAINER_BLOCKS
=============================================================================
