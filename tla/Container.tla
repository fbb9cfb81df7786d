----------------------------- MODULE Container ------------------------------
(***************************************************************************)
(* The block numbers of a container (src/includes/myfs-structs.h), and the *)
(* words they are kept in.                                                 *)
(***************************************************************************)
EXTENDS Integers, Sequences

CONSTANTS
    CONTAINER_BLOCKS,   \* blocks of the container file
    DATA_START,         \* first block after the superblock, DMAP, FAT and root
    WORD                \* values of a uint32_t, in which block numbers are counted

Blocks == 0..(CONTAINER_BLOCKS - 1)

\* The blocks that hold file contents.
DataBlocks == DATA_START..(CONTAINER_BLOCKS - 1)

\* The last value of the word, and zero.
END_OF_CLUSTER == WORD - 1

FREE == 0

Links == Blocks \cup {END_OF_CLUSTER}
=============================================================================
