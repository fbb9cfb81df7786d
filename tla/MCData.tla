------------------------------- MODULE MCData -------------------------------
(***************************************************************************)
(* OnDiskFS with bytes that differ and two handles: the contents.          *)
(***************************************************************************)
EXTENDS OnDiskFS, TLC

CONSTANTS a, b, zero, x

\* A part of a block, and two blocks and a part.
MCPayloads == {<<x>>, <<zero, x, x, zero, x>>}

OneByte == {<<x>>, <<zero>>}

Symmetry == Permutations({a, b})

\* The image and the reply are not read by any handler, nor is the block list
\* of a free handle; nor, while AllocationExact holds, the table entries of
\* free blocks; nor, while names are unique and handles go by name, the order of
\* the entries.  Nor does it matter what a free block holds that no handle keeps:
\* every byte by which a file grows here is written.
View ==
    <<flags, nextBlock, {root[i] : i \in Entries}, openFileCount, idle, opened, fault,
      [k \in Blocks |-> IF flags[k] \/ \E h \in Handles : openFiles[h].blockNo = k
                        THEN disk[k] ELSE UnusedHandle.buffer],
      [k \in Blocks |-> IF flags[k] THEN table[k] ELSE FREE],
      [h \in Handles |-> IF openFiles[h].isFree
                         THEN [openFiles[h] EXCEPT !.blockList = <<>>]
                         ELSE openFiles[h]]>>
=============================================================================
