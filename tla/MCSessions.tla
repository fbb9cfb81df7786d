----------------------------- MODULE MCSessions -----------------------------
(***************************************************************************)
(* Sessions with blocks of one byte: the contents and the metadata.        *)
(***************************************************************************)
EXTENDS Sessions, TLC

CONSTANTS a, b, zero, x

MCPayloads == {<<x>>, <<zero, x>>}

MCShortened == [name \in Names |-> name]

Symmetry == Permutations({a, b})

\* The table entries of the blocks in use.
InUse(bitmap, links) == [k \in Blocks |-> IF bitmap[k] THEN links[k] ELSE FREE]

\* As in MCData, but of the image, too, what a mount can come to read.  Nor
\* does it matter what a block holds that no file has now or had at the last
\* dump: every byte by which a file grows here is written.
View ==
    <<flags, nextBlock, InUse(flags, table), root, openFileCount, idle, opened, fault, atRisk,
      image.flags, InUse(image.flags, image.table), image.root,
      [k \in Blocks |-> IF flags[k] \/ image.flags[k] THEN disk[k] ELSE UnusedHandle.buffer],
      [h \in Handles |-> IF openFiles[h].isFree
                         THEN [openFiles[h] EXCEPT !.blockList = <<>>]
                         ELSE openFiles[h]]>>
=============================================================================
