--------------------------- MODULE TransferLoops ----------------------------
(***************************************************************************)
(* The data loops of fuseRead and fuseWrite (src/src/myondiskfs.cpp), one  *)
(* step per block they move, over a block device that may fail             *)
(* (src/src/blockdevice.cpp): its results are ignored.  They are compared  *)
(* with what Transfer.tla says they do, which is what OnDiskFS uses.       *)
(***************************************************************************)
EXTENDS Transfer

CONSTANTS
    Lists,          \* the block lists the file may have
    Stored,         \* what the container holds at the call
    Other,          \* a block that differs from all of those
    Written,        \* the bytes a write passes, as many of them as it needs
    DeviceFails     \* whether a block may not be read or written

VARIABLES
    file, disk,     \* the open handle, and the container
    call, offset, size,     \* the handler and its arguments
    index,          \* blockIndex of fuseRead; of fuseWrite, where `it` stands
    done,           \* head - buf, the bytes moved so far
    out,            \* what fuseRead has put into buf
    pc,
    entry           \* file and disk at the call

vars == <<file, disk, call, offset, size, index, done, out, pc, entry>>
arguments == <<call, offset, size, entry>>

data == SubSeq(Written, 1, size)

\* Any call inside the block list, with any block in the cache: none, one of
\* this file, or one an earlier user of the handle left there.  The buffer is
\* that block or, if it is dirty or stale, another.
Init ==
    /\ disk = Stored
    /\ call \in {"read", "write"}
    /\ \E list \in Lists, b \in Links, dirty \in BOOLEAN :
          /\ dirty => \E k \in DOMAIN list : list[k] = b
          /\ \E bytes \in {Other} \cup {Stored[c] : c \in {b} \cap Blocks} :
                file = [isFree |-> FALSE, dirty |-> dirty, blockNo |-> b,
                        buffer |-> bytes, blockList |-> list]
    /\ offset \in 0..(Len(file.blockList) * BLOCK_SIZE - 1)
    /\ size \in 1..(Len(file.blockList) * BLOCK_SIZE - offset)
    /\ index = BlockIndex(offset)
    /\ done = 0 /\ out = <<>>
    /\ pc = "first"
    /\ entry = [file |-> file, disk |-> disk]

block == file.blockList[index + 1]

remaining == size - done

-----------------------------------------------------------------------------
(* BlockDevice, and cacheBlock over it.  Every access may fail, and nobody *)
(* looks at the result.                                                    *)

Outcomes == IF DeviceFails THEN BOOLEAN ELSE {TRUE}

\* A failed write leaves the block of the container as it is.
write(dk, b, bytes, ok) == IF ok THEN [dk EXCEPT ![b] = bytes] ELSE dk

\* A failed read leaves the buffer as it is.
read(dk, b, bytes, ok) == IF ok THEN dk[b] ELSE bytes

\* A new block loaded over a dirty one (a mutant).
LoadedOver(b, flushed, loaded) ==
    IF file.blockNo = b THEN [file |-> file, disk |-> disk]
    ELSE [file |-> [file EXCEPT !.dirty = FALSE, !.blockNo = b,
                                !.buffer = read(disk, b, @, loaded)],
          disk |-> disk]

\* cacheBlock: the dirty block out, the new one in.
Cached(b, flushed, loaded) ==
    IF file.blockNo = b THEN [file |-> file, disk |-> disk]
    ELSE LET dk == IF file.dirty THEN write(disk, file.blockNo, file.buffer, flushed)
                                 ELSE disk
         IN  [file |-> [file EXCEPT !.dirty = FALSE, !.blockNo = b,
                                    !.buffer = read(dk, b, @, loaded)],
              disk |-> dk]

Min2(m, n) == IF m < n THEN m ELSE n

-----------------------------------------------------------------------------
\* The bytes of the first block.
ReadFirst ==
    /\ call = "read" /\ pc = "first"
    /\ \E flushed, loaded \in Outcomes :
          LET c == Cached(block, flushed, loaded)
              at == offset % BLOCK_SIZE
              toRead == Min2(remaining, BLOCK_SIZE - at)
          IN  /\ file' = c.file /\ disk' = c.disk
              /\ out' = [k \in 1..toRead |-> c.file.buffer[at + k - 1]]
              /\ done' = toRead
    /\ pc' = "rest"
    /\ UNCHANGED <<index, arguments>>

\* A full block, straight into buf; if the read fails, buf keeps what the
\* caller had there.
ReadMiddle ==
    /\ call = "read" /\ pc = "rest" /\ remaining > BLOCK_SIZE
    /\ index' = index + 1
    /\ \E loaded \in Outcomes :
          LET bytes == read(disk, file.blockList[index + 2], Other, loaded)
          IN  out' = out \o [k \in 1..BLOCK_SIZE |-> bytes[k - 1]]
    /\ done' = done + BLOCK_SIZE
    /\ UNCHANGED <<file, disk, pc, arguments>>

\* What is left, a block at most.
ReadLast ==
    /\ call = "read" /\ pc = "rest" /\ remaining \in 1..BLOCK_SIZE
    /\ index' = index + 1
    /\ \E flushed, loaded \in Outcomes :
          LET c == Cached(file.blockList[index + 2], flushed, loaded)
          IN  /\ file' = c.file /\ disk' = c.disk
              /\ out' = out \o [k \in 1..remaining |-> c.file.buffer[k - 1]]
    /\ done' = size
    /\ UNCHANGED <<pc, arguments>>

\* The next `count` bytes of the data into the buffer of c, from position at.
Filled(c, at, count) ==
    [c.file EXCEPT !.dirty = TRUE,
                   !.buffer = [p \in Positions |->
                        IF p >= at /\ p < at + count THEN data[done + p - at + 1]
                                                     ELSE @[p]]]

WriteFirst ==
    /\ call = "write" /\ pc = "first"
    /\ \E flushed, loaded \in Outcomes :
          LET c == Cached(block, flushed, loaded)
              at == offset % BLOCK_SIZE
              firstSize == Min2(size, BLOCK_SIZE - at)
          IN  /\ file' = Filled(c, at, firstSize)
              /\ disk' = c.disk
              /\ done' = firstSize
    /\ index' = index + 1
    /\ pc' = "rest"
    /\ UNCHANGED <<out, arguments>>

\* A middle loop that leaves a whole last block to nobody (a mutant).
MiddleTakesLast == remaining >= BLOCK_SIZE

\* The condition of the loops over full blocks.
MoreThanABlock == remaining > BLOCK_SIZE

WriteMiddle ==
    /\ call = "write" /\ pc = "rest" /\ MoreThanABlock
    /\ \E ok \in Outcomes :
          disk' = write(disk, block, [p \in Positions |-> data[done + p + 1]], ok)
    /\ index' = index + 1
    /\ done' = done + BLOCK_SIZE
    /\ UNCHANGED <<file, out, pc, arguments>>

WriteLast ==
    /\ call = "write" /\ pc = "rest" /\ remaining \in 1..BLOCK_SIZE
    /\ \E flushed, loaded \in Outcomes :
          LET c == Cached(block, flushed, loaded)
          IN  /\ file' = Filled(c, 0, remaining)
              /\ disk' = c.disk
    /\ done' = size
    /\ UNCHANGED <<index, out, pc, arguments>>

\* Both handlers return the number of bytes, whatever the device said.
Return ==
    /\ pc = "rest" /\ remaining = 0
    /\ pc' = "moved"
    /\ UNCHANGED <<file, disk, index, done, out, arguments>>

Next ==
    \/ ReadFirst \/ ReadMiddle \/ ReadLast
    \/ WriteFirst \/ WriteMiddle \/ WriteLast
    \/ Return

Spec == Init /\ [][Next]_vars

-----------------------------------------------------------------------------
\* Block by block, a write leaves the handle and the container that WriteData
\* gives for the whole, and a read those of ReadData and its bytes: the three
\* parts of each loop cut the transfer at the same places.
MovesWhatTransferSays ==
    pc = "moved" =>
        LET first == BlockIndex(offset) + 1
        IN  IF call = "write"
            THEN [file |-> file, disk |-> disk] = WriteData(entry, first, offset, data)
            ELSE LET r == ReadData(entry, first, offset, size)
                 IN  [file |-> file, disk |-> disk] = r.cache /\ out = r.data

\* Byte k of the file, as a read through the handle finds it.
ByteAt(k) ==
    LET b == file.blockList[k \div BLOCK_SIZE + 1]
    IN  (IF file.blockNo = b THEN file.buffer ELSE disk[b])[k % BLOCK_SIZE]

\* "Number of bytes written on success, -ERRNO on failure": when fuseWrite
\* returns the number of bytes, they are in the file, those that came first
\* not lost when the cache moved on to the last block.
WrittenIsThere ==
    pc = "moved" /\ call = "write" =>
        \A k \in 1..size : ByteAt(offset + k - 1) = data[k]
=============================================================================
