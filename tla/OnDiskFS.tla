------------------------------ MODULE OnDiskFS ------------------------------
(***************************************************************************)
(* A mounted session of the on-disk file system (src/src/myondiskfs.cpp):  *)
(* from the end of fuseInit on a new container, every handler that libfuse *)
(* can call.  The file system is mounted single-threaded (-s), so a        *)
(* handler is one step; what interleaves is the handlers of several open   *)
(* files, and the clock that decides whether syncToDisk writes anything.   *)
(*                                                                         *)
(* `opened` belongs to libfuse and the kernel: the current name of the     *)
(* file each handle was opened on, which they pass as the path of every    *)
(* call on the handle.                                                     *)
(* Two constants say what the kernel may do:                               *)
(*   SharedFiles   a file may be open several times, and truncated by name *)
(*                 while it is open                                        *)
(*   DirectCalls   mknod, rename and truncate are called without the       *)
(*                 kernel looking the names up first                       *)
(***************************************************************************)
EXTENDS Root, Transfer

CONSTANTS
    NUM_OPEN_FILES,
    ZeroCell,           \* the byte a new container holds
    Payloads,           \* the buffers fuseWrite is called with
    ReadSizes,          \* the sizes fuseRead is called with
    Offsets,            \* the offsets of reads and writes
    NewSizes,           \* the sizes fuseTruncate is called with
    MaxSize,            \* the size no file may exceed
    ProcessOwner,       \* getuid() and getgid() of the mounting process
    SYNC_INTERVAL,      \* ticks in the 1000 ms of syncToDisk
    SharedFiles, DirectCalls

ASSUME OnDiskFSAssumption ==
    /\ NUM_OPEN_FILES \in Nat
    /\ ZeroCell \in Cells
    /\ Payloads \subseteq Seq(Cells) \ {<<>>}
    /\ ReadSizes \subseteq Nat \ {0}
    /\ Offsets \subseteq Nat
    /\ MaxSize \in Nat
    /\ NewSizes \subseteq 0..MaxSize
    /\ ProcessOwner \in Owners
    /\ SYNC_INTERVAL \in Nat \ {0}
    /\ SharedFiles \in BOOLEAN /\ DirectCalls \in BOOLEAN
    \* NoName also says that there is no file.
    /\ NoName \notin [bytes : Seq(Cells), mode : Modes \cup {NoMode},
                      owner : Owners \cup {NoOwner}]

VARIABLES
    flags,          \* dmap.flags
    nextBlock,      \* dmap.nextBlock
    table,          \* fat.table
    root,           \* root.files
    openFiles,      \* the handles: isFree, dirty, blockNo, buffer, blockList
    openFileCount,
    disk,           \* the blocks of the container written by block number
    image,          \* bitmap, table and directory as they were last dumped
    idle,           \* ticks since lastMetadataWrite, counted to SYNC_INTERVAL
    opened,         \* of libfuse: the name behind each handle
    reply,          \* what the last handler returned
    fault           \* an exception or undefined behaviour was reached

meta == <<flags, nextBlock, table, root>>
handles == <<openFiles, openFileCount, opened>>
storage == <<disk, image, idle>>
vars == <<meta, handles, storage, reply, fault>>

Handles == 0..(NUM_OPEN_FILES - 1)

\* A handle nobody has used; its buffer is uninitialised, and never read
\* before a block is loaded.
UnusedHandle ==
    [isFree |-> TRUE, dirty |-> FALSE, blockNo |-> END_OF_CLUSTER,
     buffer |-> [p \in Positions |-> ZeroCell], blockList |-> <<>>]

\* The state fuseInit leaves behind for a new container.  Its syncToDisk
\* comes less than 1000 ms after the constructor set lastMetadataWrite and so
\* dumps nothing: the container holds zeroes, that is, a bitmap with every
\* block free and unused entries whose first block is number 0.
Init ==
    /\ flags = InitialFlags
    /\ nextBlock = InitialNextBlock
    /\ table = InitialTable
    /\ root = InitialRoot
    /\ openFiles = [h \in Handles |-> UnusedHandle]
    /\ openFileCount = 0
    /\ disk = [b \in Blocks |-> [p \in Positions |-> ZeroCell]]
    /\ image = [flags |-> [b \in Blocks |-> FALSE], table |-> InitialTable,
                root |-> [i \in Entries |-> [UnusedEntry EXCEPT !.firstBlock = FREE]]]
    /\ idle = 0
    /\ opened = [h \in Handles |-> NoName]
    /\ reply = [call |-> "init", code |-> 0, data |-> <<>>]
    /\ fault = FALSE

-----------------------------------------------------------------------------
(* Results of the handlers.                                                *)

ENOENT == 2
EMFILE == 24
ENOSPC == 28
ENAMETOOLONG == 36

Calls == {"mknod", "unlink", "rename", "chmod", "chown", "open", "release", "read",
          "write", "truncate"}

Replies == [call : Calls \cup {"init"}, code : Int, data : Seq(Cells)]

\* A process that has reached a fault handles no further call.
Reply(r) == ~fault /\ reply' = r /\ UNCHANGED fault

Return(call, code) == Reply([call |-> call, code |-> code, data |-> <<>>])

ReturnData(call, data) == Reply([call |-> call, code |-> Len(data), data |-> data])

\* The handler ends with no state change.
Returns(call, code) == Return(call, code) /\ UNCHANGED <<meta, handles, storage>>

\* An uncaught exception or undefined behaviour: the process is not modelled
\* any further.
Faults == ~fault /\ fault' = TRUE /\ UNCHANGED <<meta, handles, storage, reply>>

\* The clock, in ticks of 1000 ms / SYNC_INTERVAL.
Tick ==
    /\ ~fault /\ idle < SYNC_INTERVAL
    /\ idle' = idle + 1
    /\ UNCHANGED <<meta, handles, disk, image, reply, fault>>

-----------------------------------------------------------------------------
(* syncToDisk, called at the end of a handler that has set the metadata,   *)
(* with the handles and the container that handler leaves.                 *)

\* Dumping the metadata before the caches are flushed (a mutant).
SyncMetadataOnly(files, dk) ==
    /\ idle' = 0 /\ openFiles' = files /\ disk' = dk
    /\ image' = IF idle < SYNC_INTERVAL THEN image
                ELSE [flags |-> flags', table |-> table', root |-> root']

\* A dump with the bitmap from before the handler (a mutant).
SyncOldBitmap(files, dk) ==
    /\ idle' = 0 /\ openFiles' = files /\ disk' = dk
    /\ image' = IF idle < SYNC_INTERVAL THEN image
                ELSE [flags |-> flags, table |-> table', root |-> root']

SyncToDisk(files, dk) ==
    LET Flushed(b) == {h \in Handles :
            ~files[h].isFree /\ files[h].dirty /\ files[h].blockNo = b}
    IN
    /\ idle' = 0     \* lastMetadataWrite is set even when nothing is written
    /\ \/ /\ idle < SYNC_INTERVAL
          /\ openFiles' = files /\ disk' = dk /\ image' = image
       \/ /\ idle >= SYNC_INTERVAL
          /\ openFiles' = [h \in Handles |->
                [files[h] EXCEPT !.dirty = files[h].isFree /\ files[h].dirty]]
          /\ disk' = [b \in Blocks |->
                IF Flushed(b) = {} THEN dk[b]
                ELSE files[CHOOSE h \in Flushed(b) :
                              \A g \in Flushed(b) : g <= h].buffer]
          /\ image' = [flags |-> flags', table |-> table', root |-> root']

-----------------------------------------------------------------------------
(* The directory handlers.                                                 *)

IsOpen(name) == \E h \in Handles : opened[h] = name

\* The existence check is made with the whole path, "/" included, which no
\* entry has for a name: it never finds anything.
fuseMknod(name, mode) ==
    /\ DirectCalls \/ ~hasFile(root, name)
    /\ \/ /\ isFull(root)
          /\ Returns("mknod", -ENOSPC)
       \/ /\ ~isFull(root) /\ name \in LongNames
          /\ Returns("mknod", -ENAMETOOLONG)
       \/ /\ ~isFull(root) /\ name \notin LongNames
          /\ root' = mknod(root, name, mode, ProcessOwner)
          /\ UNCHANGED <<flags, nextBlock, table, handles, storage>>
          /\ Return("mknod", 0)

\* An unlink that leaves the blocks of the file marked (a mutant).
UnlinkLeaks(name) == [flags |-> flags, root |-> unlink(root, name)]

\* The effect of unlinking a file; its entries in the table are left alone.
UnlinkFile(name) ==
    LET list == getBlockList(table, root[getFile(root, name)].firstBlock)
    IN  [flags |-> markFree(flags, SetOfBlocks(list)), root |-> unlink(root, name)]

\* libfuse unlinks no open file: it renames the file to a hidden name and
\* unlinks that after the last release.
fuseUnlink(name) ==
    /\ ~IsOpen(name)
    /\ \/ /\ ~hasFile(root, name)
          /\ Returns("unlink", -ENOENT)
       \/ /\ hasFile(root, name)
          /\ flags' = UnlinkFile(name).flags
          /\ root' = UnlinkFile(name).root
          /\ UNCHANGED <<nextBlock, table, handles, storage>>
          /\ Return("unlink", 0)

\* What is left for a rename once its target, if that exists, is unlinked.
WithoutTarget(newName) ==
    IF hasFile(root, newName) THEN UnlinkFile(newName) ELSE [flags |-> flags, root |-> root]

\* The target is unlinked before the file is looked up: in a rename to the same
\* name, which the kernel does not pass on, it is the file itself, and getFile
\* throws unless another entry has the name.  The length of the new name is
\* not checked.
fuseRename(name, newName) ==
    /\ ~IsOpen(newName)
    /\ DirectCalls \/ name # newName
    /\ LET freed == WithoutTarget(newName) IN
       \/ /\ ~hasFile(root, name)
          /\ Returns("rename", -ENOENT)
       \/ /\ hasFile(root, name) /\ ~hasFile(freed.root, name)
          /\ Faults
       \/ /\ hasFile(root, name) /\ hasFile(freed.root, name)
          /\ flags' = freed.flags
          /\ root' = [freed.root EXCEPT ![getFile(freed.root, name)].name = newName]
          /\ opened' = [h \in Handles |->
                           IF opened[h] = name THEN newName ELSE opened[h]]
          /\ UNCHANGED <<nextBlock, table, openFiles, openFileCount, storage>>
          /\ Return("rename", 0)

fuseChmod(name, mode) ==
    \/ /\ ~hasFile(root, name)
       /\ Returns("chmod", -ENOENT)
    \/ /\ hasFile(root, name)
       /\ root' = [root EXCEPT ![getFile(root, name)].mode = mode]
       /\ UNCHANGED <<flags, nextBlock, table, handles, storage>>
       /\ Return("chmod", 0)

fuseChown(name, owner) ==
    \/ /\ ~hasFile(root, name)
       /\ Returns("chown", -ENOENT)
    \/ /\ hasFile(root, name)
       /\ root' = [root EXCEPT ![getFile(root, name)].owner = owner]
       /\ UNCHANGED <<flags, nextBlock, table, handles, storage>>
       /\ Return("chown", 0)

-----------------------------------------------------------------------------
(* The handlers of open files.                                             *)

\* Handing out the first handle, free or not (a mutant).
AlwaysFirstHandle == 0

generateFilehandle ==
    CHOOSE h \in Handles : openFiles[h].isFree /\ \A g \in 0..(h - 1) : ~openFiles[g].isFree

\* EMFILE is decided before the name is looked at.  The buffer, blockNo and
\* dirty of the handle are those of its last use.
fuseOpen(name) ==
    /\ SharedFiles \/ ~IsOpen(name)
    /\ \/ /\ openFileCount >= NUM_OPEN_FILES
          /\ Returns("open", -EMFILE)
       \/ /\ openFileCount < NUM_OPEN_FILES /\ ~hasFile(root, name)
          /\ Returns("open", -ENOENT)
       \/ /\ openFileCount < NUM_OPEN_FILES /\ hasFile(root, name)
          /\ LET h == generateFilehandle
                 first == root[getFile(root, name)].firstBlock
             IN  /\ openFiles' = [openFiles EXCEPT
                        ![h].isFree = FALSE, ![h].blockList = getBlockList(table, first)]
                 /\ opened' = [opened EXCEPT ![h] = name]
                 /\ Return("open", 0)
          /\ openFileCount' = openFileCount + 1
          /\ UNCHANGED <<meta, storage>>

\* A release that forgets the block that waits in the cache (a mutant).
ReleaseForgets(h) ==
    /\ opened[h] # NoName
    /\ openFiles' = [openFiles EXCEPT ![h].isFree = TRUE, ![h].dirty = FALSE]
    /\ openFileCount' = openFileCount - 1
    /\ opened' = [opened EXCEPT ![h] = NoName]
    /\ UNCHANGED <<meta, storage>>
    /\ Return("release", 0)

\* Called once for each successful fuseOpen, so with a handle in range.
fuseRelease(h) ==
    /\ opened[h] # NoName
    /\ LET c == flushCache([file |-> openFiles[h], disk |-> disk])
       IN  /\ openFiles' = [openFiles EXCEPT ![h] = [c.file EXCEPT !.isFree = TRUE]]
           /\ disk' = c.disk
    /\ openFileCount' = openFileCount - 1
    /\ opened' = [opened EXCEPT ![h] = NoName]
    /\ UNCHANGED <<meta, image, idle>>
    /\ Return("release", 0)

BlocksFor(size) == BlockIndex(size + BLOCK_SIZE - 1)

fileOf(h) == getFile(root, opened[h])

\* A read past the end of the file returns nothing; otherwise the handle's
\* block list is indexed without a check.
fuseRead(h, offset, n) ==
    /\ opened[h] # NoName
    /\ LET size == root[fileOf(h)].size
           rest == size - offset
           readable == (IF n < rest THEN n ELSE rest) % WORD   \* a uint32_t
           first == BlockIndex(offset) + 1
           c == [file |-> openFiles[h], disk |-> disk]
       IN  \/ /\ offset >= size
              /\ Returns("read", 0)
           \/ /\ offset < size
              /\ first + BlocksTouched(offset, readable) - 1 > Len(openFiles[h].blockList)
              /\ Faults
           \/ /\ offset < size
              /\ first + BlocksTouched(offset, readable) - 1 <= Len(openFiles[h].blockList)
              /\ LET r == ReadData(c, first, offset, readable)
                 IN  /\ openFiles' = [openFiles EXCEPT ![h] = r.cache.file]
                     /\ disk' = r.cache.disk
                     /\ ReturnData("read", r.data)
              /\ UNCHANGED <<meta, openFileCount, opened, image, idle>>

\* File i with n more blocks, linked behind the chain that passes by `block`,
\* or as a chain of their own when the file has no first block.
Extended(i, block, n) ==
    LET new == findNFreeBlocks(flags, nextBlock, n)
        empty == root[i].firstBlock = END_OF_CLUSTER
    IN  IF n = 0
        THEN [flags |-> flags, nextBlock |-> nextBlock, table |-> table,
              firstBlock |-> root[i].firstBlock, new |-> <<>>]
        ELSE [flags |-> markUsed(flags, SetOfBlocks(new)),
              nextBlock |-> CursorAfter(new),
              table |-> IF empty THEN Linked(table, new)
                                 ELSE appendBlocks(table, block, new),
              firstBlock |-> IF empty THEN new[1] ELSE root[i].firstBlock,
              new |-> new]

\* New blocks put in front of the old ones (a mutant).
CachedListReversed(list, new) == new \o list

\* The block list a handle keeps while a write extends its file.
CachedList(list, new) == list \o new

\* One block too few (a mutant).
BlocksMissingShort(h, offset, n) ==
    LET last == BlockIndex(offset + n - 1)
        have == Len(openFiles[h].blockList)
    IN  IF last <= have THEN 0 ELSE (last - have) % WORD

\* The blocks a write asks for: what its last block index, a uint32_t, lacks
\* in the block list of the handle.
BlocksMissing(h, offset, n) ==
    LET last == BlockIndex(offset + n - 1)
        have == Len(openFiles[h].blockList)
    IN  IF last < have THEN 0 ELSE (last + 1 - have) % WORD

\* What makes a write that got its blocks go wrong: back() of an empty block
\* list, a chain without end, a block index past the list.
WriteFaults(h, offset, n) ==
    LET list == openFiles[h].blockList
        missing == BlocksMissing(h, offset, n)
    IN  \/ /\ missing > 0 /\ root[fileOf(h)].firstBlock # END_OF_CLUSTER
           /\ ~(list # <<>> /\ WalkEnds(table, list[Len(list)]))
        \/ BlockIndex(offset) + BlocksTouched(offset, n) > Len(list) + missing

fuseWrite(h, offset, data) ==
    /\ opened[h] # NoName
    /\ offset + Len(data) <= MaxSize
    /\ LET i == fileOf(h)
           list == openFiles[h].blockList
           missing == BlocksMissing(h, offset, Len(data))
           end == offset + Len(data)
           e == Extended(i, list[Len(list)], missing)
           c == WriteData([file |-> [openFiles[h] EXCEPT !.blockList = CachedList(list, e.new)],
                           disk |-> disk],
                          BlockIndex(offset) + 1, offset, data)
       IN  \/ /\ ~CanFind(flags, missing)
              /\ Returns("write", -ENOSPC)
           \/ /\ CanFind(flags, missing) /\ WriteFaults(h, offset, Len(data))
              /\ Faults
           \/ /\ CanFind(flags, missing) /\ ~WriteFaults(h, offset, Len(data))
              /\ flags' = e.flags /\ nextBlock' = e.nextBlock /\ table' = e.table
              /\ root' = [root EXCEPT
                     ![i].firstBlock = e.firstBlock,
                     ![i].size = IF end > root[i].size THEN end ELSE root[i].size]
              /\ SyncToDisk([openFiles EXCEPT ![h] = c.file], c.disk)
              /\ UNCHANGED <<openFileCount, opened>>
              /\ Return("write", Len(data))

-----------------------------------------------------------------------------
(* The two fuseTruncate handlers.  Both count blocks from the sizes.       *)

BlocksToAdd(i, newSize) ==
    LET old == BlocksFor(root[i].size)
    IN  IF BlocksFor(newSize) > old THEN BlocksFor(newSize) - old ELSE 0

\* A chain without end, or shorter than the new size.
ResizeFaults(i, newSize) ==
    LET first == root[i].firstBlock
        new == BlocksFor(newSize)
    IN  /\ new # BlocksFor(root[i].size)
        /\ WalkEnds(table, first) =>
              new < BlocksFor(root[i].size) /\ new > Len(getBlockList(table, first))

\* The metadata of file i with a new size.
Resized(i, newSize) ==
    LET first == root[i].firstBlock
        new == BlocksFor(newSize)
        list == getBlockList(table, first)
    IN  IF new >= BlocksFor(root[i].size)
        THEN Extended(i, first, BlocksToAdd(i, newSize))
        ELSE [flags |-> markFree(flags, {list[k] : k \in (new + 1)..Len(list)}),
              nextBlock |-> nextBlock,
              table |-> IF new > 0 THEN truncate(table, list[new]) ELSE table,
              firstBlock |-> IF new > 0 THEN first ELSE END_OF_CLUSTER,
              new |-> <<>>]

SetSize(i, newSize) ==
    LET r == Resized(i, newSize)
    IN  /\ flags' = r.flags /\ nextBlock' = r.nextBlock /\ table' = r.table
        /\ root' = [root EXCEPT ![i].firstBlock = r.firstBlock, ![i].size = newSize]

\* By name.  A missing file gives +ENOENT.
fuseTruncate(name, newSize) ==
    /\ DirectCalls \/ hasFile(root, name)
    /\ SharedFiles \/ ~IsOpen(name)
    /\ LET i == getFile(root, name) IN
       \/ /\ ~hasFile(root, name)
          /\ Returns("truncate", ENOENT)
       \/ /\ hasFile(root, name) /\ ~CanFind(flags, BlocksToAdd(i, newSize))
          /\ Returns("truncate", -ENOSPC)
       \/ /\ hasFile(root, name) /\ CanFind(flags, BlocksToAdd(i, newSize))
          /\ ResizeFaults(i, newSize)
          /\ Faults
       \/ /\ hasFile(root, name) /\ CanFind(flags, BlocksToAdd(i, newSize))
          /\ ~ResizeFaults(i, newSize)
          /\ SetSize(i, newSize)
          /\ SyncToDisk(openFiles, disk)
          /\ UNCHANGED <<openFileCount, opened>>
          /\ Return("truncate", 0)

\* By handle: the cache is flushed first, whatever comes of the rest, and the
\* block list of the handle is read again after.
fuseTruncateOpen(h, newSize) ==
    /\ opened[h] # NoName
    /\ LET i == fileOf(h)
           c == flushCache([file |-> openFiles[h], disk |-> disk])
       IN
       \/ /\ ~CanFind(flags, BlocksToAdd(i, newSize))
          /\ openFiles' = [openFiles EXCEPT ![h] = c.file]
          /\ disk' = c.disk
          /\ UNCHANGED <<meta, openFileCount, opened, image, idle>>
          /\ Return("truncate", -ENOSPC)
       \/ /\ CanFind(flags, BlocksToAdd(i, newSize)) /\ ResizeFaults(i, newSize)
          /\ Faults
       \/ /\ CanFind(flags, BlocksToAdd(i, newSize)) /\ ~ResizeFaults(i, newSize)
          /\ SetSize(i, newSize)
          /\ \E list \in {getBlockList(table', root'[i].firstBlock)} :
                SyncToDisk([openFiles EXCEPT ![h] = [c.file EXCEPT !.blockList = list]],
                           c.disk)
          /\ UNCHANGED <<openFileCount, opened>>
          /\ Return("truncate", 0)

-----------------------------------------------------------------------------
Next ==
    \/ \E name \in Names :
          \/ \E mode \in Modes : fuseMknod(name, mode)
          \/ fuseUnlink(name)
          \/ \E newName \in Names : fuseRename(name, newName)
          \/ \E mode \in Modes : fuseChmod(name, mode)
          \/ \E owner \in Owners : fuseChown(name, owner)
          \/ fuseOpen(name)
          \/ \E newSize \in NewSizes : fuseTruncate(name, newSize)
    \/ \E h \in Handles :
          \/ fuseRelease(h)
          \/ \E offset \in Offsets, n \in ReadSizes : fuseRead(h, offset, n)
          \/ \E offset \in Offsets, data \in Payloads : fuseWrite(h, offset, data)
          \/ \E newSize \in NewSizes : fuseTruncateOpen(h, newSize)
    \/ Tick

Spec == Init /\ [][Next]_vars

-----------------------------------------------------------------------------
(* What the file system promises.                                          *)

Chain(i) == getBlockList(table, root[i].firstBlock)

BlocksOf(i) == SetOfBlocks(Chain(i))

\* Every variable has the shape the code declares for it.
TypeOK ==
    /\ flags \in [Blocks -> BOOLEAN]
    /\ nextBlock \in DataBlocks
    /\ table \in [Blocks -> Links]
    /\ root \in [Entries -> Files]
    /\ openFiles \in [Handles -> OpenFile]
    /\ openFileCount \in 0..NUM_OPEN_FILES
    /\ disk \in Disks
    /\ image \in [flags : [Blocks -> BOOLEAN], table : [Blocks -> Links],
                  root : [Entries -> Files]]
    /\ idle \in 0..SYNC_INTERVAL
    /\ opened \in [Handles -> Names \cup {NoName}]
    /\ reply \in Replies
    /\ fault \in BOOLEAN

\* The chain of a directory entry ends, and has as many blocks as the size of
\* the file takes: fuseRead and fuseWrite index it by offset, and the two
\* fuseTruncate count blocks by size where fuseWrite counts the chain.
ChainsFitSizes ==
    \A i \in Entries :
        /\ WalkEnds(table, root[i].firstBlock)
        /\ Len(Chain(i)) = (root[i].size + BLOCK_SIZE - 1) \div BLOCK_SIZE

\* No block belongs to two files, though allocation, truncation and unlinking
\* only ever look at one file and the bitmap.
BlocksHaveOneOwner ==
    \A i, j \in Entries : i # j => BlocksOf(i) \cap BlocksOf(j) = {}

\* A block is marked used exactly when it is metadata or part of a file: no
\* failed or partial operation leaks a block or gives one away twice.
AllocationExact ==
    \A b \in Blocks : flags[b] <=> b < DATA_START \/ \E i \in Entries : b \in BlocksOf(i)

\* No two entries have the same name, or the later one is out of reach.
UniqueNames ==
    \A i, j \in Entries : root[i].name = root[j].name /\ root[i].name # NoName => i = j

\* The block list a handle has kept since fuseOpen is still the chain of its
\* file, whatever was written, truncated or renamed since.
HandleListsCurrent ==
    \A h \in Handles : opened[h] # NoName =>
        /\ hasFile(root, opened[h])
        /\ openFiles[h].blockList = Chain(fileOf(h))

\* "assert blockNo belongs to fh": a block waiting in a dirty cache is written
\* back later without another look, so it must still belong to the file the
\* handle is open on, and wait in that one cache only.
DirtyBlocksOwned ==
    \A h \in Handles : openFiles[h].dirty =>
        /\ opened[h] # NoName
        /\ openFiles[h].blockNo \in BlocksOf(fileOf(h))
        /\ \A g \in Handles : openFiles[g].dirty /\ openFiles[g].blockNo = openFiles[h].blockNo
                              => g = h

\* The count that bounds fuseOpen is the number of handles in use, so that
\* generateFilehandle never runs out, and libfuse knows the same ones.
OpenCountExact ==
    /\ openFileCount = Cardinality({h \in Handles : ~openFiles[h].isFree})
    /\ \A h \in Handles : openFiles[h].isFree <=> opened[h] = NoName

\* No handler throws, indexes past a block list or follows a chain for ever.
NoFault == ~fault

\* No handler writes to a metadata block through a file.
MetadataBlocksUntouched ==
    [][\A b \in Blocks : b < DATA_START => disk'[b] = disk[b]]_vars

-----------------------------------------------------------------------------
(* Contents of the files.                                                  *)

\* The handles that have block b waiting in their cache.
Holders(b) == {h \in Handles : openFiles[h].dirty /\ openFiles[h].blockNo = b}

\* Block b as a reader should see it: from the cache that has it dirty.
CurrentBlock(b) ==
    IF Holders(b) = {} THEN disk[b]
    ELSE openFiles[CHOOSE h \in Holders(b) : TRUE].buffer

\* The bytes of entry i, with its blocks as `content` gives them.
BytesOf(i, content(_)) ==
    LET list == Chain(i)
    IN  [k \in 1..root[i].size |->
            content(list[(k - 1) \div BLOCK_SIZE + 1])[(k - 1) % BLOCK_SIZE]]

Contents(i) == BytesOf(i, CurrentBlock)

ContentsOnDisk(i) == LET OnDisk(b) == disk[b] IN BytesOf(i, OnDisk)

\* What fuseRead would return on handle h.
WouldRead(h, offset, n) ==
    ReadData([file |-> openFiles[h], disk |-> disk],
             BlockIndex(offset) + 1, offset, n).data

\* Every read, through any handle, returns the bytes last written there: no
\* buffer that a handle kept has gone stale.
ReadsCurrent ==
    \A h \in Handles : opened[h] # NoName =>
        \A offset \in 0..(root[fileOf(h)].size - 1) :
            LET n == root[fileOf(h)].size - offset
            IN  WouldRead(h, offset, n)
                    = SubSeq(Contents(fileOf(h)), offset + 1, offset + n)

\* The blocks a handle lists while it is open.
Listed(h) == IF openFiles[h].isFree THEN {} ELSE SetOfBlocks(openFiles[h].blockList)

\* The buffer of the handle, when it holds block b and has nothing to write
\* back, is block b.
InStepWith(h, b) ==
    openFiles[h].blockNo = b /\ ~openFiles[h].dirty => openFiles[h].buffer = disk[b]

\* Another handle may write to block b in this step.
OtherMayWrite(h, b) ==
    \E g \in Handles \ {h} : \/ b \in Listed(g)'
                             \/ b \in Listed(g) /\ Listed(h)' = Listed(h)

KeepsStep ==
    \A h \in Handles, b \in Blocks :
        InStepWith(h, b) => InStepWith(h, b)' \/ OtherMayWrite(h, b)

\* The one block a handle keeps, from call to call and from one use of the slot
\* to the next, goes out of step with the container only while another handle
\* lists the block: no write past the cache, no flush, no cut and no reuse of a
\* freed block by its own calls, nor a dump, leaves it behind.
OnlyOthersMakeStale == [][KeepsStep]_vars

\* A handle that gets a block into its list holds no other version of it.
TakesNoStaleBlock ==
    \A h \in Handles :
        openFiles[h].blockNo \in Listed(h)' \ Listed(h) =>
            openFiles[h].buffer = disk[openFiles[h].blockNo]

\* The histories in which no handle gets a stale block.  fuseOpen, fuseWrite
\* and fuseTruncate give a handle blocks and keep its buffer, which may hold one
\* of these from before; in these histories nobody wrote to it in between.
FreshSpec == Init /\ [][Next /\ TakesNoStaleBlock]_vars

\* No step changes the bytes of two files: neither the blocks a handler
\* allocates and frees, nor what it flushes and dumps on the way, reach into a
\* file that the call does not name.
OneFileAtATime ==
    [][\A i, j \in Entries :
          i < j => Contents(i)' = Contents(i) \/ Contents(j)' = Contents(j)]_vars

\* When the metadata is dumped, the contents it speaks of are on disk too.
SyncLeavesNothingBehind ==
    [][image' # image => \A i \in Entries : ContentsOnDisk(i)' = Contents(i)']_vars

\* The files as their callers know them.
StoredFile(i) == [bytes |-> Contents(i), mode |-> root[i].mode, owner |-> root[i].owner]

StoredFiles ==
    [name \in Names |->
        IF hasFile(root, name) THEN StoredFile(getFile(root, name)) ELSE NoName]

\* The handlers implement the store of files: every handler, whole, is one of
\* its calls on the file it names, and leaves all the others alone.
Store == INSTANCE FileStore WITH Absent <- NoName, store <- StoredFiles

ImplementsFileStore == Store!Spec
=============================================================================
