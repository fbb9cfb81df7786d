------------------------------ MODULE Sessions ------------------------------
(***************************************************************************)
(* Sessions on one container, one after the other (src/src/myondiskfs.cpp):*)
(* each begins with fuseInit, which reads what the last dump of the one    *)
(* before left on disk, and ends with fuseDestroy or with the death of the *)
(* process.  Nothing happens to the container between two sessions, so the *)
(* end of one and the beginning of the next are one step.                  *)
(*                                                                         *)
(* The process may die, between two calls or in the middle of one; not the *)
(* machine: what was written stays written, in the order of the writes.    *)
(***************************************************************************)
EXTENDS OnDiskFS, Layout

CONSTANT Hasty      \* the process may stop before its first dump

VARIABLES
    visible,      \* the file under each name
    atRisk      \* the names whose files have changed since the last dump

sessionVars == <<vars, visible, atRisk>>

\* What `visible` is: the file under each name, as its readers see it, and the
\* block it begins in, which tells two files with the same contents apart.
FilesNow ==
    [name \in Names |->
        IF ~hasFile(root, name) THEN NoName
        ELSE LET i == getFile(root, name)
             IN  [file |-> [bytes |-> Contents(i), mode |-> root[i].mode,
                            owner |-> root[i].owner],
                  firstBlock |-> root[i].firstBlock]]

SessionsInit == Init /\ visible = FilesNow /\ atRisk = {}

\* syncToDisk alone takes the clock back to 0, and dumps if it had run out.
Dumps == idle >= SYNC_INTERVAL /\ idle' = 0

InSession ==
    /\ Next
    /\ visible' = FilesNow'
    /\ atRisk' = IF Dumps THEN {}
                 ELSE atRisk \cup {name \in Names : visible'[name] # visible[name]}

\* The bitmap on disk has been dumped before: a new container holds zeroes.
DumpedOnce == \E b \in Blocks : image.flags[b]

\* A new process, and fuseInit with readMetadata, on a container with the
\* blocks dk and the metadata img.
Mount(img, dk) ==
    /\ FatFillsBlocks
    /\ flags' = LoadedFlags(img.flags)
    /\ nextBlock' = LoadedCursor(img.flags)
    /\ table' = img.table
    /\ root' = LoadedRoot(img.root)
    /\ openFiles' = [h \in Handles |-> UnusedHandle]
    /\ openFileCount' = 0
    /\ opened' = [h \in Handles |-> NoName]
    /\ image' = img
    /\ idle' = 0
    /\ reply' = [call |-> "init", code |-> 0, data |-> <<>>]
    /\ fault' = FALSE
    /\ disk' = dk
    /\ visible' = FilesNow'
    /\ atRisk' = {}

\* The container when syncToDisk has come to handle g: the caches of those
\* before it are written back.
FlushedBelow(files, dk, g) ==
    LET Flushed(b) == {h \in 0..(g - 1) :
            ~files[h].isFree /\ files[h].dirty /\ files[h].blockNo = b}
    IN  [b \in Blocks |->
            IF Flushed(b) = {} THEN dk[b]
            ELSE files[CHOOSE h \in Flushed(b) : \A k \in Flushed(b) : k <= h].buffer]

\* A fuseDestroy that dumps, with or without files that are still open: libfuse
\* calls it when a signal ends its loop, too.
Remount ==
    /\ ~fault
    /\ idle >= SYNC_INTERVAL
    /\ Mount([flags |-> flags, table |-> table, root |-> root],
             FlushedBelow(openFiles, disk, NUM_OPEN_FILES))

\* What the container goes through from the beginning of a syncToDisk to its
\* dumps.
InSync(files, dk) ==
    IF idle < SYNC_INTERVAL THEN {dk}
    ELSE {FlushedBelow(files, dk, g) : g \in 0..NUM_OPEN_FILES}

\* In a fuseTruncate by handle, which flushes the cache of that one first.
InTruncate(h) ==
    LET c == flushCache([file |-> openFiles[h], disk |-> disk])
    IN  InSync([openFiles EXCEPT ![h] = c.file], c.disk)

\* While the data of a write is moved: the block that waits in the cache gives
\* way to the head, then come the middle blocks one by one; when the head gives
\* way to the rest, all are there.
InTransfer(c, offset, data) ==
    LET first == BlockIndex(offset) + 1
        atHead == WriteData(c, first, offset,
                            SubSeq(data, 1, HeadSize(offset, Len(data)))).disk
        done == WriteData(c, first, offset, data).disk
        Upto(j) == {c.file.blockList[first + k] : k \in 1..j}
    IN  {[b \in Blocks |-> IF b \in Upto(j) THEN done[b] ELSE atHead[b]] :
            j \in 0..MiddleBlocks(offset, Len(data))}

\* In a fuseWrite, if it gets its blocks.
InWrite(h, offset, data) ==
    LET list == openFiles[h].blockList
        missing == BlocksMissing(h, offset, Len(data))
        new == Extended(fileOf(h), list[Len(list)], missing).new
        c == [file |-> [openFiles[h] EXCEPT !.blockList = CachedList(list, new)],
              disk |-> disk]
        moved == WriteData(c, BlockIndex(offset) + 1, offset, data)
    IN  IF /\ offset + Len(data) <= MaxSize
           /\ CanFind(flags, missing) /\ ~WriteFaults(h, offset, Len(data))
        THEN InTransfer(c, offset, data)
                \cup InSync([openFiles EXCEPT ![h] = moved.file], moved.disk)
        ELSE {}

\* The container in the middle of any call, the syncToDisk of fuseTruncate by path
\* and of fuseDestroy among them, before it comes to a dump.
InACall ==
    InSync(openFiles, disk) \cup
    UNION {InTruncate(h) \cup
           UNION {InWrite(h, offset, data) : offset \in Offsets, data \in Payloads} :
               h \in {g \in Handles : opened[g] # NoName}}

\* The process is killed, between two calls or in one, or has reached a fault; or
\* it ends in a fuseDestroy whose syncToDisk is skipped, because another came less
\* than 1000 ms before.
Crash ==
    /\ Hasty \/ DumpedOnce
    /\ \E dk \in {disk} \cup (IF fault THEN {} ELSE InACall) : Mount(image, dk)

SessionsNext == InSession \/ Remount \/ Crash

SessionsSpec == SessionsInit /\ [][SessionsNext]_sessionVars

-----------------------------------------------------------------------------
\* No session takes a block of the metadata for a free one: the bitmap that
\* fuseInit read, however early the last session ended, marks them all.
MetadataMarked == \A b \in Blocks : b < DATA_START => flags[b]

\* In every session, the chains fit the sizes, no block has two owners or is
\* leaked, and names are unique: what a dump leaves on disk is a state of the
\* file system as a whole, and fuseInit reads just that.
SessionsConsistent ==
    ChainsFitSizes /\ BlocksHaveOneOwner /\ AllocationExact /\ UniqueNames

BlocksIn(img, i) == SetOfBlocks(getBlockList(img.table, img.root[i].firstBlock))

\* An image whose chains end, apart from one another and in marked blocks.
Sound(img) ==
    /\ \A i \in Entries : WalkEnds(img.table, img.root[i].firstBlock)
    /\ \A blocks \in {[i \in Entries |-> BlocksIn(img, i)]} :
          /\ \A i \in Entries : \A b \in blocks[i] : img.flags[b]
          /\ \A i, j \in Entries : i # j => blocks[i] \cap blocks[j] = {}

\* Every moment of a dump leaves a sound image, but those in the table.
TornSoundly ==
    \A new \in {image'} :
        /\ new # image /\ Sound(image)
        /\ \A i \in Entries : BlocksIn(image, i) \subseteq BlocksIn(new, i)
        => \A k \in 1..DumpBlocks :
              k \notin (DmapBlocks(CONTAINER_BLOCKS) + 1)..(DumpBlocks - RootBlocks - 1)
              => Sound(Torn(image, new, k))

\* A process killed in the middle of a dump leaves a sound image, too, if no
\* file has lost a block since the dump before, and the table is either not
\* touched yet or written to its end: the order bitmap, table, directory.
TearingKeepsOwners == [][TornSoundly]_sessionVars

\* The sessions together implement the store that outlives its process: a
\* restart loses only what was changed since the last dump.
Durable ==
    INSTANCE DurableStore WITH
        Absent <- NoName,
        store <- [name \in Names |->
            IF visible[name] = NoName THEN NoName ELSE visible[name].file],
        saved <- [name \in Names |->
            IF ~hasFile(image.root, name) THEN NoName
            ELSE LET i == getFile(image.root, name)
                 IN  [size |-> image.root[i].size, mode |-> image.root[i].mode,
                      owner |-> image.root[i].owner]]

ImplementsDurableStore == Durable!DurableSpec
=============================================================================
