--------------------------- MODULE ContentsProofs ---------------------------
(***************************************************************************)
(* What a reader of a file gets.  While no handle is given a block of      *)
(* which its cache holds an old copy, every handle sees the blocks of its  *)
(* file as they are; and then reads are current, and the handlers          *)
(* implement the store of files.                                           *)
(***************************************************************************)
EXTENDS OnDiskFSProofs, SequenceTheorems

-----------------------------------------------------------------------------
(* A clean cache is in step with the container.                            *)

\* The blocks of the handles that are open.
CachesInStep == \A h \in Handles : \A b \in Listed(h) : InStepWith(h, b)

\* Of the handles `of` and the container dk, handle h stays in step with b when
\* they become of2 and dk2.
StaysInStep(of, dk, of2, dk2, h, b) ==
    InStep([file |-> of[h], disk |-> dk], b) => InStep([file |-> of2[h], disk |-> dk2], b)

\* One handle goes on with another cache, which is in step itself; it has
\* written to blocks of S only.
LEMMA OneHandleInStep ==
    ASSUME NEW of \in [Handles -> OpenFile], NEW h \in Handles, NEW file \in OpenFile,
           NEW S, NEW dk, NEW dk2, \A b \in Blocks \ S : dk2[b] = dk[b],
           NEW e \in Blocks,
           InStep([file |-> of[h], disk |-> dk], e) => InStep([file |-> file, disk |-> dk2], e),
           NEW g \in Handles
    PROVE  StaysInStep(of, dk, [of EXCEPT ![h] = file], dk2, g, e) \/ (g # h /\ e \in S)
<1>1. CASE g = h
    <2>1. [of EXCEPT ![h] = file][g] = file
        BY <1>1
    <2>2. QED BY <1>1, <2>1 DEF StaysInStep
<1>2. CASE g # h /\ e \notin S
    <2>1. [of EXCEPT ![h] = file][g] = of[g] /\ dk2[e] = dk[e]
        BY <1>2
    <2>2. QED BY <2>1 DEF StaysInStep, InStep
<1>3. QED BY <1>1, <1>2

\* syncToDisk leaves every handle in step, but with blocks that another handle
\* lists.
LEMMA SyncInStep ==
    ASSUME NEW f, NEW t, NEW r, Metadata(f, t, r), NEW files, NEW n, NEW op,
           HandlesOK(files, n, op, r, Chains(t, r)),
           idle \in 0..SYNC_INTERVAL, NEW dk, SyncToDisk(files, dk),
           NEW g \in Handles, NEW e \in Blocks
    PROVE  \/ StaysInStep(files, dk, openFiles', disk', g, e)
           \/ \E h \in Handles \ {g} :
                 ~files[h].isFree /\ e \in SetOfBlocks(files[h].blockList)
<1> DEFINE Flushed(b) == {h \in Handles :
               ~files[h].isFree /\ files[h].dirty /\ files[h].blockNo = b}
           Highest(b) == CHOOSE h \in Flushed(b) : \A k \in Flushed(b) : k <= h
           clean(h) == [files[h] EXCEPT !.dirty = files[h].isFree /\ files[h].dirty]
<1>1. CASE idle < SYNC_INTERVAL
    <2>1. openFiles' = files /\ disk' = dk
        BY <1>1, OnDiskFSAssumption, TransferAssumption DEF SyncToDisk
    <2>2. QED BY <2>1 DEF StaysInStep
<1>2. CASE ~(idle < SYNC_INTERVAL)
    <2>1. /\ openFiles' = [h \in Handles |-> clean(h)]
          /\ disk' = [b \in Blocks |-> IF Flushed(b) = {} THEN dk[b]
                                       ELSE files[Highest(b)].buffer]
        BY <1>2, OnDiskFSAssumption, TransferAssumption DEF SyncToDisk
    <2>2. Flushed(e) = Waiting(files, e)
        BY WaitsOnce DEF Waiting
    <2>3. /\ clean(g).blockNo = files[g].blockNo /\ clean(g).buffer = files[g].buffer
          /\ openFiles'[g] = clean(g)
        BY <2>1
    <2> HIDE DEF clean
    <2>4. CASE Waiting(files, e) = {}
        <3>1. disk'[e] = dk[e]
            BY <2>1, <2>2, <2>4
        <3>2. files[g].blockNo = e => ~files[g].dirty
            BY <2>4 DEF Waiting
        <3>3. QED BY <2>3, <3>1, <3>2 DEF StaysInStep, InStep
    <2>5. CASE Waiting(files, e) # {}
        <3>1. PICK h \in Waiting(files, e) : TRUE
            BY <2>5
        <3>2. Waiting(files, e) = {h} /\ h \in Handles
            BY <3>1, WaitsOnce, SMTT(30) DEF Waiting
        <3>3. Highest(e) = h
            <4>1. h \in Int
                BY <3>2, OnDiskFSAssumption, TransferAssumption DEF Handles
            <4> HIDE DEF Flushed
            <4>2. QED BY <2>2, <3>2, <4>1
        <3>4. disk'[e] = files[h].buffer
            <4> HIDE DEF Flushed, Highest
            <4>1. QED BY <2>1, <2>2, <2>5, <3>3
        <3>5. CASE h = g
            BY <2>3, <3>4, <3>5 DEF StaysInStep, InStep
        <3>6. CASE h # g
            <4>1. ~files[h].isFree /\ e \in SetOfBlocks(files[h].blockList)
                BY <3>1, <3>2 DEF HandlesOK, DirtyInList, Waiting
            <4>2. QED BY <3>2, <3>6, <4>1
        <3>7. QED BY <3>5, <3>6
    <2>6. QED BY <2>4, <2>5
<1>3. QED BY <1>1, <1>2

\* syncToDisk keeps the block list of every handle.
LEMMA SyncLists ==
    ASSUME NEW files, NEW dk, SyncToDisk(files, dk), NEW h \in Handles
    PROVE  Listed(h)' = IF files[h].isFree THEN {} ELSE SetOfBlocks(files[h].blockList)
<1> DEFINE clean == [files[h] EXCEPT !.dirty = files[h].isFree /\ files[h].dirty]
<1>1. openFiles'[h] = files[h] \/ openFiles'[h] = clean
    BY DEF SyncToDisk
<1>2. clean.isFree = files[h].isFree /\ clean.blockList = files[h].blockList
    OBVIOUS
<1> HIDE DEF clean
<1>3. QED BY <1>1, <1>2 DEF Listed

\* A step on the caches followed by syncToDisk.
LEMMA SyncedInStep ==
    ASSUME Session, MetadataOK', NEW files, NEW dk,
           HandlesOK(files, openFileCount, opened, root', Chains(table', root')),
           SyncToDisk(files, dk),
           \A g \in Handles, e \in Blocks :
              \/ StaysInStep(openFiles, disk, files, dk, g, e)
              \/ OtherMayWrite(g, e)
    PROVE  KeepsStep
<1> SUFFICES ASSUME NEW g \in Handles, NEW e \in Blocks
             PROVE  \/ StaysInStep(openFiles, disk, openFiles', disk', g, e)
                    \/ OtherMayWrite(g, e)
    BY DEF KeepsStep, InStepWith, InStep, StaysInStep
<1>1. idle \in 0..SYNC_INTERVAL
    BY DEF Session, StorageOK
<1>2. ASSUME NEW h \in Handles \ {g}, ~files[h].isFree, e \in SetOfBlocks(files[h].blockList)
      PROVE  OtherMayWrite(g, e)
    <2>1. e \in Listed(h)'
        BY <1>2, SyncLists
    <2>2. QED BY <2>1 DEF OtherMayWrite
<1>3. \/ StaysInStep(files, dk, openFiles', disk', g, e)
      \/ \E h \in Handles \ {g} : ~files[h].isFree /\ e \in SetOfBlocks(files[h].blockList)
    BY <1>1, SyncInStep DEF MetadataOK
<1>4. QED BY <1>2, <1>3 DEF StaysInStep

\* A step on the cache of one handle that writes to blocks of its list.
LEMMA CacheInStep ==
    ASSUME Session, NEW h \in Handles, opened[h] # NoName,
           NEW file \in OpenFile, openFiles' = [openFiles EXCEPT ![h] = file],
           \A b \in Blocks \ SetOfBlocks(openFiles[h].blockList) : disk'[b] = disk[b],
           \A e \in Blocks : InStepWith(h, e) => InStep([file |-> file, disk |-> disk'], e)
    PROVE  KeepsStep
<1> SUFFICES ASSUME NEW g \in Handles, NEW e \in Blocks
             PROVE  \/ StaysInStep(openFiles, disk, openFiles', disk', g, e)
                    \/ OtherMayWrite(g, e)
    BY DEF KeepsStep, InStepWith, InStep, StaysInStep
<1>1. openFiles \in [Handles -> OpenFile] /\ ~openFiles[h].isFree
    BY OpenHandle
<1> DEFINE S == SetOfBlocks(openFiles[h].blockList)
<1>2. S = Listed(h)
    BY <1>1 DEF Listed
<1> HIDE DEF S
<1>3. \/ StaysInStep(openFiles, disk, openFiles', disk', g, e)
      \/ g # h /\ e \in S
    <2>1. \A b \in Blocks \ S : disk'[b] = disk[b]
        BY DEF S
    <2>2. InStep([file |-> openFiles[h], disk |-> disk], e) =>
              InStep([file |-> file, disk |-> disk'], e)
        BY DEF InStepWith, InStep
    <2>3. QED BY <1>1, <2>1, <2>2, OneHandleInStep
<1>4. ASSUME g # h, e \in S PROVE OtherMayWrite(g, e)
    <2>1. openFiles'[g] = openFiles[g]
        BY <1>4
    <2>2. Listed(g)' = Listed(g)
        BY <2>1 DEF Listed
    <2>3. QED BY <1>2, <1>4, <2>2 DEF OtherMayWrite
<1>5. QED BY <1>3, <1>4

\* fuseRelease: the block that waited is on the container.
LEMMA ReleaseInStep ==
    ASSUME Session, NEW h \in Handles, fuseRelease(h)
    PROVE  KeepsStep
<1> DEFINE b == [file |-> openFiles[h], disk |-> disk]
           c == flushCache(b)
           file == [c.file EXCEPT !.isFree = TRUE]
           S == SetOfBlocks(openFiles[h].blockList)
<1>1. /\ opened[h] # NoName
      /\ openFiles' = [openFiles EXCEPT ![h] = file] /\ disk' = c.disk
    BY DEF fuseRelease
<1>2. Guarded(S, b)
    BY <1>1, OpenHandle
<1>3. c.file \in OpenFile /\ \A e \in Blocks \ S : c.disk[e] = disk[e]
    <2>1. WritesOnly(S, b, c)
        BY <1>2, FlushCache
    <2> HIDE DEF c
    <2>2. QED BY <2>1 DEF WritesOnly, Guarded, Cache
<1>4. \A e \in Blocks : InStepWith(h, e) => InStep(c, e)
    <2>1. b \in Cache
        BY <1>2 DEF Guarded
    <2> HIDE DEF b, c
    <2>2. \A e \in Blocks : InStep(b, e) => InStep(c, e)
        BY <2>1, FlushShows DEF c
    <2>3. QED BY <2>2 DEF InStepWith, b, InStep
<1> HIDE DEF c
<1>5. /\ file \in OpenFile /\ file.blockNo = c.file.blockNo /\ file.dirty = c.file.dirty
      /\ file.buffer = c.file.buffer
    BY <1>3 DEF OpenFile
<1> HIDE DEF file
<1>6. \A e \in Blocks : InStepWith(h, e) => InStep([file |-> file, disk |-> disk'], e)
    BY <1>1, <1>4, <1>5 DEF InStep
<1>7. QED BY <1>1, <1>3, <1>5, <1>6, CacheInStep

\* fuseRead.
LEMMA ReadInStep ==
    ASSUME Session, NumbersFit, NEW h \in Handles, NEW offset \in Offsets,
           NEW n \in ReadSizes, fuseRead(h, offset, n)
    PROVE  KeepsStep
<1> DEFINE size == root[fileOf(h)].size
           S == SetOfBlocks(openFiles[h].blockList)
           m == Readable(n, size - offset)
           b == [file |-> openFiles[h], disk |-> disk]
           c == ReadData(b, BlockIndex(offset) + 1, offset, m).cache
<1>1. CASE ~(offset < size)
    <2>1. opened[h] # NoName /\ offset \in Nat /\ size \in 0..MaxSize
        BY OpenHandle, OnDiskFSAssumption, TransferAssumption DEF fuseRead
    <2>2. openFiles' = openFiles /\ disk' = disk
        BY <1>1, <2>1 DEF fuseRead, Returns, Faults, handles, storage
    <2>3. QED BY <2>2 DEF KeepsStep, StaysInStep, InStepWith, InStep
<1>2. CASE offset < size
    <2>1. opened[h] # NoName /\ ReadsBlocks(h, offset, m)
        BY <1>2, ReadStep
    <2>2. /\ Covered(S, b, BlockIndex(offset) + 1, offset, m)
          /\ openFiles' = [openFiles EXCEPT ![h] = c.file] /\ disk' = c.disk
        BY <2>1 DEF ReadsBlocks
    <2> HIDE DEF b, m
    <2>3. WritesOnly(S, b, c)
        BY <2>2, ReadDataStaysInList
    <2>4. \A e \in Blocks : InStep(b, e) => InStep(c, e)
        BY <2>2, ReadDataShows
    <2> HIDE DEF c
    <2>5. c.file \in OpenFile /\ \A e \in Blocks \ S : disk'[e] = disk[e]
        BY <2>2, <2>3 DEF WritesOnly, Guarded, Cache, b
    <2> DEFINE file == c.file
    <2>6. file \in OpenFile /\ openFiles' = [openFiles EXCEPT ![h] = file]
        BY <2>2, <2>5
    <2>7. \A e \in Blocks : InStepWith(h, e) => InStep([file |-> file, disk |-> disk'], e)
        BY <2>2, <2>4 DEF InStep, InStepWith, b
    <2> HIDE DEF file
    <2>8. QED BY <2>1, <2>5, <2>6, <2>7, CacheInStep
<1>3. QED BY <1>1, <1>2

\* fuseWrite: what it leaves in the cache waits there.
LEMMA WriteInStep ==
    ASSUME Session, NumbersFit, NEW h \in Handles, NEW offset \in Offsets,
           NEW data \in Payloads, fuseWrite(h, offset, data)
    PROVE  KeepsStep
<1> DEFINE n == Len(data)
           longer == Longer(h, offset, n)
           before == WriteBefore(h, offset, n)
           after == WriteAfter(h, offset, data)
           file == after.file
           dk == after.disk
           files == [openFiles EXCEPT ![h] = file]
           S == SetOfBlocks(longer)
<1>1. CASE ~CanFind(flags, BlocksMissing(h, offset, Len(data)))
    <2>1. openFiles' = openFiles /\ disk' = disk
        BY <1>1 DEF fuseWrite, Returns, handles, storage
    <2>2. QED BY <2>1 DEF KeepsStep, StaysInStep, InStepWith, InStep
<1>2. CASE CanFind(flags, BlocksMissing(h, offset, Len(data)))
    <2>1. WriteGrows(h, offset, n) /\ WriteStarts(h, offset, n) /\ WriteLeaves(h, offset, data)
        BY <1>2, WriteStep
    <2>2. /\ MetadataOK' /\ before.disk = disk
          /\ Covered(S, before, BlockIndex(offset) + 1, offset, n)
          /\ WritesOnly(S, before, after) /\ file \in OpenFile /\ ~file.isFree
          /\ file.blockList = longer
          /\ HandlesOK(files, openFileCount, opened, root', Chains(table', root'))
          /\ SyncToDisk(files, dk)
        BY <2>1 DEF WriteGrows, WriteStarts, WriteLeaves
    <2>3. data \in Seq(Cells) /\ openFiles \in [Handles -> OpenFile]
        BY OnDiskFSAssumption, TransferAssumption DEF Session, HandlesFit, HandlesOK
    <2> HIDE DEF longer, S, before
    <2>4. file.dirty
        BY <2>2, <2>3, WriteDataWaits DEF WriteAfter, before
    <2>5. \A e \in Blocks \ S : dk[e] = disk[e]
        BY <2>2 DEF WritesOnly
    <2>6. Listed(h)' = S
        <3> HIDE DEF after
        <3>1. files[h] = file
            BY <2>3
        <3> HIDE DEF file, dk, files
        <3>2. QED BY <2>2, <3>1, SyncLists DEF S
    <2> HIDE DEF after, file, dk
    <2>7. ASSUME NEW g \in Handles, NEW e \in Blocks
          PROVE  StaysInStep(openFiles, disk, files, dk, g, e) \/ OtherMayWrite(g, e)
        <3>1. InStep([file |-> file, disk |-> dk], e)
            BY <2>4 DEF InStep
        <3>2. StaysInStep(openFiles, disk, files, dk, g, e) \/ (g # h /\ e \in S)
            BY <2>2, <2>3, <2>5, <3>1, OneHandleInStep
        <3>3. QED BY <2>6, <3>2 DEF OtherMayWrite
    <2> HIDE DEF files
    <2>8. QED BY <2>2, <2>7, SyncedInStep
<1>3. QED BY <1>1, <1>2

\* fuseTruncate by name writes what waits in the caches of other files.
LEMMA TruncateInStep ==
    ASSUME Session, Mounted, NumbersFit, NEW name \in Names, NEW newSize \in NewSizes,
           fuseTruncate(name, newSize)
    PROVE  KeepsStep
<1> DEFINE i == getFile(root, name)
<1>1. CASE ~CanFind(flags, BlocksToAdd(i, newSize))
    <2>1. openFiles' = openFiles /\ disk' = disk
        BY <1>1 DEF fuseTruncate, Returns, handles, storage
    <2>2. QED BY <2>1 DEF KeepsStep, StaysInStep, InStepWith, InStep
<1>2. CASE CanFind(flags, BlocksToAdd(i, newSize))
    <2>1. PICK list : Truncates(i, list)
        BY <1>2, TruncateStep
    <2>2. \A g \in Handles, e \in Blocks : StaysInStep(openFiles, disk, openFiles, disk, g, e)
        BY DEF StaysInStep
    <2>3. /\ MetadataOK' /\ SyncToDisk(openFiles, disk)
          /\ HandlesOK(openFiles, openFileCount, opened, root', Chains(table', root'))
        BY <2>1 DEF Truncates
    <2>4. QED BY <2>2, <2>3, SyncedInStep
<1>3. QED BY <1>1, <1>2

\* fuseTruncate by handle, flushed first.
LEMMA TruncateOpenInStep ==
    ASSUME Session, NumbersFit, NEW h \in Handles, NEW newSize \in NewSizes,
           fuseTruncateOpen(h, newSize)
    PROVE  KeepsStep
<1> DEFINE b == [file |-> openFiles[h], disk |-> disk]
           c == flushCache(b)
           dk == c.disk
           S == SetOfBlocks(openFiles[h].blockList)
<1>1. opened[h] # NoName
    BY DEF fuseTruncateOpen
<1>2. Guarded(S, b) /\ openFiles \in [Handles -> OpenFile] /\ ~openFiles[h].isFree
    BY <1>1, OpenHandle
<1>3. c.file \in OpenFile /\ \A e \in Blocks \ S : dk[e] = disk[e]
    <2>1. WritesOnly(S, b, c)
        BY <1>2, FlushCache
    <2> HIDE DEF c
    <2>2. QED BY <2>1 DEF WritesOnly, Guarded, Cache
<1>4. \A e \in Blocks : InStepWith(h, e) => InStep(c, e)
    <2>1. b \in Cache
        BY <1>2 DEF Guarded
    <2> HIDE DEF b, c
    <2>2. \A e \in Blocks : InStep(b, e) => InStep(c, e)
        BY <2>1, FlushShows DEF c
    <2>3. QED BY <2>2 DEF InStepWith, b, InStep
<1>5. CASE ~CanFind(flags, BlocksToAdd(fileOf(h), newSize))
    <2> DEFINE file == c.file
    <2>1. openFiles' = [openFiles EXCEPT ![h] = file] /\ disk' = dk
        BY <1>5 DEF fuseTruncateOpen
    <2>2. \A e \in Blocks : InStepWith(h, e) => InStep([file |-> file, disk |-> disk'], e)
        BY <1>4, <2>1 DEF InStep
    <2>3. file \in OpenFile
        BY <1>3
    <2> HIDE DEF file, dk, c
    <2>4. QED BY <1>1, <1>3, <2>1, <2>2, <2>3, CacheInStep
<1>6. CASE CanFind(flags, BlocksToAdd(fileOf(h), newSize))
    <2>1. PICK list : TruncatesOpen(h, list)
        BY <1>6, TruncateOpenStep
    <2> DEFINE file == [c.file EXCEPT !.blockList = list]
               files == [openFiles EXCEPT ![h] = file]
    <2>2. /\ MetadataOK' /\ file \in OpenFile /\ SyncToDisk(files, dk)
          /\ HandlesOK(files, openFileCount, opened, root', Chains(table', root'))
        BY <2>1 DEF TruncatesOpen
    <2> HIDE DEF c
    <2>3. /\ file.blockNo = c.file.blockNo /\ file.dirty = c.file.dirty
          /\ file.buffer = c.file.buffer
        OBVIOUS
    <2> HIDE DEF file
    <2>4. \A e \in Blocks : InStepWith(h, e) => InStep([file |-> file, disk |-> dk], e)
        BY <1>4, <2>3 DEF InStep
    <2> HIDE DEF dk
    <2>5. ASSUME NEW g \in Handles, NEW e \in Blocks
          PROVE  StaysInStep(openFiles, disk, files, dk, g, e) \/ OtherMayWrite(g, e)
        <3>1. StaysInStep(openFiles, disk, files, dk, g, e) \/ (g # h /\ e \in S)
            <4>1. InStep([file |-> openFiles[h], disk |-> disk], e) =>
                      InStep([file |-> file, disk |-> dk], e)
                BY <2>4 DEF InStepWith, InStep
            <4> HIDE DEF S
            <4>2. QED BY <1>2, <1>3, <2>2, <4>1, OneHandleInStep
        <3>2. ASSUME g # h, e \in S PROVE OtherMayWrite(g, e)
            <4>1. files[g] = openFiles[g]
                BY <3>2
            <4> HIDE DEF files
            <4>2. Listed(g)' = Listed(g)
                BY <2>2, <4>1, SyncLists DEF Listed
            <4>3. QED BY <1>2, <3>2, <4>2 DEF OtherMayWrite, Listed
        <3>3. QED BY <3>1, <3>2
    <2> HIDE DEF files
    <2>6. QED BY <2>2, <2>5, SyncedInStep
<1>7. QED BY <1>5, <1>6

\* fuseOpen keeps buffer and block number of the handle.
LEMMA OpenInStep ==
    ASSUME Session, NEW name \in Names, fuseOpen(name)
    PROVE  KeepsStep
<1> DEFINE h == generateFilehandle
           list == getBlockList(table, root[getFile(root, name)].firstBlock)
           file == [openFiles[h] EXCEPT !.isFree = FALSE, !.blockList = list]
<1>1. CASE openFiles' = openFiles /\ disk' = disk
    BY <1>1 DEF KeepsStep, StaysInStep, InStepWith, InStep
<1>2. CASE openFiles' = [openFiles EXCEPT ![h].isFree = FALSE, ![h].blockList = list]
           /\ disk' = disk
    <2>1. /\ file.blockNo = openFiles[h].blockNo /\ file.dirty = openFiles[h].dirty
          /\ file.buffer = openFiles[h].buffer
        OBVIOUS
    <2>2. openFiles' = [openFiles EXCEPT ![h] = file] /\ openFiles \in [Handles -> OpenFile]
        BY <1>2 DEF Session, HandlesFit, HandlesOK
    <2> HIDE DEF h, file, list
    <2>3. \A g \in Handles : /\ openFiles'[g].blockNo = openFiles[g].blockNo
                             /\ openFiles'[g].dirty = openFiles[g].dirty
                             /\ openFiles'[g].buffer = openFiles[g].buffer
        BY <2>1, <2>2
    <2>4. QED BY <1>2, <2>3 DEF KeepsStep, StaysInStep, InStep, InStepWith
<1>3. QED BY <1>1, <1>2 DEF fuseOpen, Returns, handles, storage

\* Every step.
LEMMA NextInStep ==
    ASSUME Mounted, NumbersFit, Session, [Next]_vars
    PROVE  KeepsStep
<1>1. ASSUME NEW name \in Names, fuseOpen(name) PROVE KeepsStep
    BY <1>1, OpenInStep
<1>2. ASSUME NEW name \in Names, NEW newSize \in NewSizes, fuseTruncate(name, newSize)
      PROVE  KeepsStep
    BY <1>2, TruncateInStep
<1>3. ASSUME NEW h \in Handles, fuseRelease(h) PROVE KeepsStep
    BY <1>3, ReleaseInStep
<1>4. ASSUME NEW h \in Handles, NEW offset \in Offsets, NEW n \in ReadSizes,
             fuseRead(h, offset, n)
      PROVE  KeepsStep
    BY <1>4, ReadInStep
<1>5. ASSUME NEW h \in Handles, NEW offset \in Offsets, NEW data \in Payloads,
             fuseWrite(h, offset, data)
      PROVE  KeepsStep
    BY <1>5, WriteInStep
<1>6. ASSUME NEW h \in Handles, NEW newSize \in NewSizes, fuseTruncateOpen(h, newSize)
      PROVE  KeepsStep
    BY <1>6, TruncateOpenInStep
<1>7. ASSUME NEW name \in Names,
             \/ \E mode \in Modes : fuseMknod(name, mode)
             \/ fuseUnlink(name)
             \/ \E newName \in Names : fuseRename(name, newName)
             \/ \E mode \in Modes : fuseChmod(name, mode)
             \/ \E owner \in Owners : fuseChown(name, owner)
      PROVE  openFiles' = openFiles /\ disk' = disk
    BY <1>7 DEF fuseMknod, fuseUnlink, fuseRename, fuseChmod, fuseChown,
                Returns, Faults, handles, storage
<1>8. Tick \/ UNCHANGED vars => openFiles' = openFiles /\ disk' = disk
    BY DEF Tick, vars, handles, storage
<1>9. openFiles' = openFiles /\ disk' = disk => KeepsStep
    BY DEF KeepsStep, StaysInStep, InStepWith, InStep
<1>10. QED BY <1>1, <1>2, <1>3, <1>4, <1>5, <1>6, <1>7, <1>8, <1>9 DEF Next
-----------------------------------------------------------------------------
(* The invariant.                                                          *)

\* No block is listed twice: files share no blocks, and no file is open twice.
LEMMA ListedOnce ==
    ASSUME NEW f, NEW t, NEW r, Metadata(f, t, r), NEW of, NEW n, NEW op,
           HandlesOK(of, n, op, r, Chains(t, r)),
           NEW g \in Handles, ~of[g].isFree, NEW h \in Handles, ~of[h].isFree,
           NEW b \in SetOfBlocks(of[g].blockList), b \in SetOfBlocks(of[h].blockList)
    PROVE  g = h
<1>1. /\ op[g] # NoName /\ Attached(op[g], of[g], r, Chains(t, r))
      /\ op[h] # NoName /\ Attached(op[h], of[h], r, Chains(t, r))
      /\ op[g] = op[h] => g = h
    BY DEF HandlesOK
<1>2. PICK i \in Entries : r[i].name = op[g] /\ of[g].blockList = Chains(t, r)[i]
    BY <1>1 DEF Attached
<1>3. PICK j \in Entries : r[j].name = op[h] /\ of[h].blockList = Chains(t, r)[j]
    BY <1>1 DEF Attached
<1>4. i = j
    <2>1. CASE j # i
        <3>1. SetOfBlocks(Chains(t, r)[j]) \cap SetOfBlocks(Chains(t, r)[i]) = {}
            BY <2>1, Apart
        <3>2. QED BY <1>2, <1>3, <3>1
    <2>2. QED BY <2>1
<1>5. QED BY <1>1, <1>2, <1>3, <1>4

\* No block is in the lists of two open handles.
LEMMA ListsDisjoint ==
    ASSUME Session, NEW g \in Handles, NEW h \in Handles, g # h
    PROVE  Listed(g) \cap Listed(h) = {}
<1>1. ASSUME NEW b \in Listed(g), b \in Listed(h) PROVE FALSE
    <2>1. /\ ~openFiles[g].isFree /\ b \in SetOfBlocks(openFiles[g].blockList)
          /\ ~openFiles[h].isFree /\ b \in SetOfBlocks(openFiles[h].blockList)
        BY <1>1 DEF Listed
    <2>2. QED BY <2>1, ListedOnce DEF Session, MetadataOK, HandlesFit
<1>2. QED BY <1>1

\* What a handle lists are blocks.
LEMMA ListedBlocks ==
    ASSUME Session, NEW h \in Handles
    PROVE  Listed(h) \subseteq Blocks /\ Listed(h) \subseteq DataBlocks
<1>1. ~openFiles[h].isFree => SetOfBlocks(openFiles[h].blockList) \subseteq DataBlocks
    BY ListedData DEF Session, MetadataOK, HandlesFit
<1>2. DataBlocks \subseteq Blocks
    BY DmapAssumption DEF DataBlocks, Blocks
<1>3. QED BY <1>1, <1>2 DEF Listed

\* Both, as one fact about a state.
ListsApart ==
    /\ \A h \in Handles : Listed(h) \subseteq Blocks
    /\ \A g, h \in Handles : g # h => Listed(g) \cap Listed(h) = {}

\* So it is in every session.
LEMMA SessionListsApart == Session => ListsApart
BY ListsDisjoint, ListedBlocks DEF ListsApart

\* Handles stay in step with the blocks they list as long as none gets a block
\* of which it holds another version.
LEMMA CachesStayInStep ==
    ASSUME Session, Session', CachesInStep, KeepsStep, TakesNoStaleBlock
    PROVE  CachesInStep'
<1> SUFFICES ASSUME NEW h \in Handles, NEW b \in Listed(h)'
             PROVE  InStep([file |-> openFiles'[h], disk |-> disk'], b)
    BY DEF CachesInStep, InStepWith, InStep
<1>1. ListsApart /\ ListsApart'
    BY SessionListsApart, PTL
<1> b \in Blocks
    BY <1>1 DEF ListsApart
<1>2. InStepWith(h, b)
    <2>1. CASE b \in Listed(h)
        BY <2>1 DEF CachesInStep
    <2>2. CASE b \notin Listed(h) /\ openFiles[h].blockNo = b
        BY <2>2 DEF TakesNoStaleBlock, InStepWith, InStep
    <2>3. CASE openFiles[h].blockNo # b
        BY <2>3 DEF InStepWith, InStep
    <2>4. QED BY <2>1, <2>2, <2>3
<1>3. ~OtherMayWrite(h, b)
    <2>1. \A g \in Handles \ {h} : /\ Listed(g) \cap Listed(h) = {}
                                   /\ Listed(g)' \cap Listed(h)' = {}
        BY <1>1 DEF ListsApart
    <2>2. QED BY <2>1 DEF OtherMayWrite
<1>4. QED BY <1>1, <1>2, <1>3 DEF KeepsStep, StaysInStep, InStepWith, InStep

\* A handle nobody has used holds no block, and lists none.
LEMMA InitInStep == Init => CachesInStep
<1> SUFFICES ASSUME Init PROVE CachesInStep
    OBVIOUS
<1>1. \A h \in Handles : openFiles[h] = UnusedHandle
    BY DEF Init
<1>2. \A h \in Handles : openFiles[h].isFree /\ openFiles[h].blockNo = END_OF_CLUSTER
    BY <1>1 DEF UnusedHandle
<1>3. \A h \in Handles : Listed(h) = {}
    BY <1>2 DEF Listed
<1>4. QED BY <1>3 DEF CachesInStep

\* What falls out of step is written by others: no handle, whatever it reads,
\* writes, cuts, releases or dumps, and whatever block it had is freed, given to
\* another file or comes back to it, is left with an old copy by its own calls.
THEOREM StaleByOthers ==
    ASSUME Mounted, NumbersFit
    PROVE  Spec => OnlyOthersMakeStale
<1>1. Session /\ Session' /\ [Next]_vars => [KeepsStep]_vars
    BY NextInStep
<1>2. QED BY <1>1, SessionInvariant, PTL DEF Spec, OnlyOthersMakeStale

\* The histories with fresh caches are histories of the file system.
LEMMA FreshIsSpec == FreshSpec => Spec
<1>1. [Next /\ TakesNoStaleBlock]_vars => [Next]_vars
    OBVIOUS
<1>2. QED BY <1>1, PTL DEF FreshSpec, Spec

\* In any number of handles, if no step gives one a block of which it holds an
\* old copy, then they are in step with the blocks of their files.
LEMMA InStepInvariant ==
    ASSUME Mounted, NumbersFit
    PROVE  FreshSpec => []CachesInStep
<1>1. Init => CachesInStep
    BY InitInStep
<1>2. Session /\ Session' /\ CachesInStep /\ [Next /\ TakesNoStaleBlock]_vars
          => CachesInStep'
    <2>1. Session /\ Session' /\ CachesInStep /\ [Next]_vars /\ TakesNoStaleBlock
              => CachesInStep'
        BY NextInStep, CachesStayInStep
    <2>2. CachesInStep /\ UNCHANGED vars => CachesInStep'
        BY DEF CachesInStep, vars, handles, storage, Listed, InStepWith, InStep
    <2>3. QED BY <2>1, <2>2
<1>3. QED BY <1>1, <1>2, SessionInvariant, FreshIsSpec, PTL DEF FreshSpec

-----------------------------------------------------------------------------
(* What a handle in step reads.                                            *)

\* Of the blocks it lists, a handle in step sees what there is to see: a block
\* that waits, waits in its own cache.
LEMMA SeenThrough ==
    ASSUME NEW f, NEW t, NEW r, Metadata(f, t, r), NEW of, NEW n, NEW op,
           HandlesOK(of, n, op, r, Chains(t, r)), NEW dk,
           NEW h \in Handles, ~of[h].isFree, NEW b \in SetOfBlocks(of[h].blockList),
           InStep([file |-> of[h], disk |-> dk], b)
    PROVE  SeenAs(of, dk, b) = FoundIn([file |-> of[h], disk |-> dk], b)
<1>1. FoundIn([file |-> of[h], disk |-> dk], b) =
          IF of[h].blockNo = b THEN of[h].buffer ELSE dk[b]
    BY DEF FoundIn
<1>2. CASE Waiting(of, b) = {}
    <2>1. of[h].blockNo = b => ~of[h].dirty
        BY <1>2 DEF Waiting
    <2>2. QED BY <1>1, <1>2, <2>1 DEF SeenAs, InStep
<1>3. CASE Waiting(of, b) # {}
    <2> DEFINE g == AnyOf(Waiting(of, b))
    <2>1. g \in Waiting(of, b)
        BY <1>3 DEF AnyOf
    <2>2. SeenAs(of, dk, b) = of[g].buffer
        BY <1>3 DEF SeenAs
    <2> HIDE DEF g
    <2>3. g \in Handles /\ of[g].dirty /\ of[g].blockNo = b
        BY <2>1 DEF Waiting
    <2>4. ~of[g].isFree /\ b \in SetOfBlocks(of[g].blockList)
        BY <2>3 DEF HandlesOK, DirtyInList
    <2>5. g = h
        BY <2>3, <2>4, ListedOnce
    <2>6. QED BY <1>1, <2>2, <2>3, <2>5
<1>4. QED BY <1>2, <1>3

OfHandle(h) == [file |-> openFiles[h], disk |-> disk]

\* A handle in step sees each block of its file as Contents does.
LEMMA SeesCurrent ==
    ASSUME Session, NEW h \in Handles, NEW b \in Listed(h), InStepWith(h, b)
    PROVE  CurrentBlock(b) = FoundIn(OfHandle(h), b)
<1>1. CurrentBlock(b) = SeenAs(openFiles, disk, b)
    BY DEF CurrentBlock, Holders, SeenAs, Waiting, AnyOf
<1>2. ~openFiles[h].isFree /\ b \in SetOfBlocks(openFiles[h].blockList)
    BY DEF Listed
<1>3. SeenAs(openFiles, disk, b) = FoundIn([file |-> openFiles[h], disk |-> disk], b)
    BY <1>2, SeenThrough DEF Session, MetadataOK, HandlesFit, InStepWith, InStep
<1>4. QED BY <1>1, <1>3 DEF OfHandle

\* The bytes of a file lie in the blocks of its chain.
LEMMA BytesInChain ==
    ASSUME NEW list \in BlockLists, NEW size \in Nat, Len(list) = Needed(size),
           NEW at \in Nat, at < size
    PROVE  /\ (at \div BLOCK_SIZE) + 1 \in 1..Len(list)
           /\ list[(at \div BLOCK_SIZE) + 1] \in SetOfBlocks(list)
           /\ (at \div BLOCK_SIZE) + 1 \in DOMAIN list
<1>1. BLOCK_SIZE \in Nat \ {0} /\ size # 0 /\ size - 1 \in Nat /\ at <= size - 1
    BY TransferAssumption
<1>2. at \div BLOCK_SIZE \in Nat /\ (size - 1) \div BLOCK_SIZE \in Nat
    BY <1>1, DivMod
<1>3. at \div BLOCK_SIZE <= (size - 1) \div BLOCK_SIZE
    BY <1>1, DivMonotonic
<1>4. Len(list) = (size - 1) \div BLOCK_SIZE + 1 /\ Len(list) \in Nat
    BY <1>1, NeededType
<1>5. (at \div BLOCK_SIZE) + 1 \in 1..Len(list)
    BY <1>2, <1>3, <1>4
<1>6. \A p \in 1..Len(list) : list[p] \in SetOfBlocks(list)
    BY BlockListType
<1>7. DOMAIN list = 1..Len(list)
    BY BlockListType
<1>8. QED BY <1>5, <1>6, <1>7

\* The bytes of its file are those a handle in step finds.
LEMMA ContentsFound ==
    ASSUME Session, CachesInStep, NEW h \in Handles, opened[h] # NoName
    PROVE  /\ FileInStep(OfHandle(h))
           /\ \A k \in 1..root[fileOf(h)].size :
                 Contents(fileOf(h))[k] = ByteOf(OfHandle(h), k - 1)
<1> DEFINE list == openFiles[h].blockList
           size == root[fileOf(h)].size
<1>1. /\ ~openFiles[h].isFree /\ list = Chain(fileOf(h)) /\ Len(list) = Needed(size)
      /\ list \in BlockLists /\ size \in 0..MaxSize
    BY OpenHandle
<1> size \in Nat
    BY <1>1, OnDiskFSAssumption
<1>2. Listed(h) = SetOfBlocks(list)
    BY <1>1 DEF Listed
<1>3. \A b \in SetOfBlocks(list) : InStepWith(h, b)
    BY <1>2 DEF CachesInStep
<1>4. FileInStep(OfHandle(h))
    BY <1>3 DEF FileInStep, OfHandle, InStepWith, InStep
<1>5. \A k \in 1..size : Contents(fileOf(h))[k] =
          CurrentBlock(list[((k - 1) \div BLOCK_SIZE) + 1])[(k - 1) % BLOCK_SIZE]
    <2> HIDE DEF list
    <2>1. QED BY <1>1 DEF Contents, BytesOf
<1>6. \A b \in SetOfBlocks(list) : CurrentBlock(b) = FoundIn(OfHandle(h), b)
    BY <1>2, <1>3, SeesCurrent
<1>7. OfHandle(h).file.blockList = list
    BY DEF OfHandle
<1> HIDE DEF list, size
<1>8. ASSUME NEW k \in 1..size
      PROVE  Contents(fileOf(h))[k] = ByteOf(OfHandle(h), k - 1)
    <2>1. k - 1 \in Nat /\ k - 1 < size
        BY <1>1
    <2>2. list[((k - 1) \div BLOCK_SIZE) + 1] \in SetOfBlocks(list)
        BY <1>1, <2>1, BytesInChain
    <2>3. QED BY <1>5, <1>6, <1>7, <2>2 DEF ByteOf
<1>9. QED BY <1>4, <1>8 DEF size

\* A part of a sequence is the one with the same bytes.
LEMMA PartIs ==
    ASSUME NEW bytes, NEW data \in Seq(Cells), NEW offset \in Nat,
           \A x \in 1..Len(data) : bytes[offset + x] = data[x]
    PROVE  SubSeq(bytes, offset + 1, offset + Len(data)) = data
<1> DEFINE n == Len(data)
           part == SubSeq(bytes, offset + 1, offset + n)
<1>1. n \in Nat /\ \A x \in 1..n : data[x] \in Cells
    OBVIOUS
<1> HIDE DEF n
<1>2. ASSUME NEW k \in (offset + 1)..(offset + n) PROVE bytes[k] \in Cells
    <2>1. k - offset \in 1..n /\ offset + (k - offset) = k
        BY <1>1
    <2>2. QED BY <1>1, <2>1 DEF n
<1>3. /\ part \in Seq(Cells)
      /\ Len(part) = IF offset + 1 <= offset + n THEN (offset + n) - (offset + 1) + 1 ELSE 0
      /\ \A i \in 1..((offset + n) - (offset + 1) + 1) : part[i] = bytes[offset + 1 + i - 1]
    BY <1>1, <1>2, SubSeqProperties, SMTT(30)
<1>4. Len(part) = n /\ (offset + n) - (offset + 1) + 1 = n
    BY <1>1, <1>3
<1>5. ASSUME NEW i \in 1..n PROVE part[i] = data[i]
    <2>1. part[i] = bytes[offset + 1 + i - 1] /\ offset + 1 + i - 1 = offset + i
        BY <1>1, <1>3, <1>4
    <2>2. QED BY <2>1 DEF n
<1> HIDE DEF part
<1>6. part = data
    BY <1>3, <1>4, <1>5, SeqEqual DEF n
<1>7. QED BY <1>6 DEF part, n

\* What a handle in step reads are the bytes of its file.
LEMMA InStepReads ==
    ASSUME Session, NumbersFit, CachesInStep, NEW h \in Handles, opened[h] # NoName,
           NEW offset \in Nat, NEW n \in Nat \ {0}, offset + n <= root[fileOf(h)].size
    PROVE  WouldRead(h, offset, n) = SubSeq(Contents(fileOf(h)), offset + 1, offset + n)
<1> DEFINE c == OfHandle(h)
           size == root[fileOf(h)].size
           bytes == Contents(fileOf(h))
           data == ReadData(c, (offset \div BLOCK_SIZE) + 1, offset, n).data
           S == SetOfBlocks(openFiles[h].blockList)
<1>1. size \in 0..MaxSize
    BY OpenHandle
<1>2. size \in Nat
    BY <1>1, OnDiskFSAssumption
<1>3. /\ BlockIndex(offset) = offset \div BLOCK_SIZE
      /\ Covered(S, c, BlockIndex(offset) + 1, offset, n)
    BY OpenCovers DEF OfHandle
<1>4. WouldRead(h, offset, n) = data
    BY <1>3 DEF WouldRead, OfHandle
<1>5. Covered(S, c, (offset \div BLOCK_SIZE) + 1, offset, n)
    BY <1>3
<1>6. FileInStep(c) /\ \A k \in 1..size : bytes[k] = ByteOf(c, k - 1)
    BY ContentsFound
<1> HIDE DEF c
<1>7. data \in Seq(Cells) /\ Len(data) = n
    BY <1>5, ReadDataStaysInList
<1>8. \A x \in 1..n : data[x] = ByteOf(c, offset + x - 1)
    BY <1>5, <1>6, ReadDataFinds
<1> HIDE DEF data, S
<1>9. \A x \in 1..n : offset + x \in 1..size /\ offset + x - 1 = (offset + x) - 1
    BY <1>2
<1> HIDE DEF size, bytes
<1>10. \A x \in 1..n : bytes[offset + x] = data[x]
    <2>1. ASSUME NEW x \in 1..n PROVE bytes[offset + x] = data[x]
        <3>1. bytes[offset + x] = ByteOf(c, (offset + x) - 1)
            BY <1>6, <1>9
        <3>2. data[x] = ByteOf(c, offset + x - 1)
            BY <1>8
        <3>3. QED BY <1>9, <3>1, <3>2
    <2>2. QED BY <2>1
<1>11. SubSeq(bytes, offset + 1, offset + n) = data
    BY <1>7, <1>10, PartIs
<1>12. QED BY <1>4, <1>11 DEF bytes

\* So reads are current.
LEMMA InStepReadsCurrent ==
    ASSUME Session, NumbersFit, CachesInStep
    PROVE  ReadsCurrent
<1> SUFFICES ASSUME NEW h \in Handles, opened[h] # NoName,
                    NEW offset \in 0..(root[fileOf(h)].size - 1)
             PROVE  WouldRead(h, offset, root[fileOf(h)].size - offset) =
                        SubSeq(Contents(fileOf(h)), offset + 1,
                               offset + (root[fileOf(h)].size - offset))
    BY DEF ReadsCurrent
<1>1. root[fileOf(h)].size \in 0..MaxSize
    BY OpenHandle
<1> DEFINE n == root[fileOf(h)].size - offset
<1>2. offset \in Nat /\ n \in Nat \ {0} /\ offset + n <= root[fileOf(h)].size
    BY <1>1, OnDiskFSAssumption
<1> HIDE DEF n
<1>3. WouldRead(h, offset, n) = SubSeq(Contents(fileOf(h)), offset + 1, offset + n)
    BY <1>2, InStepReads
<1>4. QED BY <1>3 DEF n

\* Every read through any handle returns the bytes last written there, in every
\* history in which no handle is given a block of which it holds an old copy.
\* That happens (a run with two handles shows it), and nothing else goes wrong.
THEOREM FreshCachesReadCurrent ==
    ASSUME Mounted, NumbersFit
    PROVE  FreshSpec => []ReadsCurrent
<1>1. Session /\ CachesInStep => ReadsCurrent
    BY InStepReadsCurrent
<1>2. QED BY <1>1, SessionInvariant, InStepInvariant, FreshIsSpec, PTL

-----------------------------------------------------------------------------
(* The store of files that a session implements.                           *)

\* What the store of files has under a name is the one entry of that name; and
\* the bytes of an entry are as many as its size says.
Directory ==
    /\ \A i \in Entries, name \in Names : root[i].name = name =>
          hasFile(root, name) /\ StoredFiles[name] = StoredFile(i)
    /\ \A name \in Names : hasFile(root, name) => \E i \in Entries : root[i].name = name
    /\ \A name \in Names : ~hasFile(root, name) => StoredFiles[name] = NoName
    /\ \A i \in Entries : /\ root[i].size \in Nat
                          /\ Contents(i) \in Seq(Cells) /\ Len(Contents(i)) = root[i].size
                          /\ DOMAIN Contents(i) = 1..root[i].size
                          /\ StoredFile(i) # NoName

\* The bytes of an entry are bytes.
LEMMA ContentsType ==
    ASSUME Session, NEW i \in Entries
    PROVE  /\ root[i].size \in Nat /\ Contents(i) \in Seq(Cells)
           /\ DOMAIN Contents(i) = 1..root[i].size /\ Len(Contents(i)) = root[i].size
<1> DEFINE list == Chain(i)
           size == root[i].size
           cell(k) == CurrentBlock(list[((k - 1) \div BLOCK_SIZE) + 1])[(k - 1) % BLOCK_SIZE]
<1>1. size \in Nat /\ list \in BlockLists /\ Len(list) = Needed(size)
    <2>1. list = Chains(table, root)[i]
        BY DEF Chain, Chains
    <2>2. QED BY <2>1, ChainFacts DEF Session, MetadataOK, Metadata, Files
<1>2. SetOfBlocks(list) \subseteq Blocks
    BY ChainIs
<1>3. \A b \in Blocks : CurrentBlock(b) \in BlockData
    <2>1. disk \in [Blocks -> BlockData] /\ openFiles \in [Handles -> OpenFile]
        BY DEF Session, StorageOK, HandlesFit, HandlesOK, Disks
    <2>2. \A h \in Handles : openFiles[h].buffer \in BlockData
        BY <2>1 DEF OpenFile
    <2>3. QED BY <2>1, <2>2 DEF CurrentBlock, Holders
<1>4. Contents(i) = [k \in 1..size |-> cell(k)]
    BY DEF Contents, BytesOf
<1> HIDE DEF list, size
<1>5. ASSUME NEW k \in 1..size PROVE cell(k) \in Cells
    <2>1. k - 1 \in Nat /\ k - 1 < size
        BY <1>1
    <2>2. list[((k - 1) \div BLOCK_SIZE) + 1] \in Blocks
        BY <1>1, <1>2, <2>1, BytesInChain
    <2>3. (k - 1) % BLOCK_SIZE \in Positions
        <3>1. BLOCK_SIZE \in Nat \ {0}
            BY TransferAssumption
        <3>2. (k - 1) % BLOCK_SIZE \in Nat /\ (k - 1) % BLOCK_SIZE < BLOCK_SIZE
            BY <2>1, <3>1, DivMod
        <3>3. QED BY <3>1, <3>2 DEF Positions
    <2>4. QED BY <1>3, <2>2, <2>3 DEF BlockData
<1> HIDE DEF cell
<1>6. Contents(i) \in [1..size -> Cells]
    BY <1>4, <1>5
<1>7. Contents(i) \in Seq(Cells) /\ DOMAIN Contents(i) = 1..size /\ Len(Contents(i)) = size
    BY <1>1, <1>6
<1>8. QED BY <1>1, <1>7 DEF size

\* Consistent metadata is such a directory.
LEMMA SessionDirectory == Session => Directory
<1> SUFFICES ASSUME Session PROVE Directory
    OBVIOUS
<1>1. ASSUME NEW i \in Entries, NEW name \in Names, root[i].name = name
      PROVE  hasFile(root, name) /\ StoredFiles[name] = StoredFile(i)
    <2>1. name # NoName
        BY RootAssumption
    <2>2. hasFile(root, name) /\ getFile(root, name) = i
        BY <1>1, <2>1, GetFileUnique DEF Session, MetadataOK
    <2>3. QED BY <2>2 DEF StoredFiles
<1>2. \A name \in Names : hasFile(root, name) => \E i \in Entries : root[i].name = name
    BY DEF hasFile
<1>3. \A name \in Names : ~hasFile(root, name) => StoredFiles[name] = NoName
    BY DEF StoredFiles
<1>4. ASSUME NEW i \in Entries PROVE StoredFile(i) # NoName
    <2>1. Contents(i) \in Seq(Cells)
        BY ContentsType
    <2>2. root[i].mode \in Modes \cup {NoMode} /\ root[i].owner \in Owners \cup {NoOwner}
        BY DEF Session, MetadataOK, Metadata, Files
    <2>3. QED BY <2>1, <2>2, OnDiskFSAssumption DEF StoredFile
<1>5. QED BY <1>1, <1>2, <1>3, <1>4, ContentsType DEF Directory

\* Entry j is still the same file.
Stays(j) ==
    /\ KeepsFile(j)
    /\ root'[j].name = root[j].name /\ root'[j].mode = root[j].mode
    /\ root'[j].owner = root[j].owner

\* When the files of all names but those of T stay, and none appears under
\* another name, the store is the same but for T.
LEMMA OthersStored ==
    ASSUME Session, Directory, Directory', NEW T,
           \A j \in Entries : root[j].name \notin T \cup {NoName} => Stays(j),
           \A j \in Entries : root'[j].name \notin T \cup {NoName}
                              => root[j].name = root'[j].name,
           NEW name \in Names \ T
    PROVE  StoredFiles'[name] = StoredFiles[name]
<1>1. name # NoName
    BY RootAssumption
<1>2. CASE hasFile(root, name)
    <2>1. PICK j \in Entries : root[j].name = name
        BY <1>2 DEF Directory
    <2>2. Stays(j)
        BY <1>1, <2>1
    <2>3. Contents(j)' = Contents(j)
        BY <2>2, SameContents DEF Stays
    <2>4. StoredFile(j)' = StoredFile(j)
        BY <2>2, <2>3 DEF Stays, StoredFile
    <2>5. root'[j].name = name
        BY <2>1, <2>2 DEF Stays
    <2>6. QED BY <2>1, <2>4, <2>5 DEF Directory
<1>3. CASE ~hasFile(root, name)
    <2>1. ~hasFile(root', name)
        BY <1>1, <1>3 DEF hasFile
    <2>2. QED BY <1>3, <2>1 DEF Directory
<1>4. QED BY <1>2, <1>3

\* A step on one file.
LEMMA OneStored ==
    ASSUME Session, Directory, Directory', NEW name \in Names,
           \A j \in Entries : root[j].name \notin {name, NoName} => Stays(j),
           \A j \in Entries : root'[j].name \notin {name, NoName}
                              => root[j].name = root'[j].name,
           NEW file, StoredFiles'[name] = file
    PROVE  StoredFiles' = [StoredFiles EXCEPT ![name] = file]
<1>1. \A other \in Names \ {name} : StoredFiles'[other] = StoredFiles[other]
    <2> DEFINE T == {name}
    <2>1. T \cup {NoName} = {name, NoName}
        OBVIOUS
    <2>2. \A j \in Entries : root[j].name \notin T \cup {NoName} => Stays(j)
        BY <2>1
    <2>3. \A j \in Entries : root'[j].name \notin T \cup {NoName}
                             => root[j].name = root'[j].name
        BY <2>1
    <2> HIDE DEF T
    <2>4. \A other \in Names \ T : StoredFiles'[other] = StoredFiles[other]
        BY <2>2, <2>3, OthersStored
    <2>5. QED BY <2>4 DEF T
<1>2. /\ StoredFiles = [other \in Names |-> StoredFiles[other]]
      /\ StoredFiles' = [other \in Names |-> StoredFiles'[other]]
    BY DEF StoredFiles
<1>3. QED BY <1>1, <1>2

\* A step that leaves the directory and every file alone.
LEMMA SameStored ==
    ASSUME Session, Directory, Directory', root' = root, KeepsAll
    PROVE  StoredFiles' = StoredFiles
<1>1. \A j \in Entries : Stays(j)
    BY DEF Stays, KeepsAll
<1>2. \A name \in Names \ {} : StoredFiles'[name] = StoredFiles[name]
    BY <1>1, OthersStored
<1>3. /\ StoredFiles = [name \in Names |-> StoredFiles[name]]
      /\ StoredFiles' = [name \in Names |-> StoredFiles'[name]]
    BY DEF StoredFiles
<1>4. QED BY <1>2, <1>3

-----------------------------------------------------------------------------
(* Each handler is a step of the store.                                    *)

\* A call that fails.
Errors == {-ENOENT, -EMFILE, -ENOSPC, -ENAMETOOLONG}

\* Every error is a failure to the store.
LEMMA ErrorsNegative == \A code \in Errors : code < 0
BY DEF Errors, ENOENT, EMFILE, ENOSPC, ENAMETOOLONG

\* A call that fails and keeps the files is a failing call of the store.
LEMMA FailStep ==
    ASSUME Session, Directory, Directory', root' = root, KeepsAll,
           NEW call, NEW code \in Errors, Return(call, code)
    PROVE  Store!Next
<1>1. StoredFiles' = StoredFiles
    BY SameStored
<1>2. reply'.code < 0 /\ reply'.data = <<>>
    BY ErrorsNegative DEF Return, Reply
<1>3. Store!Fail
    BY <1>1, <1>2 DEF Store!Fail
<1>4. QED BY <1>3 DEF Store!Next

\* And one that changes nothing at all.
LEMMA ReturnFails ==
    ASSUME Session, Directory, Directory', NEW call, NEW code \in Errors, Returns(call, code)
    PROVE  Store!Next
<1>1. UNCHANGED <<meta, openFiles, disk>> /\ root' = root
    BY DEF Returns, handles, storage, meta
<1>2. KeepsAll
    BY <1>1, NothingChanges
<1>3. QED BY <1>1, <1>2, FailStep DEF Returns

\* fuseMknod creates an empty file, or fails.
LEMMA MknodStores ==
    ASSUME Session, Session', Directory, Directory', Mounted,
           NEW name \in Names, NEW mode \in Modes, fuseMknod(name, mode)
    PROVE  Store!Next
<1>1. ~hasFile(root, name)
    BY DEF Mounted, fuseMknod
<1>2. CASE Returns("mknod", -ENOSPC) \/ Returns("mknod", -ENAMETOOLONG)
    BY <1>2, ReturnFails DEF Errors
<1>3. CASE ~isFull(root) /\ root' = mknod(root, name, mode, ProcessOwner) /\ Return("mknod", 0)
    <2> DEFINE e == [UnusedEntry EXCEPT !.name = name, !.mode = mode, !.owner = ProcessOwner]
    <2> getFile(root, NoName) \in Entries /\ root[getFile(root, NoName)].name = NoName
        BY <1>3, GetFile DEF isFull
    <2>1. PICK i \in Entries : i = getFile(root, NoName) /\ root[i].name = NoName
        OBVIOUS
    <2>2. root \in [Entries -> Files] /\ name # NoName
        BY RootAssumption DEF Session, MetadataOK, Metadata
    <2>3. root' = [root EXCEPT ![i] = e]
        BY <1>3, <2>1 DEF mknod
    <2>4. e.name = name /\ e.size = 0 /\ e.mode = mode /\ e.owner = ProcessOwner
        BY DEF UnusedEntry
    <2> HIDE DEF e
    <2>5. root'[i] = e /\ \A j \in Entries \ {i} : root'[j] = root[j]
        BY <2>1, <2>2, <2>3
    <2>6. KeepsAll
        BY MknodSession
    <2>7. \A j \in Entries : root[j].name \notin {name, NoName} => Stays(j)
        BY <2>1, <2>5, <2>6 DEF Stays, KeepsAll
    <2>8. \A j \in Entries : root'[j].name \notin {name, NoName} => root[j].name = root'[j].name
        BY <2>4, <2>5
    <2>9. Contents(i)' = <<>>
        <3>1. Contents(i)' \in Seq(Cells) /\ Len(Contents(i)') = 0
            BY <2>1, <2>4, <2>5 DEF Directory
        <3>2. QED BY <3>1, EmptySeq
    <2>10. StoredFile(i)' = [bytes |-> <<>>, mode |-> mode, owner |-> ProcessOwner]
        BY <2>4, <2>5, <2>9 DEF StoredFile
    <2>11. StoredFiles'[name] = [bytes |-> <<>>, mode |-> mode, owner |-> ProcessOwner]
        BY <2>1, <2>4, <2>5, <2>10 DEF Directory
    <2>12. StoredFiles' = [StoredFiles EXCEPT ![name] =
                              [bytes |-> <<>>, mode |-> mode, owner |-> ProcessOwner]]
        BY <2>7, <2>8, <2>11, OneStored
    <2>13. StoredFiles[name] = NoName
        BY <1>1 DEF Directory
    <2>14. Store!Create(name, mode)
        BY <1>3, <2>12, <2>13 DEF Store!Create, Store!Exists, Store!Return, Return, Reply
    <2>15. QED BY <2>14 DEF Store!Next
<1>4. QED BY <1>2, <1>3 DEF fuseMknod

\* fuseUnlink drops one file, or fails.
LEMMA UnlinkStores ==
    ASSUME Session, Session', Directory, Directory', NEW name \in Names, fuseUnlink(name)
    PROVE  Store!Next
<1>1. CASE Returns("unlink", -ENOENT)
    BY <1>1, ReturnFails DEF Errors
<1>2. CASE hasFile(root, name) /\ root' = unlink(root, name) /\ Return("unlink", 0)
    <2> DEFINE i == getFile(root, name)
    <2>1. /\ i \in Entries /\ root[i].name = name /\ ~hasFile(root', name)
          /\ \A j \in Entries \ {i} : root'[j] = root[j]
        BY <1>2, UnlinkKeeps DEF Session, MetadataOK
    <2>2. root'[i].name = NoName
        <3>1. root' = [root EXCEPT ![i] = UnusedEntry] /\ UnusedEntry.name = NoName
            BY <1>2 DEF unlink, UnusedEntry
        <3>2. root \in [Entries -> Files]
            BY DEF Session, MetadataOK, Metadata
        <3> HIDE DEF i
        <3>3. QED BY <2>1, <3>1, <3>2
    <2> HIDE DEF i
    <2>3. KeepsOthers(name)
        BY UnlinkSession
    <2>4. \A j \in Entries : root[j].name \notin {name, NoName} => Stays(j)
        BY <2>1, <2>3 DEF Stays, KeepsOthers
    <2>5. \A j \in Entries : root'[j].name \notin {name, NoName} => root[j].name = root'[j].name
        BY <2>1, <2>2
    <2>6. StoredFiles'[name] = NoName
        BY <2>1 DEF Directory
    <2>7. StoredFiles' = [StoredFiles EXCEPT ![name] = NoName]
        BY <2>4, <2>5, <2>6, OneStored
    <2>8. StoredFiles[name] # NoName
        BY <2>1 DEF Directory
    <2>9. Store!Remove(name)
        BY <1>2, <2>7, <2>8 DEF Store!Remove, Store!Exists, Store!Return, Return, Reply
    <2>10. QED BY <2>9 DEF Store!Next
<1>3. QED BY <1>1, <1>2 DEF fuseUnlink, UnlinkFile

\* chmod and chown: one attribute of one entry.
LEMMA AttributeStored ==
    ASSUME Session, Directory, Directory', NEW name \in Names, KeepsAll,
           NEW i \in Entries, root[i].name = name,
           \A j \in Entries \ {i} : root'[j] = root[j], root'[i].name = name
    PROVE  /\ StoredFiles' = [StoredFiles EXCEPT ![name] = StoredFile(i)']
           /\ StoredFile(i)' = [bytes |-> Contents(i), mode |-> root'[i].mode,
                                owner |-> root'[i].owner]
           /\ StoredFiles[name] = StoredFile(i) /\ StoredFiles[name] # NoName
<1>1. \A j \in Entries : root[j].name \notin {name, NoName} => Stays(j)
    BY DEF Stays, KeepsAll
<1>2. \A j \in Entries : root'[j].name \notin {name, NoName} => root[j].name = root'[j].name
    OBVIOUS
<1>3. StoredFiles'[name] = StoredFile(i)'
    BY DEF Directory
<1>4. StoredFiles' = [StoredFiles EXCEPT ![name] = StoredFile(i)']
    BY <1>1, <1>2, <1>3, OneStored
<1>5. Contents(i)' = Contents(i)
    BY SameContents DEF KeepsAll
<1>6. StoredFile(i)' = [bytes |-> Contents(i), mode |-> root'[i].mode,
                        owner |-> root'[i].owner]
    BY <1>5 DEF StoredFile
<1>7. StoredFiles[name] = StoredFile(i) /\ StoredFiles[name] # NoName
    BY DEF Directory
<1>8. QED BY <1>4, <1>6, <1>7

\* fuseChmod changes the mode of one file, or fails.
LEMMA ChmodStores ==
    ASSUME Session, Session', Directory, Directory', NEW name \in Names, NEW mode \in Modes,
           fuseChmod(name, mode)
    PROVE  Store!Next
<1>1. CASE Returns("chmod", -ENOENT)
    BY <1>1, ReturnFails DEF Errors
<1>2. CASE /\ hasFile(root, name) /\ Return("chmod", 0)
           /\ root' = [root EXCEPT ![getFile(root, name)].mode = mode]
    <2>1. PICK i \in Entries : i = getFile(root, name) /\ root[i].name = name
        BY <1>2, GetFile
    <2>2. root \in [Entries -> Files] /\ root[i] \in Files
        BY DEF Session, MetadataOK, Metadata
    <2>3. /\ root'[i].name = name /\ root'[i].mode = mode /\ root'[i].owner = root[i].owner
          /\ \A j \in Entries \ {i} : root'[j] = root[j]
        BY <1>2, <2>1, <2>2 DEF Files
    <2>4. KeepsAll
        BY ChmodSession
    <2>5. /\ StoredFiles' = [StoredFiles EXCEPT ![name] = StoredFile(i)']
          /\ StoredFile(i)' = [bytes |-> Contents(i), mode |-> mode, owner |-> root[i].owner]
          /\ StoredFiles[name] = StoredFile(i) /\ StoredFiles[name] # NoName
        BY <2>1, <2>3, <2>4, AttributeStored
    <2>6. StoredFile(i)' = [StoredFile(i) EXCEPT !.mode = mode]
        BY <2>5 DEF StoredFile
    <2>7. StoredFiles' = [StoredFiles EXCEPT ![name].mode = mode]
        BY <2>5, <2>6
    <2>8. Store!SetMode(name, mode)
        BY <1>2, <2>5, <2>7 DEF Store!SetMode, Store!Exists, Store!Return, Return, Reply
    <2>9. QED BY <2>8 DEF Store!Next
<1>3. QED BY <1>1, <1>2 DEF fuseChmod

\* fuseChown changes the owner of one file, or fails.
LEMMA ChownStores ==
    ASSUME Session, Session', Directory, Directory', NEW name \in Names, NEW owner \in Owners,
           fuseChown(name, owner)
    PROVE  Store!Next
<1>1. CASE Returns("chown", -ENOENT)
    BY <1>1, ReturnFails DEF Errors
<1>2. CASE /\ hasFile(root, name) /\ Return("chown", 0)
           /\ root' = [root EXCEPT ![getFile(root, name)].owner = owner]
    <2>1. PICK i \in Entries : i = getFile(root, name) /\ root[i].name = name
        BY <1>2, GetFile
    <2>2. root \in [Entries -> Files] /\ root[i] \in Files
        BY DEF Session, MetadataOK, Metadata
    <2>3. /\ root'[i].name = name /\ root'[i].mode = root[i].mode /\ root'[i].owner = owner
          /\ \A j \in Entries \ {i} : root'[j] = root[j]
        BY <1>2, <2>1, <2>2 DEF Files
    <2>4. KeepsAll
        BY ChownSession
    <2>5. /\ StoredFiles' = [StoredFiles EXCEPT ![name] = StoredFile(i)']
          /\ StoredFile(i)' = [bytes |-> Contents(i), mode |-> root[i].mode, owner |-> owner]
          /\ StoredFiles[name] = StoredFile(i) /\ StoredFiles[name] # NoName
        BY <2>1, <2>3, <2>4, AttributeStored
    <2>6. StoredFile(i)' = [StoredFile(i) EXCEPT !.owner = owner]
        BY <2>5 DEF StoredFile
    <2>7. StoredFiles' = [StoredFiles EXCEPT ![name].owner = owner]
        BY <2>5, <2>6
    <2>8. Store!SetOwner(name, owner)
        BY <1>2, <2>5, <2>7 DEF Store!SetOwner, Store!Exists, Store!Return, Return, Reply
    <2>9. QED BY <2>8 DEF Store!Next
<1>3. QED BY <1>1, <1>2 DEF fuseChown

\* What fuseRename does to the directory: the target, if there is one, is gone.
LEMMA RenameStep ==
    ASSUME Session, NEW name \in Names, NEW newName \in Names, name # newName,
           fuseRename(name, newName), hasFile(root, name)
    PROVE  /\ Return("rename", 0)
           /\ \E i \in Entries :
                 /\ root[i].name = name
                 /\ root'[i] = [root[i] EXCEPT !.name = newName]
                 /\ \A j \in Entries \ {i} :
                       root'[j] = IF root[j].name = newName THEN UnusedEntry ELSE root[j]
<1> DEFINE r1 == IF hasFile(root, newName) THEN UnlinkFile(newName).root ELSE root
<1>1. /\ root' = [r1 EXCEPT ![getFile(r1, name)].name = newName]
      /\ Return("rename", 0)
    <2>1. root \in [Entries -> Files]
        BY DEF Session, MetadataOK, Metadata
    <2>2. r1 = WithoutTarget(newName).root
        BY DEF WithoutTarget
    <2> HIDE DEF r1
    <2>3. QED BY <2>1, <2>2, RenameDone
<1>2. PICK i \in Entries : root[i].name = name
    BY DEF hasFile
<1>3. /\ root \in [Entries -> Files] /\ name # NoName /\ newName # NoName
      /\ \A j, k \in Entries : root[j].name = root[k].name /\ root[j].name # NoName => j = k
    BY RootAssumption DEF Session, MetadataOK, Metadata
<1>4. /\ r1 = [j \in Entries |-> IF root[j].name = newName THEN UnusedEntry ELSE root[j]]
      /\ \E f : Metadata(f, table, r1)
    <2>1. CASE hasFile(root, newName)
        <3>1. PICK k \in Entries : k = getFile(root, newName) /\ root[k].name = newName
            BY <2>1, GetFile
        <3>2. r1 = unlink(root, newName) /\ unlink(root, newName) = [root EXCEPT ![k] = UnusedEntry]
            BY <2>1, <3>1 DEF UnlinkFile, unlink
        <3>3. \E f : Metadata(f, table, unlink(root, newName))
            BY <2>1, UnlinkKeeps DEF Session, MetadataOK
        <3> HIDE DEF r1
        <3>4. \A j \in Entries : root[j].name = newName <=> j = k
            BY <1>3, <3>1
        <3>5. QED BY <1>3, <3>2, <3>3, <3>4
    <2>2. CASE ~hasFile(root, newName)
        <3>1. r1 = root /\ \A j \in Entries : root[j].name # newName
            BY <2>2 DEF hasFile
        <3> HIDE DEF r1
        <3>2. QED BY <1>3, <3>1 DEF Session, MetadataOK
    <2>3. QED BY <2>1, <2>2
<1> HIDE DEF r1
<1>5. r1[i] = root[i] /\ r1[i].name = name
    BY <1>2, <1>4
<1>6. getFile(r1, name) = i
    BY <1>3, <1>4, <1>5, GetFileUnique
<1>7. root' = [r1 EXCEPT ![i].name = newName]
    BY <1>1, <1>6
<1>8. /\ root'[i] = [root[i] EXCEPT !.name = newName]
      /\ \A j \in Entries \ {i} : root'[j] = r1[j]
    BY <1>4, <1>5, <1>7
<1>9. QED BY <1>1, <1>2, <1>4, <1>8

\* fuseRename moves one file, in place of the target if there is one, or fails.
LEMMA RenameStores ==
    ASSUME Session, Session', Directory, Directory', Mounted,
           NEW name \in Names, NEW newName \in Names, fuseRename(name, newName)
    PROVE  Store!Next
<1>1. name # newName
    BY DEF Mounted, fuseRename
<1>2. CASE ~hasFile(root, name)
    BY <1>2, ReturnFails DEF fuseRename, Errors
<1>3. CASE hasFile(root, name)
    <2>1. /\ Return("rename", 0)
          /\ \E i \in Entries :
                 /\ root[i].name = name
                 /\ root'[i] = [root[i] EXCEPT !.name = newName]
                 /\ \A j \in Entries \ {i} :
                       root'[j] = IF root[j].name = newName THEN UnusedEntry ELSE root[j]
        BY <1>1, <1>3, RenameStep
    <2>2. PICK i \in Entries :
              /\ root[i].name = name
              /\ root'[i] = [root[i] EXCEPT !.name = newName]
              /\ \A j \in Entries \ {i} :
                    root'[j] = IF root[j].name = newName THEN UnusedEntry ELSE root[j]
        BY <2>1
    <2>3. /\ root[i] \in Files /\ name # NoName /\ newName # NoName
          /\ UnusedEntry.name = NoName
          /\ \A j \in Entries : root[j].name = name => j = i
        BY <2>2, RootAssumption DEF Session, MetadataOK, Metadata, UnusedEntry
    <2>4. /\ root'[i].name = newName /\ root'[i].mode = root[i].mode
          /\ root'[i].owner = root[i].owner
        BY <2>2, <2>3 DEF Files
    <2>5. KeepsOthers(newName)
        BY RenameSession
    <2>6. StoredFile(i)' = StoredFile(i)
        <3>1. Contents(i)' = Contents(i)
            BY <1>1, <2>2, <2>5, SameContents DEF KeepsOthers
        <3>2. QED BY <2>4, <3>1 DEF StoredFile
    <2>7. /\ StoredFiles[name] = StoredFile(i) /\ StoredFiles[name] # NoName
          /\ StoredFiles'[newName] = StoredFile(i)'
        <3>1. StoredFiles[name] = StoredFile(i) /\ StoredFiles[name] # NoName
            BY <2>2 DEF Directory
        <3>2. StoredFiles'[newName] = StoredFile(i)'
            BY <2>4 DEF Directory
        <3>3. QED BY <3>1, <3>2
    <2>8. StoredFiles'[name] = NoName
        <3>1. \A j \in Entries : root'[j].name # name
            BY <1>1, <2>2, <2>3, <2>4
        <3>2. QED BY <3>1 DEF Directory, hasFile
    <2>9. \A other \in Names \ {name, newName} : StoredFiles'[other] = StoredFiles[other]
        <3> DEFINE T == {name, newName}
        <3>1. \A j \in Entries : root[j].name \notin T \cup {NoName} => Stays(j)
            BY <2>2, <2>5 DEF Stays, KeepsOthers
        <3>2. \A j \in Entries : root'[j].name \notin T \cup {NoName}
                                 => root[j].name = root'[j].name
            BY <2>2, <2>3, <2>4
        <3> HIDE DEF T
        <3>3. \A other \in Names \ T : StoredFiles'[other] = StoredFiles[other]
            BY <3>1, <3>2, OthersStored
        <3>4. QED BY <3>3 DEF T
    <2>10. /\ StoredFiles = [other \in Names |-> StoredFiles[other]]
           /\ StoredFiles' = [other \in Names |-> StoredFiles'[other]]
        BY DEF StoredFiles
    <2>11. StoredFiles' = [StoredFiles EXCEPT ![newName] = StoredFiles[name], ![name] = NoName]
        BY <1>1, <2>6, <2>7, <2>8, <2>9, <2>10
    <2>12. Store!Rename(name, newName)
        BY <1>1, <2>1, <2>7, <2>11 DEF Store!Rename, Store!Exists, Store!Return, Return, Reply
    <2>13. QED BY <2>12 DEF Store!Next
<1>4. QED BY <1>2, <1>3

\* Handles are not seen in the store.
LEMMA OpenStores ==
    ASSUME Session, Session', Directory, Directory', Mounted, NEW name \in Names,
           fuseOpen(name)
    PROVE  Store!Next
<1>1. CASE Returns("open", -EMFILE) \/ Returns("open", -ENOENT)
    BY <1>1, ReturnFails DEF Errors
<1>2. CASE Return("open", 0) /\ root' = root
    <2>1. KeepsAll
        BY OpenSession
    <2>2. StoredFiles' = StoredFiles
        BY <1>2, <2>1, SameStored
    <2>3. Store!Open
        BY <1>2, <2>2 DEF Store!Open, Store!Return, Return, Reply
    <2>4. QED BY <2>3 DEF Store!Next
<1>3. QED BY <1>1, <1>2 DEF fuseOpen, meta

\* fuseRelease keeps every file, also when it flushes a block.
LEMMA ReleaseStores ==
    ASSUME Session, Session', Directory, Directory', NEW h \in Handles, fuseRelease(h)
    PROVE  Store!Next
<1>1. Return("release", 0) /\ root' = root
    BY DEF fuseRelease, meta
<1>2. KeepsAll
    BY ReleaseSession
<1>3. StoredFiles' = StoredFiles
    BY <1>1, <1>2, SameStored
<1>4. Store!Release
    BY <1>1, <1>3 DEF Store!Release, Store!Return, Return, Reply
<1>5. QED BY <1>4 DEF Store!Next

\* A read within the file returns its bytes, and one behind it none.
LEMMA ReadStores ==
    ASSUME Session, Session', Directory, Directory', NumbersFit, CachesInStep,
           NEW h \in Handles, NEW offset \in Offsets, NEW n \in ReadSizes,
           fuseRead(h, offset, n)
    PROVE  Store!Next
<1> opened[h] # NoName /\ opened[h] \in Names
    BY DEF fuseRead, Session, HandlesFit, HandlesOK
<1>1. PICK name \in Names, i \in Entries :
          name = opened[h] /\ i = fileOf(h) /\ root[i].name = name
    BY OpenHandle
<1> DEFINE bytes == Contents(i)
           size == root[i].size
           end == IF offset + n < Len(bytes) THEN offset + n ELSE Len(bytes)
<1>2. /\ size \in Nat /\ bytes \in Seq(Cells) /\ Len(bytes) = size
      /\ StoredFiles[name] = StoredFile(i) /\ StoredFiles[name] # NoName
    BY <1>1 DEF Directory
<1>3. StoredFiles[name].bytes = bytes
    BY <1>2 DEF StoredFile
<1>4. offset \in Nat /\ n \in Nat \ {0}
    BY OnDiskFSAssumption
<1>5. /\ root' = root
      /\ reply' = [call |-> "read", code |-> Len(SubSeq(bytes, offset + 1, end)),
                   data |-> SubSeq(bytes, offset + 1, end)]
    <2>1. CASE offset >= size
        <3>1. Returns("read", 0)
            BY <1>1, <1>2, <1>4, <2>1 DEF fuseRead
        <3>2. end = size /\ size < offset + 1
            BY <1>2, <1>4, <2>1
        <3>3. \A k \in (offset + 1)..size : bytes[k] \in Cells
            BY <1>2, <1>4, <3>2
        <3>4. SubSeq(bytes, offset + 1, size) = <<>>
            <4> HIDE DEF bytes, size
            <4>1. /\ SubSeq(bytes, offset + 1, size) \in Seq(Cells)
                  /\ Len(SubSeq(bytes, offset + 1, size)) = 0
                BY <1>2, <1>4, <3>2, <3>3, SubSeqProperties
            <4>2. QED BY <4>1, EmptySeq
        <3>5. Len(<<>>) = 0
            OBVIOUS
        <3>6. QED BY <3>1, <3>2, <3>4, <3>5 DEF Returns, Return, Reply, meta
    <2>2. CASE offset < size
        <3> DEFINE m == Readable(n, size - offset)
                   data == SubSeq(bytes, offset + 1, offset + m)
        <3>1. m \in Nat \ {0} /\ offset + m <= size /\ ReadsBlocks(h, offset, m)
            BY <1>1, <2>2, ReadStep
        <3>2. offset + m = end
            BY <1>2, <1>4, <2>2 DEF Readable
        <3> HIDE DEF m, end
        <3>3. WouldRead(h, offset, m) = data
            BY <1>1, <1>4, <3>1, InStepReads
        <3>4. ReturnData("read", WouldRead(h, offset, m)) /\ root' = root
            BY <3>1 DEF ReadsBlocks, WouldRead, meta
        <3>5. QED BY <3>2, <3>3, <3>4 DEF ReturnData, Reply
    <2>3. QED BY <1>2, <1>4, <2>1, <2>2
<1>6. KeepsAll
    BY ReadSession
<1>7. StoredFiles' = StoredFiles
    BY <1>5, <1>6, SameStored
<1>8. Store!Read(name, offset, n)
    <2> HIDE DEF bytes, size
    <2>1. QED BY <1>2, <1>3, <1>5, <1>7 DEF Store!Read, Store!Exists
<1>9. QED BY <1>8 DEF Store!Next

\* The clock is not seen.
LEMMA TickStutters ==
    ASSUME Session, Directory, Directory', Tick \/ UNCHANGED vars
    PROVE  StoredFiles' = StoredFiles /\ reply' = reply
<1>1. UNCHANGED <<meta, openFiles, disk>> /\ root' = root /\ reply' = reply
    BY DEF Tick, vars, handles, storage, meta
<1>2. KeepsAll
    BY <1>1, NothingChanges
<1>3. QED BY <1>1, <1>2, SameStored

-----------------------------------------------------------------------------
(* The handlers that change the bytes of a file.                           *)

\* Byte `at` of a file with the blocks in list, as a reader sees these.
ByteAt(list, of, dk, at) == SeenAs(of, dk, list[(at \div BLOCK_SIZE) + 1])[at % BLOCK_SIZE]

\* The bytes of a file, one by one, by the block they are in.
LEMMA ContentsAre ==
    ASSUME NEW i \in Entries
    PROVE  /\ \A k \in 1..root[i].size :
                 Contents(i)[k] = ByteAt(Chains(table, root)[i], openFiles, disk, k - 1)
           /\ \A k \in 1..root'[i].size :
                 Contents(i)'[k] = ByteAt(Chains(table', root')[i], openFiles', disk', k - 1)
<1> DEFINE Bytes(l, n, of, dk) ==
               [k \in 1..n |-> SeenAs(of, dk, l[(k - 1) \div BLOCK_SIZE + 1])
                                  [(k - 1) % BLOCK_SIZE]]
<1>1. Contents(i) = Bytes(Chains(table, root)[i], root[i].size, openFiles, disk)
    BY DEF Contents, BytesOf, Chain, Chains, CurrentBlock, Holders, SeenAs, Waiting, AnyOf
<1>2. Contents(i)' = Bytes(Chains(table', root')[i], root'[i].size, openFiles', disk')
    BY DEF Contents, BytesOf, Chain, Chains, CurrentBlock, Holders, SeenAs, Waiting, AnyOf
<1>3. \A l, n, of, dk : \A k \in 1..n : Bytes(l, n, of, dk)[k] = ByteAt(l, of, dk, k - 1)
    BY DEF ByteAt
<1> HIDE DEF Bytes
<1>4. QED BY <1>1, <1>2, <1>3

\* The step replaces the bytes of the file of that name and does nothing else
\* that a caller could see.
LEMMA BytesStored ==
    ASSUME Session, Directory, Directory', NEW name \in Names, KeepsOthers(name),
           NEW i \in Entries, root[i].name = name, EntriesKept(root, root', i),
           root'[i].name = root[i].name, root'[i].mode = root[i].mode,
           root'[i].owner = root[i].owner
    PROVE  /\ StoredFiles[name] # NoName
           /\ StoredFiles[name].bytes = Contents(i) /\ StoredFiles'[name].bytes = Contents(i)'
           /\ StoredFiles' = [StoredFiles EXCEPT ![name].bytes = Contents(i)']
           /\ Len(Contents(i)) = root[i].size
           /\ DOMAIN Contents(i)' = 1..root'[i].size
           /\ \A k \in 1..root'[i].size : Contents(i)'[k] \in Cells
<1>1. \A j \in Entries : root[j].name \notin {name, NoName} => Stays(j)
    BY DEF Stays, KeepsOthers, EntriesKept
<1>2. \A j \in Entries : root'[j].name \notin {name, NoName} => root[j].name = root'[j].name
    BY DEF EntriesKept
<1>3. StoredFiles'[name] = StoredFile(i)'
    BY DEF Directory
<1>4. StoredFiles' = [StoredFiles EXCEPT ![name] = StoredFile(i)']
    BY <1>1, <1>2, <1>3, OneStored
<1>5. StoredFiles[name] = StoredFile(i) /\ StoredFiles[name] # NoName
    BY DEF Directory
<1>6. StoredFile(i)' = [StoredFile(i) EXCEPT !.bytes = Contents(i)']
    BY DEF StoredFile
<1>7. StoredFiles' = [StoredFiles EXCEPT ![name].bytes = Contents(i)']
    BY <1>4, <1>5, <1>6
<1>8. StoredFile(i).bytes = Contents(i) /\ StoredFile(i)'.bytes = Contents(i)'
    BY DEF StoredFile
<1>9. Len(Contents(i)) = root[i].size
    BY DEF Directory
<1>10. /\ root'[i].size \in Nat /\ Contents(i)' \in Seq(Cells)
       /\ DOMAIN Contents(i)' = 1..root'[i].size
    BY DEF Directory
<1>11. \A k \in 1..root'[i].size : Contents(i)'[k] \in Cells
    BY <1>10
<1>12. QED BY <1>3, <1>5, <1>7, <1>8, <1>9, <1>10, <1>11

\* A file with another chain that agrees with the old one, all blocks looking
\* the same, keeps the bytes up to the smaller of its sizes.
LEMMA RefitContents ==
    ASSUME Session, Session', Alike({}, openFiles, disk, openFiles', disk'),
           NEW i \in Entries, NEW list, Refit(i, list),
           NEW k \in 1..root[i].size, k \in 1..root'[i].size
    PROVE  Contents(i)'[k] = Contents(i)[k]
<1> DEFINE old == Chains(table, root)[i]
           q == ((k - 1) \div BLOCK_SIZE) + 1
<1>1. root[i].size \in Nat /\ old \in BlockLists /\ Len(old) = Needed(root[i].size)
    BY ChainFacts DEF Session, MetadataOK, Metadata, Files
<1>2. /\ Chains(table', root')[i] = list /\ list \in BlockLists /\ Agree(old, list)
    <2>1. Chains(table, root) \in [Entries -> BlockLists]
        BY DEF Session, MetadataOK, Metadata, Layout
    <2>2. QED BY <2>1, WithFacts DEF Refit
<1>3. root'[i].size \in Nat /\ Len(list) = Needed(root'[i].size)
    BY <1>2 DEF Session, MetadataOK, Metadata, Files
<1> HIDE DEF old
<1>4. k - 1 \in Nat /\ k - 1 < root[i].size /\ k - 1 < root'[i].size
    BY <1>1, <1>3
<1>5. q \in 1..Len(old) /\ old[q] \in SetOfBlocks(old)
    BY <1>1, <1>4, BytesInChain
<1>6. q \in 1..Len(list)
    BY <1>2, <1>3, <1>4, BytesInChain
<1> HIDE DEF q
<1>7. list[q] = old[q]
    BY <1>2, <1>5, <1>6 DEF Agree
<1>8. old[q] \in Blocks
    BY <1>5, ChainIs DEF old
<1>9. SeenAs(openFiles', disk', list[q]) = SeenAs(openFiles, disk, old[q])
    BY <1>7, <1>8 DEF Alike
<1>10. /\ Contents(i)[k] = ByteAt(old, openFiles, disk, k - 1)
       /\ Contents(i)'[k] = ByteAt(list, openFiles', disk', k - 1)
    BY <1>2, ContentsAre DEF old
<1>11. QED BY <1>9, <1>10 DEF ByteAt, q

\* Both fuseTruncate.
LEMMA TruncatedStores ==
    ASSUME Session, Session', Directory, Directory',
           Alike({}, openFiles, disk, openFiles', disk'),
           NEW name \in Names, KeepsOthers(name),
           NEW i \in Entries, root[i].name = name, NEW list, Refit(i, list),
           EntriesKept(root, root', i), root'[i].name = root[i].name,
           root'[i].mode = root[i].mode, root'[i].owner = root[i].owner,
           NEW newSize \in NewSizes, root'[i].size = newSize, Return("truncate", 0)
    PROVE  Store!Next
<1> DEFINE new == Contents(i)'
<1>1. /\ StoredFiles[name] # NoName
      /\ StoredFiles[name].bytes = Contents(i) /\ StoredFiles'[name].bytes = new
      /\ StoredFiles' = [StoredFiles EXCEPT ![name].bytes = new]
      /\ Len(Contents(i)) = root[i].size
      /\ DOMAIN new = 1..newSize
      /\ \A k \in 1..newSize : new[k] \in Cells
    BY BytesStored
<1>2. root[i].size \in Nat
    BY DEF Directory
<1>3. newSize \in Nat
    BY OnDiskFSAssumption
<1>4. \A k \in 1..newSize : k <= Len(Contents(i)) => new[k] = Contents(i)[k]
    <2>1. ASSUME NEW k \in 1..newSize, k <= Len(Contents(i)) PROVE new[k] = Contents(i)[k]
        <3>1. k \in 1..root[i].size
            BY <1>1, <1>2, <1>3, <2>1
        <3>2. QED BY <3>1, RefitContents
    <2>2. QED BY <2>1
<1> HIDE DEF new
<1>5. reply' = [call |-> "truncate", code |-> 0, data |-> <<>>]
    BY DEF Return, Reply
<1>6. Store!Truncate(name, newSize)
    BY <1>1, <1>4, <1>5
    DEF Store!Truncate, Store!Becomes, Store!Exists, Store!Return
<1>7. QED BY <1>6 DEF Store!Next

\* fuseTruncate by path is a truncation of the file it names, or fails.
LEMMA TruncateStores ==
    ASSUME Session, Session', Directory, Directory', Mounted, NumbersFit,
           NEW name \in Names, NEW newSize \in NewSizes, fuseTruncate(name, newSize)
    PROVE  Store!Next
<1>1. hasFile(root, name)
    BY DEF Mounted, fuseTruncate
<1>2. PICK i \in Entries : i = getFile(root, name) /\ root[i].name = name
    BY <1>1, GetFile
<1>3. CASE ~CanFind(flags, BlocksToAdd(i, newSize))
    BY <1>1, <1>2, <1>3, ReturnFails DEF fuseTruncate, Errors
<1>4. CASE CanFind(flags, BlocksToAdd(i, newSize))
    <2>1. root'[i].size = newSize /\ \E list : Truncates(i, list)
        BY <1>2, <1>4, TruncateStep
    <2>2. PICK list : Truncates(i, list)
        BY <2>1
    <2>3. Alike({}, openFiles, disk, openFiles', disk')
        <3>1. idle \in 0..SYNC_INTERVAL /\ disk \in Disks
            BY DEF Session, StorageOK
        <3>2. /\ MetadataOK' /\ SyncToDisk(openFiles, disk)
              /\ HandlesOK(openFiles, openFileCount, opened, root', Chains(table', root'))
            BY <2>2 DEF Truncates
        <3>3. QED BY <3>1, <3>2, SyncAlike DEF MetadataOK
    <2>4. KeepsOthers(name)
        BY TruncateSession
    <2>5. /\ Refit(i, list) /\ EntriesKept(root, root', i)
          /\ root'[i].name = root[i].name
          /\ root'[i].mode = root[i].mode /\ root'[i].owner = root[i].owner
          /\ Return("truncate", 0)
        BY <2>2 DEF Truncates
    <2>6. QED BY <1>2, <2>1, <2>3, <2>4, <2>5, TruncatedStores
<1>5. QED BY <1>3, <1>4

\* fuseTruncate by handle is a truncation of the file that is open, or fails.
LEMMA TruncateOpenStores ==
    ASSUME Session, Session', Directory, Directory', NumbersFit,
           NEW h \in Handles, NEW newSize \in NewSizes, fuseTruncateOpen(h, newSize)
    PROVE  Store!Next
<1> opened[h] # NoName /\ opened[h] \in Names
    BY DEF fuseTruncateOpen, Session, HandlesFit, HandlesOK
<1>1. PICK name \in Names, i \in Entries :
          name = opened[h] /\ i = fileOf(h) /\ root[i].name = name
    BY OpenHandle
<1> DEFINE c == flushCache([file |-> openFiles[h], disk |-> disk])
<1>2. c.file \in OpenFile /\ ~c.file.dirty /\ c.disk \in Disks
    BY FlushOpen
<1>3. CASE ~CanFind(flags, BlocksToAdd(i, newSize))
    <2> DEFINE file == c.file
    <2>1. /\ openFiles' = [openFiles EXCEPT ![h] = file] /\ disk' = c.disk
          /\ UNCHANGED <<table, root>> /\ Return("truncate", -ENOSPC)
        BY <1>1, <1>3 DEF fuseTruncateOpen, meta
    <2>2. disk' = flushCache([file |-> openFiles[h], disk |-> disk]).disk
        BY <2>1
    <2>3. file \in OpenFile /\ ~file.dirty
        BY <1>2
    <2> HIDE DEF c, file
    <2>4. KeepsAll
        BY <2>1, <2>2, <2>3, CleanKeepsAll
    <2>5. QED BY <2>1, <2>4, FailStep DEF Errors
<1>4. CASE CanFind(flags, BlocksToAdd(i, newSize))
    <2>1. root'[i].size = newSize /\ \E list : TruncatesOpen(h, list)
        BY <1>1, <1>4, TruncateOpenStep
    <2>2. PICK list : TruncatesOpen(h, list)
        BY <2>1
    <2> DEFINE file == [c.file EXCEPT !.blockList = list]
               files == [openFiles EXCEPT ![h] = file]
               dk == c.disk
    <2>3. /\ MetadataOK' /\ file \in OpenFile /\ ~file.dirty
          /\ HandlesOK(files, openFileCount, opened, root', Chains(table', root'))
          /\ SyncToDisk(files, dk)
        BY <2>2 DEF TruncatesOpen
    <2>4. Alike({}, openFiles, disk, files, dk)
        <3>1. /\ dk = flushCache([file |-> openFiles[h], disk |-> disk]).disk
              /\ files = [openFiles EXCEPT ![h] = file]
            OBVIOUS
        <3> HIDE DEF file, files, dk, c
        <3>2. QED BY <2>3, <3>1, CleanAlike DEF Session, MetadataOK, HandlesFit, StorageOK
    <2> HIDE DEF file, files, dk, c
    <2>5. Alike({}, files, dk, openFiles', disk')
        <3>1. idle \in 0..SYNC_INTERVAL
            BY DEF Session, StorageOK
        <3>2. QED BY <2>3, <3>1, SyncAlike DEF MetadataOK
    <2>6. Alike({}, openFiles, disk, openFiles', disk')
        BY <2>4, <2>5, AlikeAfter
    <2>7. KeepsOthers(name)
        BY <1>1, TruncateOpenSession
    <2>8. /\ Refit(i, list) /\ EntriesKept(root, root', i)
          /\ root'[i].name = root[i].name
          /\ root'[i].mode = root[i].mode /\ root'[i].owner = root[i].owner
          /\ Return("truncate", 0)
        BY <1>1, <2>2 DEF TruncatesOpen
    <2>9. QED BY <1>1, <2>1, <2>6, <2>7, <2>8, TruncatedStores
<1>5. QED BY <1>3, <1>4

\* fuseWrite.  The handle it starts from is in step with all its blocks, those
\* included that it has just got.
LEMMA WriteStartsInStep ==
    ASSUME Session, CachesInStep, TakesNoStaleBlock,
           NEW h \in Handles, opened[h] # NoName, NEW offset, NEW data,
           WriteStarts(h, offset, Len(data)), WriteLeaves(h, offset, data)
    PROVE  FileInStep(WriteBefore(h, offset, Len(data)))
<1> DEFINE n == Len(data)
           longer == Longer(h, offset, n)
           before == WriteBefore(h, offset, n)
           file == WriteAfter(h, offset, data).file
           dk == WriteAfter(h, offset, data).disk
           files == [openFiles EXCEPT ![h] = file]
<1>1. /\ before.disk = disk /\ before.file.blockList = longer
      /\ before.file.dirty = openFiles[h].dirty
      /\ before.file.blockNo = openFiles[h].blockNo
      /\ before.file.buffer = openFiles[h].buffer
    BY DEF WriteStarts
<1>2. /\ ~file.isFree /\ file.blockList = longer /\ SyncToDisk(files, dk)
    BY DEF WriteLeaves
<1>3. openFiles \in [Handles -> OpenFile]
    BY DEF Session, HandlesFit, HandlesOK
<1> HIDE DEF before, file, dk
<1>4. files[h] = file
    BY <1>3
<1> HIDE DEF files, longer
<1>5. Listed(h)' = SetOfBlocks(longer)
    BY <1>2, <1>4, SyncLists
<1>6. ASSUME NEW b \in SetOfBlocks(longer) PROVE InStep(before, b)
    <2>1. CASE b \in Listed(h)
        BY <1>1, <2>1 DEF CachesInStep, InStepWith, InStep
    <2>2. CASE b \notin Listed(h)
        BY <1>1, <1>5, <2>2 DEF TakesNoStaleBlock, InStep
    <2>3. QED BY <2>1, <2>2
<1>7. QED BY <1>1, <1>6 DEF FileInStep, before

\* What it leaves is what its handle finds.
LEMMA WrittenFound ==
    ASSUME Session, Session', NumbersFit, NEW h \in Handles, opened[h] # NoName,
           NEW offset \in Nat, NEW data \in Seq(Cells),
           WriteGrows(h, offset, Len(data)), WriteStarts(h, offset, Len(data)),
           WriteLeaves(h, offset, data),
           NEW i \in Entries, i = fileOf(h)
    PROVE  /\ Len(Longer(h, offset, Len(data))) = Needed(root'[i].size)
           /\ Longer(h, offset, Len(data)) \in BlockLists
           /\ root'[i].size \in Nat
           /\ \A k \in 1..root'[i].size :
                 Contents(i)'[k] = ByteOf(WriteAfter(h, offset, data), k - 1)
<1> DEFINE n == Len(data)
           longer == Longer(h, offset, n)
           before == WriteBefore(h, offset, n)
           after == WriteAfter(h, offset, data)
           file == after.file
           dk == after.disk
           files == [openFiles EXCEPT ![h] = file]
           S == SetOfBlocks(longer)
<1>1. /\ Chains(table', root')[i] = longer /\ longer \in BlockLists
    <2>1. Chains(table, root) \in [Entries -> BlockLists]
        BY DEF Session, MetadataOK, Metadata, Layout
    <2>2. longer \in BlockLists /\ Chains(table', root') = With(Chains(table, root), i, longer)
        BY DEF WriteGrows
    <2> HIDE DEF longer
    <2>3. QED BY <2>1, <2>2, WithFacts
<1>2. root'[i].size \in Nat /\ Len(longer) = Needed(root'[i].size)
    <2> HIDE DEF longer
    <2>1. QED BY <1>1 DEF Session, MetadataOK, Metadata, Files
<1>3. /\ ~file.isFree /\ file.blockList = longer /\ SyncToDisk(files, dk)
      /\ HandlesOK(files, openFileCount, opened, root', Chains(table', root'))
    BY DEF WriteLeaves
<1>4. openFiles \in [Handles -> OpenFile] /\ idle \in 0..SYNC_INTERVAL
    BY DEF Session, HandlesFit, HandlesOK, StorageOK
<1>5. file.dirty
    <2>1. Covered(S, before, BlockIndex(offset) + 1, offset, n)
        BY DEF WriteStarts
    <2> HIDE DEF S, before
    <2>2. QED BY <2>1, WriteDataWaits DEF WriteAfter, before
<1> HIDE DEF longer, after, before
<1>6. files[h] = file
    BY <1>4
<1>7. \A b \in Blocks : SeenAs(openFiles', disk', b) = SeenAs(files, dk, b)
    <2> HIDE DEF file, files, dk
    <2>1. Alike({}, files, dk, openFiles', disk')
        BY <1>3, <1>4, SyncAlike DEF Session, MetadataOK
    <2>2. QED BY <2>1 DEF Alike
<1>8. \A b \in S : SeenAs(files, dk, b) = FoundIn(after, b)
    <2>1. ASSUME NEW b \in S PROVE SeenAs(files, dk, b) = FoundIn(after, b)
        <3>1. InStep([file |-> files[h], disk |-> dk], b)
            BY <1>5, <1>6 DEF InStep
        <3>2. FoundIn([file |-> files[h], disk |-> dk], b) = FoundIn(after, b)
            BY <1>6 DEF FoundIn
        <3>3. ~files[h].isFree /\ b \in SetOfBlocks(files[h].blockList)
            BY <1>3, <1>6
        <3> HIDE DEF file, files, dk, S
        <3>4. SeenAs(files, dk, b) = FoundIn([file |-> files[h], disk |-> dk], b)
            BY <1>3, <3>1, <3>3, SeenThrough DEF Session, MetadataOK
        <3>5. QED BY <3>2, <3>4
    <2>2. QED BY <2>1
<1>9. S \subseteq Blocks
    BY <1>1 DEF SetOfBlocks, BlockLists
<1>10. ASSUME NEW k \in 1..root'[i].size
       PROVE  Contents(i)'[k] = ByteOf(after, k - 1)
    <2>1. k - 1 \in Nat /\ k - 1 < root'[i].size
        BY <1>2
    <2>2. longer[((k - 1) \div BLOCK_SIZE) + 1] \in S
        BY <1>1, <1>2, <2>1, BytesInChain
    <2>3. Contents(i)'[k] = ByteAt(longer, openFiles', disk', k - 1)
        BY <1>1, ContentsAre
    <2>4. after.file.blockList = longer
        BY <1>3
    <2> HIDE DEF S, files, file, dk
    <2>5. QED BY <1>7, <1>8, <1>9, <2>2, <2>3, <2>4 DEF ByteAt, ByteOf
<1>11. QED BY <1>1, <1>2, <1>10 DEF longer, after

\* The bytes it does not write are the ones the file had.
LEMMA UnwrittenKept ==
    ASSUME Session, NumbersFit, CachesInStep, NEW h \in Handles, opened[h] # NoName,
           NEW offset \in Nat, NEW data \in Seq(Cells), Len(data) # 0,
           offset + Len(data) <= MaxSize,
           WriteGrows(h, offset, Len(data)), WriteStarts(h, offset, Len(data)),
           FileInStep(WriteBefore(h, offset, Len(data))),
           NEW i \in Entries, i = fileOf(h),
           NEW k \in 1..root[i].size, k <= offset \/ k > offset + Len(data)
    PROVE  ByteOf(WriteAfter(h, offset, data), k - 1) = Contents(i)[k]
<1> DEFINE n == Len(data)
           longer == Longer(h, offset, n)
           before == WriteBefore(h, offset, n)
           after == WriteAfter(h, offset, data)
           list == openFiles[h].blockList
           at == k - 1
           q == (at \div BLOCK_SIZE) + 1
           S == SetOfBlocks(longer)
<1>1. /\ before.disk = disk /\ before.file.blockList = longer
      /\ before.file.blockNo = openFiles[h].blockNo
      /\ before.file.buffer = openFiles[h].buffer
      /\ Covered(S, before, BlockIndex(offset) + 1, offset, n)
    BY DEF WriteStarts
<1>2. /\ longer \in BlockLists /\ Len(list) <= Len(longer)
      /\ \A p \in 1..Len(list) : longer[p] = list[p]
    BY DEF WriteGrows
<1>3. /\ list \in BlockLists /\ Len(list) = Needed(root[i].size)
      /\ root[i].size \in 0..MaxSize
    BY OpenHandle
<1>4. root[i].size \in Nat /\ n \in Nat /\ MaxSize \in Nat
    BY <1>3, OnDiskFSAssumption
<1>5. at \in Nat /\ at < root[i].size /\ at \notin offset..(offset + n - 1)
    BY <1>4
<1>6. BlockIndex(offset) = offset \div BLOCK_SIZE
    <2>1. n \in Nat \ {0} /\ MaxSize \in 0..MaxSize
        BY <1>4
    <2>2. QED BY <2>1, InsideFits
<1> HIDE DEF longer, list
<1>7. q \in 1..Len(list)
    BY <1>3, <1>4, <1>5, BytesInChain
<1>8. q \in 1..Len(longer) /\ DOMAIN longer = 1..Len(longer)
    <2>1. Len(longer) \in Nat /\ Len(list) \in Nat /\ DOMAIN longer = 1..Len(longer)
        BY <1>2, <1>3, BlockListType
    <2>2. QED BY <1>2, <1>7, <2>1
<1>9. longer[q] = list[q]
    BY <1>2, <1>7
<1>10. after = WriteData(before, (offset \div BLOCK_SIZE) + 1, offset, data)
    BY <1>6 DEF WriteAfter
<1> HIDE DEF before, after, S, n, at
<1>11. ByteOf(after, at) = ByteOf(before, at)
    <2>1. q \in DOMAIN before.file.blockList
        BY <1>1, <1>8
    <2>2. Covered(S, before, (offset \div BLOCK_SIZE) + 1, offset, Len(data))
        BY <1>1, <1>6 DEF n
    <2>3. at \notin offset..(offset + Len(data) - 1)
        BY <1>5 DEF n
    <2>4. FileInStep(before)
        BY DEF before, n
    <2>5. QED BY <1>5, <1>10, <2>1, <2>2, <2>3, <2>4, WriteDataLeaves
<1>12. ByteOf(before, at) = ByteOf(OfHandle(h), at)
    BY <1>1, <1>9 DEF ByteOf, FoundIn, OfHandle, list
<1>13. Contents(i)[k] = ByteOf(OfHandle(h), k - 1)
    BY ContentsFound
<1>14. QED BY <1>11, <1>12, <1>13 DEF after, at, n

\* fuseWrite puts its payload into the file that is open, or fails.
LEMMA WriteStores ==
    ASSUME Session, Session', Directory, Directory', NumbersFit, CachesInStep,
           TakesNoStaleBlock, NEW h \in Handles, NEW offset \in Offsets,
           NEW data \in Payloads, fuseWrite(h, offset, data)
    PROVE  Store!Next
<1> opened[h] # NoName /\ opened[h] \in Names
    BY DEF fuseWrite, Session, HandlesFit, HandlesOK
<1>1. PICK name \in Names, i \in Entries :
          name = opened[h] /\ i = fileOf(h) /\ root[i].name = name
    BY OpenHandle
<1> DEFINE n == Len(data)
           end == offset + n
           size == root[i].size
           new == Contents(i)'
<1>2. offset \in Nat /\ data \in Seq(Cells) /\ n # 0 /\ n \in Nat /\ end <= MaxSize
    BY OnDiskFSAssumption, EmptySeq DEF fuseWrite
<1>3. CASE ~CanFind(flags, BlocksMissing(h, offset, n))
    BY <1>3, ReturnFails DEF fuseWrite, Errors
<1>4. CASE CanFind(flags, BlocksMissing(h, offset, n))
    <2>1. WriteGrows(h, offset, n) /\ WriteStarts(h, offset, n) /\ WriteLeaves(h, offset, data)
        BY <1>4, WriteStep
    <2>2. FileInStep(WriteBefore(h, offset, n))
        BY <2>1, WriteStartsInStep
    <2>3. /\ root'[i].name = root[i].name /\ EntriesKept(root, root', i)
          /\ root'[i].mode = root[i].mode /\ root'[i].owner = root[i].owner
          /\ root'[i].size = Grown(size, end)
        BY <1>1, <2>1 DEF WriteGrows
    <2>4. KeepsOthers(name)
        BY <1>1, WriteSession
    <2>5. /\ StoredFiles[name] # NoName
          /\ StoredFiles[name].bytes = Contents(i) /\ StoredFiles'[name].bytes = new
          /\ StoredFiles' = [StoredFiles EXCEPT ![name].bytes = new]
          /\ Len(Contents(i)) = size
          /\ DOMAIN new = 1..root'[i].size
          /\ \A k \in 1..root'[i].size : new[k] \in Cells
        BY <1>1, <2>3, <2>4, BytesStored
    <2>6. \A k \in 1..root'[i].size : new[k] = ByteOf(WriteAfter(h, offset, data), k - 1)
        BY <1>1, <1>2, <2>1, WrittenFound
    <2>7. size \in Nat /\ Grown(size, end) \in Nat /\ size <= Grown(size, end)
          /\ end <= Grown(size, end)
        <3>1. size \in Nat
            BY DEF Directory
        <3> HIDE DEF size, n
        <3>2. QED BY <1>2, <3>1 DEF Grown
    <2> HIDE DEF new, size
    <2>8. ASSUME NEW k \in 1..Grown(size, end), k <= Len(Contents(i)), k <= offset \/ k > end
          PROVE  new[k] = Contents(i)[k]
        <3>1. k \in 1..size
            BY <2>5, <2>7, <2>8
        <3>2. ByteOf(WriteAfter(h, offset, data), k - 1) = Contents(i)[k]
            BY <1>1, <1>2, <2>1, <2>2, <2>8, <3>1, UnwrittenKept DEF size
        <3>3. QED BY <2>3, <2>6, <3>2
    <2>9. SubSeq(new, offset + 1, end) = data
        <3>1. ASSUME NEW x \in 1..n PROVE new[offset + x] = data[x]
            <4>1. offset + x \in 1..Grown(size, end) /\ (offset + x) - 1 = offset + x - 1
                BY <1>2, <2>7
            <4>2. ByteOf(WriteAfter(h, offset, data), offset + x - 1) = data[x]
                <5>1. BlockIndex(offset) = offset \div BLOCK_SIZE
                    <6>1. n \in Nat \ {0} /\ MaxSize \in 0..MaxSize
                        BY <1>2, OnDiskFSAssumption
                    <6>2. QED BY <1>2, <6>1, InsideFits
                <5>2. Covered(SetOfBlocks(Longer(h, offset, n)), WriteBefore(h, offset, n),
                              (offset \div BLOCK_SIZE) + 1, offset, n)
                    BY <2>1, <5>1 DEF WriteStarts
                <5>3. WriteAfter(h, offset, data) =
                          WriteData(WriteBefore(h, offset, n), (offset \div BLOCK_SIZE) + 1,
                                    offset, data)
                    BY <5>1 DEF WriteAfter
                <5>4. QED BY <1>2, <5>2, <5>3, WriteDataPuts
            <4>3. QED BY <2>3, <2>6, <4>1, <4>2
        <3>2. QED BY <1>2, <3>1, PartIs
    <2>10. reply' = [call |-> "write", code |-> n, data |-> <<>>]
        BY <2>1 DEF WriteLeaves, Return, Reply
    <2>11. Store!Write(name, offset, data)
        BY <2>3, <2>5, <2>8, <2>9, <2>10
        DEF Store!Write, Store!Becomes, Store!Exists, Store!Return, Grown
    <2>12. QED BY <2>11 DEF Store!Next
<1>5. QED BY <1>3, <1>4

-----------------------------------------------------------------------------
(* The refinement.                                                         *)

\* A new container is an empty store.
LEMMA InitStores == Init => Store!Init
<1> SUFFICES ASSUME Init PROVE Store!Init
    OBVIOUS
<1>1. \A i \in Entries : root[i].name = NoName
    BY DEF Init, InitialRoot, UnusedEntry
<1>2. \A name \in Names : ~hasFile(root, name)
    BY <1>1, RootAssumption DEF hasFile
<1>3. StoredFiles = [name \in Names |-> NoName]
    BY <1>2 DEF StoredFiles
<1>4. QED BY <1>3 DEF Store!Init, Init

\* Every step of a session with fresh caches is a step of the store.
LEMMA NextStores ==
    ASSUME Mounted, NumbersFit, Session, Session', Directory, Directory', CachesInStep,
           [Next]_vars, [TakesNoStaleBlock]_vars
    PROVE  [Store!Next]_<<StoredFiles, reply>>
<1>1. CASE Tick \/ UNCHANGED vars
    BY <1>1, TickStutters
<1>2. CASE ~UNCHANGED vars /\ ~Tick
    <2>1. TakesNoStaleBlock /\ Next
        BY <1>2
    <2>2. ASSUME NEW name \in Names, NEW mode \in Modes,
                 fuseMknod(name, mode) \/ fuseChmod(name, mode)
          PROVE  Store!Next
        BY <2>2, MknodStores, ChmodStores
    <2>3. ASSUME NEW name \in Names, NEW owner \in Owners, fuseChown(name, owner)
          PROVE  Store!Next
        BY <2>3, ChownStores
    <2>4. ASSUME NEW name \in Names, fuseUnlink(name) \/ fuseOpen(name)
          PROVE  Store!Next
        BY <2>4, UnlinkStores, OpenStores
    <2>5. ASSUME NEW name \in Names, NEW newName \in Names, fuseRename(name, newName)
          PROVE  Store!Next
        BY <2>5, RenameStores
    <2>6. ASSUME NEW name \in Names, NEW newSize \in NewSizes, fuseTruncate(name, newSize)
          PROVE  Store!Next
        BY <2>6, TruncateStores
    <2>7. ASSUME NEW h \in Handles, fuseRelease(h) PROVE Store!Next
        BY <2>7, ReleaseStores
    <2>8. ASSUME NEW h \in Handles, NEW offset \in Offsets, NEW n \in ReadSizes,
                 fuseRead(h, offset, n)
          PROVE  Store!Next
        BY <2>8, ReadStores
    <2>9. ASSUME NEW h \in Handles, NEW offset \in Offsets, NEW data \in Payloads,
                 fuseWrite(h, offset, data)
          PROVE  Store!Next
        BY <2>1, <2>9, WriteStores
    <2>10. ASSUME NEW h \in Handles, NEW newSize \in NewSizes, fuseTruncateOpen(h, newSize)
           PROVE  Store!Next
        BY <2>10, TruncateOpenStores
    <2>11. QED BY <1>2, <2>1, <2>2, <2>3, <2>4, <2>5, <2>6, <2>7, <2>8, <2>9, <2>10 DEF Next
<1>3. QED BY <1>1, <1>2

\* A mounted session is a store of named byte sequences, call by call: the
\* bytes a write puts are in the file it names, at its offset, and no other
\* byte of any file changes; a truncate keeps what it does not cut off; a read
\* returns what is there; renames, unlinks and attribute changes move, drop and
\* change the one file they name; a call that fails changes nothing.  For any
\* number of files, handles and blocks, in every history in which no handle is
\* given a block of which it holds an old copy.
THEOREM FreshCachesAreAStore ==
    ASSUME Mounted, NumbersFit
    PROVE  FreshSpec => ImplementsFileStore
<1>1. Init => Store!Init
    BY InitStores
<1>2. Session => Directory
    BY SessionDirectory
<1>3. Session /\ Session' /\ Directory /\ Directory' /\ CachesInStep
          /\ [Next /\ TakesNoStaleBlock]_vars => [Store!Next]_<<StoredFiles, reply>>
    BY NextStores
<1>4. QED BY <1>1, <1>2, <1>3, SessionInvariant, InStepInvariant, FreshIsSpec, PTL
          DEF FreshSpec, ImplementsFileStore, Store!Spec
=============================================================================
