--------------------------- MODULE OnDiskFSProofs ---------------------------
(***************************************************************************)
(* The inductive invariant of a mounted session and what follows from it.  *)
(*                                                                         *)
(* The theorems are about a file system used as libfuse and the kernel use *)
(* it for programs that do not open a file twice (~SharedFiles) and look   *)
(* names up (~DirectCalls), with sizes whose block counts fit a uint32_t.  *)
(* Each of the three matters: with SharedFiles or DirectCalls a run breaks *)
(* the invariant, and counts that wrap leave chains too short.             *)
(***************************************************************************)
EXTENDS StructureProofs

\* The conditions of the theorems.
Mounted == ~SharedFiles /\ ~DirectCalls

NumbersFit == SizesFit /\ \A n \in ReadSizes : n < WORD

\* The inductive invariant.  Metadata says of bitmap, table and directory what
\* ChainsFitSizes, BlocksHaveOneOwner, AllocationExact and UniqueNames say;
\* HandlesOK ties the handles to it.
MetadataOK == Metadata(flags, table, root) /\ nextBlock \in Blocks

HandlesFit == HandlesOK(openFiles, openFileCount, opened, root, Chains(table, root))

StorageOK == disk \in Disks /\ image \in Images /\ idle \in 0..SYNC_INTERVAL

Session ==
    /\ MetadataOK /\ HandlesFit /\ StorageOK
    /\ reply \in Replies /\ fault = FALSE

\* The step leaves the contents of entry j alone: size, chain and blocks, as a
\* reader sees these.
KeepsFile(j) ==
    /\ root'[j].size = root[j].size
    /\ Chains(table', root')[j] = Chains(table, root)[j]
    /\ \A b \in SetOfBlocks(Chains(table, root)[j]) : CurrentBlock(b)' = CurrentBlock(b)

\* It does so for every entry; for all but the file of that name; for all but
\* one.
KeepsAll == \A j \in Entries : KeepsFile(j)
KeepsOthers(name) == \A j \in Entries : root[j].name # name => KeepsFile(j)
Isolated == \E i \in Entries : \A j \in Entries \ {i} : KeepsFile(j)

-----------------------------------------------------------------------------
(* The first state.                                                        *)

\* The first search of a new container begins with the first data block.
LEMMA InitialCursor == InitialNextBlock = DATA_START /\ InitialNextBlock \in DataBlocks
<1>1. /\ CONTAINER_BLOCKS \in Nat /\ DATA_START \in Nat
      /\ 1 <= DATA_START /\ DATA_START < CONTAINER_BLOCKS
    BY DmapAssumption
<1>2. DATA_START % CONTAINER_BLOCKS = DATA_START
    <2>1. DATA_START = CONTAINER_BLOCKS * 0 + DATA_START
        BY <1>1
    <2>2. QED BY <1>1, <2>1, DivUnique
<1>3. QED BY <1>1, <1>2 DEF DataBlocks, InitialNextBlock

\* A process that has opened no file yet.
LEMMA NoHandles ==
    ASSUME NEW r, NEW C
    PROVE  HandlesOK([h \in Handles |-> UnusedHandle], 0, [h \in Handles |-> NoName], r, C)
<1> DEFINE of == [h \in Handles |-> UnusedHandle]
<1>1. UnusedHandle \in OpenFile /\ UnusedHandle.isFree /\ ~UnusedHandle.dirty
    <2>1. [p \in Positions |-> ZeroCell] \in BlockData
        BY OnDiskFSAssumption, TransferAssumption DEF BlockData
    <2>2. QED BY <2>1, EmptyList, EndIsNoBlock DEF UnusedHandle, OpenFile
<1>2. /\ of \in [Handles -> OpenFile]
      /\ \A h \in Handles : of[h].isFree /\ ~of[h].dirty
    BY <1>1
<1>3. InUse(of) = {}
    BY <1>2 DEF InUse
<1>4. 0 = Cardinality(InUse(of))
    BY <1>3, FS_EmptySet
<1> HIDE DEF of
<1>5. HandlesOK(of, 0, [h \in Handles |-> NoName], r, C)
    BY <1>2, <1>4 DEF HandlesOK, DirtyInList
<1>6. QED BY <1>5 DEF of

\* The state fuseInit leaves for a new container satisfies the invariant.
LEMMA InitSession == Init => Session
<1> SUFFICES ASSUME Init PROVE Session
    OBVIOUS
<1> DEFINE C == [i \in Entries |-> <<>>]
<1>1. /\ DATA_START \in Blocks /\ DATA_START \in DataBlocks /\ 0 \in Blocks
      /\ InitialNextBlock \in Blocks
    BY InitialCursor, DmapAssumption DEF Blocks, DataBlocks
<1>2. /\ root \in [Entries -> Files]
      /\ \A i \in Entries : /\ root[i].firstBlock = END_OF_CLUSTER /\ root[i].size = 0
                            /\ root[i].name = NoName
    <2>1. UnusedEntry \in Files
        BY EndIsNoBlock DEF Files, UnusedEntry
    <2>2. QED BY <2>1 DEF Init, InitialRoot, UnusedEntry
<1>3. table \in [Blocks -> Links] /\ flags \in [Blocks -> BOOLEAN]
    BY <1>1 DEF Init, InitialTable, InitialFlags, FREE, Links
<1>4. Layout(flags, table, root, C)
    <2>1. C \in [Entries -> BlockLists] /\ \A i \in Entries : C[i] = <<>>
        BY EmptyList
    <2> HIDE DEF C
    <2>2. \A b \in Blocks : flags[b] <=> b < DATA_START
        BY DEF Init, InitialFlags
    <2>3. QED BY <1>2, <1>3, <2>1, <2>2, EmptyList, EndIsNoBlock DEF Layout
<1>5. Metadata(flags, table, root)
    <2>1. \A i \in Entries : root[i].size <= MaxSize /\ Len(C[i]) = Needed(root[i].size)
        BY <1>2, EmptyList, NeededType, OnDiskFSAssumption, TransferAssumption
    <2> HIDE DEF C
    <2>2. QED BY <1>2, <1>4, <2>1, MetadataIntro
<1>6. HandlesFit
    <2>1. HandlesOK([h \in Handles |-> UnusedHandle], 0, [h \in Handles |-> NoName], root,
                    Chains(table, root))
        BY NoHandles
    <2>2. QED BY <2>1 DEF HandlesFit, Init
<1>7. StorageOK
    <2>1. [p \in Positions |-> ZeroCell] \in BlockData
        BY OnDiskFSAssumption, TransferAssumption DEF BlockData
    <2>2. disk \in Disks
        BY <2>1 DEF Init, Disks
    <2>3. image \in Images
        <3>1. [UnusedEntry EXCEPT !.firstBlock = FREE] \in Files
            BY <1>1 DEF UnusedEntry, Files, FREE, Links
        <3> DEFINE e == [UnusedEntry EXCEPT !.firstBlock = FREE]
        <3> HIDE DEF e
        <3>2. [i \in Entries |-> e] \in [Entries -> Files]
            BY <3>1 DEF e
        <3>3. InitialTable \in [Blocks -> Links]
            BY <1>3 DEF Init
        <3>4. QED BY <3>2, <3>3 DEF Init, Images, e
    <2>4. idle \in 0..SYNC_INTERVAL
        BY OnDiskFSAssumption, TransferAssumption DEF Init
    <2>5. QED BY <2>2, <2>3, <2>4 DEF StorageOK
<1>8. reply \in Replies /\ fault = FALSE
    BY DEF Init, Replies
<1>9. QED BY <1>1, <1>5, <1>6, <1>7, <1>8 DEF Session, MetadataOK, Init

-----------------------------------------------------------------------------
(* One lemma for each handler.                                             *)

\* A handler that returns a code raises no fault.
LEMMA Returned ==
    ASSUME Session, NEW call \in Calls, NEW code \in Int, Return(call, code)
    PROVE  reply' \in Replies /\ fault' = FALSE
<1>1. <<>> \in Seq(Cells)
    OBVIOUS
<1>2. QED BY <1>1 DEF Session, Return, Reply, Replies

\* Keeping all files is keeping the others, whichever name is left out.
LEMMA KeepsAllOthers == KeepsAll => \A name : KeepsOthers(name)
BY DEF KeepsAll, KeepsOthers

\* An entry keeps its contents when its size and its chain do not change, and
\* of the blocks a reader sees only some that are not in the chain.
LEMMA KeepsBy ==
    ASSUME Session, NEW j \in Entries, NEW S,
           root'[j].size = root[j].size,
           Chains(table', root')[j] = Chains(table, root)[j],
           SetOfBlocks(Chains(table, root)[j]) \cap S = {},
           Alike(S, openFiles, disk, openFiles', disk')
    PROVE  KeepsFile(j)
<1>1. SetOfBlocks(Chains(table, root)[j]) \subseteq DataBlocks
    BY ChainFacts DEF Session, MetadataOK
<1>2. SetOfBlocks(Chains(table, root)[j]) \subseteq Blocks \ S
    BY <1>1, DmapAssumption DEF DataBlocks, Blocks
<1>3. \A b \in Blocks \ S : CurrentBlock(b)' = CurrentBlock(b)
    BY DEF Alike, SeenAs, Waiting, AnyOf, CurrentBlock, Holders
<1>4. QED BY <1>2, <1>3 DEF KeepsFile

\* The blocks of one entry are out of reach of the others.
LEMMA Apart ==
    ASSUME NEW f, NEW t, NEW r, Metadata(f, t, r), NEW i \in Entries,
           NEW j \in Entries \ {i}
    PROVE  SetOfBlocks(Chains(t, r)[j]) \cap SetOfBlocks(Chains(t, r)[i]) = {}
BY DEF Metadata, Layout

\* A step on the directory, which leaves caches and container alone.
LEMMA DirectoryKeeps ==
    ASSUME Session, UNCHANGED <<openFiles, disk>>, NEW j \in Entries,
           root'[j].size = root[j].size,
           Chains(table', root')[j] = Chains(table, root)[j]
    PROVE  KeepsFile(j)
<1>1. Alike({}, openFiles, disk, openFiles', disk')
    BY DEF Alike
<1>2. SetOfBlocks(Chains(table, root)[j]) \cap {} = {}
    OBVIOUS
<1>3. QED BY <1>1, <1>2, KeepsBy

\* A step that leaves the metadata alone, and every block as a reader sees it.
LEMMA AlikeKeepsAll ==
    ASSUME Session, UNCHANGED <<table, root>>, Alike({}, openFiles, disk, openFiles', disk')
    PROVE  KeepsAll
<1>1. \A j \in Entries : SetOfBlocks(Chains(table, root)[j]) \cap {} = {}
    OBVIOUS
<1>2. QED BY <1>1, KeepsBy DEF KeepsAll

\* A step that leaves the metadata and the blocks alone.
LEMMA NothingChanges ==
    ASSUME Session, UNCHANGED <<meta, openFiles, disk>>
    PROVE  KeepsAll
BY DirectoryKeeps DEF meta, KeepsAll

\* Nor does one that returns early, which changes nothing.
LEMMA ReturnsKeeps ==
    ASSUME Session, NEW call \in Calls, NEW code \in Int, Returns(call, code)
    PROVE  Session' /\ Untouched(disk, disk') /\ KeepsAll
<1>1. reply' \in Replies /\ fault' = FALSE
    BY Returned DEF Returns
<1>2. UNCHANGED <<meta, handles, storage>>
    BY DEF Returns
<1>3. KeepsAll
    BY <1>2, NothingChanges DEF handles, storage
<1>4. QED BY <1>1, <1>2, <1>3
          DEF Session, MetadataOK, HandlesFit, StorageOK, meta, handles, storage, Untouched

\* The error codes are integers and the calls have the names of the handlers.
LEMMA Codes ==
    /\ ENOENT \in Int /\ -ENOENT \in Int /\ -ENOSPC \in Int /\ -EMFILE \in Int
    /\ -ENAMETOOLONG \in Int
    /\ Calls = {"mknod", "unlink", "rename", "chmod", "chown", "open", "release",
                "read", "write", "truncate"}
BY DEF ENOENT, ENOSPC, EMFILE, ENAMETOOLONG, Calls

\* The clock keeps the invariant.
LEMMA TickSession == Session /\ Tick => Session'
<1> SUFFICES ASSUME Session, Tick PROVE Session'
    OBVIOUS
<1>1. idle' \in 0..SYNC_INTERVAL
    BY OnDiskFSAssumption, TransferAssumption DEF Session, StorageOK, Tick
<1>2. QED BY <1>1 DEF Session, MetadataOK, HandlesFit, StorageOK, Tick, meta, handles

\* The handlers that change the directory only.
LEMMA DirectorySession ==
    ASSUME Session, MetadataOK', UNCHANGED <<handles, storage>>,
           OpenKept(opened, root, Chains(table, root), root', Chains(table', root')),
           NEW call \in Calls, Return(call, 0)
    PROVE  Session'
<1>1. reply' \in Replies /\ fault' = FALSE
    <2>1. 0 \in Int
        OBVIOUS
    <2>2. QED BY <2>1, Returned
<1>2. HandlesOK(openFiles, openFileCount, opened, root', Chains(table', root'))
    BY HandlesKeep DEF Session, HandlesFit
<1>3. HandlesFit'
    BY <1>2 DEF HandlesFit, handles
<1>4. QED BY <1>1, <1>3 DEF Session, StorageOK, storage

\* fuseMknod keeps it: it takes an unused entry, which owns no blocks.
LEMMA MknodSession ==
    ASSUME Session, Mounted, NEW name \in Names, NEW mode \in Modes, fuseMknod(name, mode)
    PROVE  Session' /\ KeepsAll
<1>1. ~hasFile(root, name)
    BY DEF Mounted, fuseMknod
<1>2. CASE isFull(root)
    BY <1>2, Codes, ReturnsKeeps DEF fuseMknod
<1>3. CASE ~isFull(root) /\ name \in LongNames
    BY <1>3, Codes, ReturnsKeeps DEF fuseMknod
<1>4. CASE ~isFull(root) /\ name \notin LongNames
    <2>1. /\ root' = mknod(root, name, mode, ProcessOwner)
          /\ UNCHANGED <<flags, nextBlock, table, handles, storage>>
          /\ Return("mknod", 0)
        BY <1>4 DEF fuseMknod
    <2>2. /\ Metadata(flags, table, root') /\ Chains(table, root') = Chains(table, root)
          /\ \A j \in Entries : root[j].name # NoName => root'[j] = root[j]
        BY <1>1, <1>4, <2>1, MknodKeeps DEF Session, MetadataOK
    <2>3. MetadataOK'
        BY <2>1, <2>2 DEF Session, MetadataOK
    <2>4. OpenKept(opened, root, Chains(table, root), root', Chains(table', root'))
        BY <2>1, <2>2 DEF OpenKept
    <2>5. Session'
        BY <2>1, <2>3, <2>4, Codes, DirectorySession
    <2>6. KeepsAll
        <3> DEFINE i == getFile(root, NoName)
        <3>1. i \in Entries /\ root[i].name = NoName
            BY <1>4, GetFile DEF isFull
        <3>2. root \in [Entries -> Files] /\ root[i].size = 0
            BY <3>1 DEF Session, MetadataOK, Metadata
        <3> DEFINE e == [UnusedEntry EXCEPT !.name = name, !.mode = mode,
                                            !.owner = ProcessOwner]
        <3>3. root' = [root EXCEPT ![i] = e] /\ e.size = 0
            BY <2>1 DEF mknod, UnusedEntry
        <3> HIDE DEF e, i
        <3>4. \A j \in Entries : root'[j].size = root[j].size
            BY <3>1, <3>2, <3>3
        <3>5. QED BY <2>1, <2>2, <3>4, DirectoryKeeps DEF handles, storage, KeepsAll
    <2>7. QED BY <2>5, <2>6
<1>5. QED BY <1>2, <1>3, <1>4

\* fuseUnlink keeps it: all blocks of the chain become free, no handle has
\* it.
LEMMA UnlinkSession ==
    ASSUME Session, NEW name \in Names, fuseUnlink(name)
    PROVE  Session' /\ KeepsOthers(name)
<1>1. CASE ~hasFile(root, name)
    BY <1>1, Codes, ReturnsKeeps, KeepsAllOthers DEF fuseUnlink
<1>2. CASE hasFile(root, name)
    <2> DEFINE i == getFile(root, name)
    <2>1. /\ flags' = markFree(flags, SetOfBlocks(getBlockList(table, root[i].firstBlock)))
          /\ root' = unlink(root, name)
          /\ UNCHANGED <<nextBlock, table, handles, storage>>
          /\ Return("unlink", 0) /\ ~IsOpen(name)
        BY <1>2 DEF fuseUnlink, UnlinkFile
    <2>2. /\ Metadata(flags', table, root')
          /\ i \in Entries /\ root[i].name = name
          /\ \A j \in Entries \ {i} :
                root'[j] = root[j] /\ Chains(table, root')[j] = Chains(table, root)[j]
        BY <1>2, <2>1, UnlinkKeeps DEF Session, MetadataOK
    <2> HIDE DEF i
    <2>3. MetadataOK'
        BY <2>1, <2>2 DEF Session, MetadataOK
    <2>4. OpenKept(opened, root, Chains(table, root), root', Chains(table', root'))
        BY <2>1, <2>2 DEF OpenKept, IsOpen
    <2>5. Session'
        BY <2>1, <2>3, <2>4, Codes, DirectorySession
    <2>6. KeepsOthers(name)
        <3>1. \A j \in Entries : root[j].name # name =>
                  /\ root'[j].size = root[j].size
                  /\ Chains(table', root')[j] = Chains(table, root)[j]
            BY <2>1, <2>2
        <3>2. QED BY <2>1, <3>1, DirectoryKeeps DEF handles, storage, KeepsOthers
    <2>7. QED BY <2>5, <2>6
<1>3. QED BY <1>1, <1>2

\* chmod and chown.
LEMMA AttributesSession ==
    ASSUME Session, NEW i \in Entries, root' \in [Entries -> Files],
           \A j \in Entries : /\ root'[j].firstBlock = root[j].firstBlock
                              /\ root'[j].size = root[j].size /\ root'[j].name = root[j].name,
           UNCHANGED <<flags, nextBlock, table, handles, storage>>,
           NEW call \in Calls, Return(call, 0)
    PROVE  Session' /\ KeepsAll
<1>1. Metadata(flags, table, root') /\ Chains(table, root') = Chains(table, root)
    BY AttributesKeep DEF Session, MetadataOK
<1>2. MetadataOK'
    BY <1>1 DEF Session, MetadataOK
<1>3. OpenKept(opened, root, Chains(table, root), root', Chains(table', root'))
    BY <1>1 DEF OpenKept
<1>4. KeepsAll
    BY <1>1, DirectoryKeeps DEF handles, storage, KeepsAll
<1>5. QED BY <1>2, <1>3, <1>4, DirectorySession

\* fuseChmod keeps it.
LEMMA ChmodSession ==
    ASSUME Session, NEW name \in Names, NEW mode \in Modes, fuseChmod(name, mode)
    PROVE  Session' /\ KeepsAll
<1>1. CASE ~hasFile(root, name)
    BY <1>1, Codes, ReturnsKeeps DEF fuseChmod
<1>2. CASE hasFile(root, name)
    <2> DEFINE i == getFile(root, name)
    <2>1. i \in Entries /\ root \in [Entries -> Files]
        BY <1>2, GetFile DEF Session, MetadataOK, Metadata
    <2>2. /\ root' = [root EXCEPT ![i].mode = mode]
          /\ UNCHANGED <<flags, nextBlock, table, handles, storage>>
          /\ Return("chmod", 0)
        BY <1>2 DEF fuseChmod
    <2> HIDE DEF i
    <2>3. /\ root' \in [Entries -> Files]
          /\ \A j \in Entries : /\ root'[j].firstBlock = root[j].firstBlock
                                /\ root'[j].size = root[j].size
                                /\ root'[j].name = root[j].name
        BY <2>1, <2>2 DEF Files
    <2>4. QED BY <2>1, <2>2, <2>3, Codes, AttributesSession
<1>3. QED BY <1>1, <1>2

\* fuseChown keeps it.
LEMMA ChownSession ==
    ASSUME Session, NEW name \in Names, NEW owner \in Owners, fuseChown(name, owner)
    PROVE  Session' /\ KeepsAll
<1>1. CASE ~hasFile(root, name)
    BY <1>1, Codes, ReturnsKeeps DEF fuseChown
<1>2. CASE hasFile(root, name)
    <2> DEFINE i == getFile(root, name)
    <2>1. i \in Entries /\ root \in [Entries -> Files]
        BY <1>2, GetFile DEF Session, MetadataOK, Metadata
    <2>2. /\ root' = [root EXCEPT ![i].owner = owner]
          /\ UNCHANGED <<flags, nextBlock, table, handles, storage>>
          /\ Return("chown", 0)
        BY <1>2 DEF fuseChown
    <2> HIDE DEF i
    <2>3. /\ root' \in [Entries -> Files]
          /\ \A j \in Entries : /\ root'[j].firstBlock = root[j].firstBlock
                                /\ root'[j].size = root[j].size
                                /\ root'[j].name = root[j].name
        BY <2>1, <2>2 DEF Files
    <2>4. QED BY <2>1, <2>2, <2>3, Codes, AttributesSession
<1>3. QED BY <1>1, <1>2

\* A rename on the handles: the name moves with the file.
LEMMA RenameHandles ==
    ASSUME NEW of, NEW n, NEW op, NEW r, NEW C, HandlesOK(of, n, op, r, C),
           NEW name \in Names, NEW newName \in Names, name # newName,
           \A h \in Handles : op[h] # newName,
           NEW i \in Entries, r[i].name = name,
           NEW op2, op2 = [h \in Handles |-> IF op[h] = name THEN newName ELSE op[h]],
           NEW r2, r2[i].name = newName, NEW D, D[i] = C[i],
           \A j \in Entries : r[j].name = name => j = i,
           \A j \in Entries : j # i /\ r[j].name # newName =>
                                 r2[j].name = r[j].name /\ D[j] = C[j]
    PROVE  HandlesOK(of, n, op2, r2, D)
<1>1. name # NoName /\ newName # NoName
    BY RootAssumption
<1>2. /\ op \in [Handles -> Names \cup {NoName}]
      /\ op2 \in [Handles -> Names \cup {NoName}]
      /\ \A h \in Handles : op2[h] = IF op[h] = name THEN newName ELSE op[h]
    BY DEF HandlesOK
<1>3. \A h \in Handles : op2[h] = NoName <=> op[h] = NoName
    BY <1>1, <1>2
<1>4. \A g, h \in Handles : op2[g] = op2[h] /\ op2[h] # NoName => g = h
    BY <1>1, <1>2 DEF HandlesOK
<1>5. ASSUME NEW h \in Handles, op2[h] # NoName PROVE Attached(op2[h], of[h], r2, D)
    <2>1. PICK j \in Entries : r[j].name = op[h] /\ of[h].blockList = C[j]
        BY <1>3, <1>5 DEF HandlesOK, Attached
    <2>2. CASE op[h] = name
        BY <1>2, <2>1, <2>2 DEF Attached
    <2>3. CASE op[h] # name
        <3>1. j # i /\ r[j].name # newName /\ op2[h] = op[h]
            BY <1>2, <2>1, <2>3
        <3>2. QED BY <2>1, <3>1 DEF Attached
    <2>4. QED BY <2>2, <2>3
<1>6. QED BY <1>2, <1>3, <1>4, <1>5 DEF HandlesOK

\* A rename to another name finds its file again when the target is gone.
LEMMA RenameFinds ==
    ASSUME root \in [Entries -> Files], NEW name \in Names, NEW newName \in Names,
           name # newName, hasFile(root, name)
    PROVE  hasFile(WithoutTarget(newName).root, name)
<1>1. PICK i \in Entries : root[i].name = name
    BY DEF hasFile
<1>2. CASE hasFile(root, newName)
    <2>1. PICK k \in Entries : k = getFile(root, newName) /\ root[k].name = newName
        BY <1>2, GetFile
    <2>2. WithoutTarget(newName).root = [root EXCEPT ![k] = UnusedEntry]
        BY <1>2, <2>1 DEF WithoutTarget, UnlinkFile, unlink
    <2>3. WithoutTarget(newName).root[i] = root[i]
        BY <1>1, <2>1, <2>2
    <2>4. QED BY <1>1, <2>3 DEF hasFile
<1>3. CASE ~hasFile(root, newName)
    BY <1>3 DEF WithoutTarget
<1>4. QED BY <1>2, <1>3

\* So it succeeds.
LEMMA RenameDone ==
    ASSUME root \in [Entries -> Files], NEW name \in Names, NEW newName \in Names,
           name # newName, hasFile(root, name), fuseRename(name, newName)
    PROVE  /\ flags' = WithoutTarget(newName).flags
           /\ root' = [WithoutTarget(newName).root EXCEPT
                          ![getFile(WithoutTarget(newName).root, name)].name = newName]
           /\ opened' = [h \in Handles |-> IF opened[h] = name THEN newName ELSE opened[h]]
           /\ UNCHANGED <<nextBlock, table, openFiles, openFileCount, storage>>
           /\ Return("rename", 0)
BY RenameFinds DEF fuseRename

\* fuseRename keeps it, with and without a target to unlink first.
LEMMA RenameSession ==
    ASSUME Session, Mounted, NEW name \in Names, NEW newName \in Names,
           fuseRename(name, newName)
    PROVE  Session' /\ KeepsOthers(newName)
<1>1. name # newName /\ ~IsOpen(newName)
    BY DEF Mounted, fuseRename
<1>2. CASE ~hasFile(root, name)
    BY <1>2, Codes, ReturnsKeeps, KeepsAllOthers DEF fuseRename
<1>3. CASE hasFile(root, name)
    <2> DEFINE f1 == IF hasFile(root, newName) THEN UnlinkFile(newName).flags ELSE flags
               r1 == IF hasFile(root, newName) THEN UnlinkFile(newName).root ELSE root
               i == getFile(root, name)
    <2>1. /\ flags' = f1
          /\ root' = [r1 EXCEPT ![getFile(r1, name)].name = newName]
          /\ opened' = [h \in Handles |-> IF opened[h] = name THEN newName ELSE opened[h]]
          /\ UNCHANGED <<nextBlock, table, openFiles, openFileCount, storage>>
          /\ Return("rename", 0)
        <3>1. root \in [Entries -> Files]
            BY DEF Session, MetadataOK, Metadata
        <3>2. f1 = WithoutTarget(newName).flags /\ r1 = WithoutTarget(newName).root
            BY DEF WithoutTarget
        <3> HIDE DEF f1, r1
        <3>3. QED BY <1>1, <1>3, <3>1, <3>2, RenameDone
    <2>2. /\ i \in Entries /\ root[i].name = name /\ name # NoName /\ newName # NoName
          /\ \A j \in Entries : root[j].name = name => j = i
        BY <1>3, GetFile, RootAssumption DEF Session, MetadataOK, Metadata
    <2>3. /\ Metadata(f1, table, r1) /\ ~hasFile(r1, newName)
          /\ \A j \in Entries : root[j].name # newName =>
                r1[j] = root[j] /\ Chains(table, r1)[j] = Chains(table, root)[j]
        <3>1. CASE hasFile(root, newName)
            <4> DEFINE k == getFile(root, newName)
            <4>1. /\ f1 = markFree(flags, SetOfBlocks(getBlockList(table, root[k].firstBlock)))
                  /\ r1 = unlink(root, newName)
                BY <3>1 DEF UnlinkFile
            <4> HIDE DEF f1, r1
            <4>2. /\ Metadata(f1, table, r1) /\ ~hasFile(r1, newName) /\ root[k].name = newName
                  /\ \A j \in Entries \ {k} :
                        r1[j] = root[j] /\ Chains(table, r1)[j] = Chains(table, root)[j]
                BY <3>1, <4>1, UnlinkKeeps DEF Session, MetadataOK
            <4> HIDE DEF k
            <4>3. QED BY <4>2
        <3>2. CASE ~hasFile(root, newName)
            BY <3>2 DEF Session, MetadataOK
        <3>3. QED BY <3>1, <3>2
    <2> HIDE DEF f1, r1, i
    <2>4. r1[i] = root[i] /\ Chains(table, r1)[i] = Chains(table, root)[i]
        BY <1>1, <2>2, <2>3
    <2>5. getFile(r1, name) = i
        BY <2>2, <2>3, <2>4, GetFileUnique
    <2>6. /\ Metadata(f1, table, root') /\ Chains(table, root') = Chains(table, r1)
          /\ root'[i].name = newName
          /\ \A j \in Entries \ {i} : root'[j] = r1[j]
        <3>1. root' = Renamed(r1, i, newName)
            BY <2>1, <2>5 DEF Renamed
        <3>2. r1[i].name # NoName
            BY <2>2, <2>4
        <3>3. i \in Entries /\ Metadata(f1, table, r1) /\ ~hasFile(r1, newName)
            BY <2>2, <2>3
        <3>4. QED BY <3>1, <3>2, <3>3, RenameKeeps, Z3
    <2>7. MetadataOK'
        BY <2>1, <2>6 DEF Session, MetadataOK
    <2>8. HandlesOK(openFiles, openFileCount, opened', root', Chains(table', root'))
        <3> DEFINE D == Chains(table', root')
                   C == Chains(table, root)
        <3>1. D[i] = C[i] /\ \A j \in Entries : j # i /\ root[j].name # newName =>
                                 root'[j].name = root[j].name /\ D[j] = C[j]
            BY <2>1, <2>3, <2>4, <2>6
        <3>2. \A h \in Handles : opened[h] # newName
            BY <1>1 DEF IsOpen
        <3>3. HandlesOK(openFiles, openFileCount, opened, root, C)
            BY DEF Session, HandlesFit
        <3> HIDE DEF C, D
        <3>4. /\ opened' = [h \in Handles |-> IF opened[h] = name THEN newName ELSE opened[h]]
              /\ i \in Entries /\ root[i].name = name /\ root'[i].name = newName
              /\ \A j \in Entries : root[j].name = name => j = i
            BY <2>1, <2>2, <2>6
        <3>5. HandlesOK(openFiles, openFileCount, opened', root', D)
            BY <1>1, <3>1, <3>2, <3>3, <3>4, RenameHandles, Z3
        <3>6. QED BY <3>5 DEF D
    <2>9. reply' \in Replies /\ fault' = FALSE
        <3>1. 0 \in Int
            OBVIOUS
        <3>2. QED BY <2>1, <3>1, Codes, Returned
    <2>10. HandlesFit'
        BY <2>1, <2>8 DEF HandlesFit
    <2>11. StorageOK'
        BY <2>1 DEF Session, StorageOK, storage
    <2>12. KeepsOthers(newName)
        <3>1. \A j \in Entries : root'[j].size = r1[j].size
            <4>1. r1 \in [Entries -> Files] /\ root' = [r1 EXCEPT ![i].name = newName]
                BY <2>1, <2>3, <2>5 DEF Metadata
            <4>2. QED BY <4>1 DEF Files
        <3>2. \A j \in Entries : root[j].name # newName =>
                  /\ root'[j].size = root[j].size
                  /\ Chains(table', root')[j] = Chains(table, root)[j]
            BY <2>1, <2>3, <2>6, <3>1
        <3>3. QED BY <2>1, <3>2, DirectoryKeeps DEF storage, KeepsOthers
    <2>13. QED BY <2>7, <2>9, <2>10, <2>11, <2>12 DEF Session
<1>4. QED BY <1>2, <1>3

\* fuseOpen keeps it: generateFilehandle finds a free handle, whose cache is
\* clean, and lists the chain.
LEMMA OpenSession ==
    ASSUME Session, Mounted, NEW name \in Names, fuseOpen(name)
    PROVE  Session' /\ KeepsAll
<1>1. openFileCount \in Nat /\ NUM_OPEN_FILES \in Nat
    BY InUseFinite, OnDiskFSAssumption, TransferAssumption DEF Session, HandlesFit, HandlesOK
<1>2. CASE openFileCount >= NUM_OPEN_FILES \/ ~hasFile(root, name)
    BY <1>1, <1>2, Codes, ReturnsKeeps DEF fuseOpen
<1>3. CASE openFileCount < NUM_OPEN_FILES /\ hasFile(root, name)
    <2> DEFINE h == generateFilehandle
               i == getFile(root, name)
               list == getBlockList(table, root[i].firstBlock)
               file == [openFiles[h] EXCEPT !.isFree = FALSE, !.blockList = list]
    <2>1. /\ openFiles' = [openFiles EXCEPT ![h].isFree = FALSE, ![h].blockList = list]
          /\ opened' = [opened EXCEPT ![h] = name]
          /\ openFileCount' = openFileCount + 1
          /\ UNCHANGED <<meta, storage>>
          /\ Return("open", 0)
          /\ ~IsOpen(name)
        <3>1. ~(openFileCount >= NUM_OPEN_FILES)
            BY <1>1, <1>3
        <3>2. QED BY <1>3, <3>1, Zenon DEF fuseOpen, Mounted
    <2>2. /\ openFiles \in [Handles -> OpenFile]
          /\ opened \in [Handles -> Names \cup {NoName}]
          /\ openFileCount = Cardinality(InUse(openFiles))
          /\ name # NoName
        BY RootAssumption DEF Session, HandlesFit, HandlesOK
    <2>3. h \in Handles /\ openFiles[h].isFree
        BY <1>3, <2>2, GenerateFilehandle
    <2>4. i \in Entries /\ root[i].name = name
        BY <1>3, GetFile
    <2>5. list \in BlockLists /\ list = Chains(table, root)[i]
        BY <2>4, ChainFacts DEF Session, MetadataOK
    <2> HIDE DEF h, i, list
    <2>6. /\ file \in OpenFile /\ ~file.isFree /\ file.blockList = list
          /\ file.dirty = openFiles[h].dirty
        BY <2>2, <2>3, <2>5 DEF OpenFile
    <2>7. openFiles' = [openFiles EXCEPT ![h] = file]
        BY <2>1
    <2> HIDE DEF file
    <2>8. /\ openFiles' \in [Handles -> OpenFile] /\ openFiles'[h] = file
          /\ \A g \in Handles \ {h} : openFiles'[g] = openFiles[g]
          /\ opened' \in [Handles -> Names \cup {NoName}] /\ opened'[h] = name
          /\ \A g \in Handles \ {h} : opened'[g] = opened[g]
        BY <2>1, <2>2, <2>3, <2>6, <2>7
    <2>9. openFileCount' = Cardinality(InUse(openFiles'))
        <3>1. InUse(openFiles') = InUse(openFiles) \cup {h} /\ h \notin InUse(openFiles)
            BY <2>3, <2>6, <2>8 DEF InUse
        <3>2. QED BY <2>1, <2>2, <3>1, InUseFinite, FS_AddElement
    <2>10. \A g \in Handles : openFiles'[g].isFree <=> opened'[g] = NoName
        BY <2>2, <2>6, <2>8 DEF Session, HandlesFit, HandlesOK
    <2>11. \A g \in Handles : opened'[g] # NoName =>
              Attached(opened'[g], openFiles'[g], root, Chains(table, root))
        <3>1. Attached(name, file, root, Chains(table, root))
            BY <2>4, <2>5, <2>6 DEF Attached
        <3>2. QED BY <2>8, <3>1 DEF Session, HandlesFit, HandlesOK
    <2>12. \A f, g \in Handles : opened'[f] = opened'[g] /\ opened'[g] # NoName => f = g
        BY <2>1, <2>8 DEF Session, HandlesFit, HandlesOK, IsOpen
    <2>13. \A g \in Handles : DirtyInList(openFiles'[g])
        <3>1. ~openFiles[h].dirty
            BY <2>3 DEF Session, HandlesFit, HandlesOK, DirtyInList
        <3>2. DirtyInList(file)
            BY <2>6, <3>1 DEF DirtyInList
        <3>3. QED BY <2>8, <3>2 DEF Session, HandlesFit, HandlesOK
    <2>14. HandlesFit'
        <3>1. HandlesOK(openFiles', openFileCount', opened', root, Chains(table, root))
            BY <2>8, <2>9, <2>10, <2>11, <2>12, <2>13 DEF HandlesOK
        <3>2. QED BY <2>1, <3>1 DEF HandlesFit, meta
    <2>15. reply' \in Replies /\ fault' = FALSE
        <3>1. 0 \in Int
            OBVIOUS
        <3>2. QED BY <2>1, <3>1, Codes, Returned
    <2>16. KeepsAll
        <3>1. /\ openFiles[h] \in OpenFile /\ ~openFiles[h].dirty /\ ~file.dirty
              /\ disk' = disk /\ root' = root /\ table' = table
            BY <2>1, <2>2, <2>3, <2>6 DEF Session, HandlesFit, HandlesOK, DirtyInList,
                                          meta, storage
        <3>2. Alike({}, openFiles, disk, openFiles', disk')
            BY <2>2, <2>3, <2>6, <2>7, <3>1, OneHandleAlike
        <3>3. QED BY <3>1, <3>2, AlikeKeepsAll
    <2>17. QED BY <2>1, <2>14, <2>15, <2>16 DEF Session, MetadataOK, StorageOK, meta, storage
<1>4. QED BY <1>1, <1>2, <1>3

-----------------------------------------------------------------------------
(* The handlers of an open file.                                           *)

\* What every one of them finds: the entry of the file, its chain in the
\* handle, and a cache that may only hold a block of that chain.
LEMMA OpenHandle ==
    ASSUME Session, NEW h \in Handles, opened[h] # NoName
    PROVE  /\ fileOf(h) \in Entries /\ root[fileOf(h)].name = opened[h]
           /\ openFiles \in [Handles -> OpenFile] /\ openFiles[h] \in OpenFile
           /\ ~openFiles[h].isFree /\ DirtyInList(openFiles[h])
           /\ openFiles[h].blockList = Chain(fileOf(h))
           /\ openFiles[h].blockList = Chains(table, root)[fileOf(h)]
           /\ Len(openFiles[h].blockList) = Needed(root[fileOf(h)].size)
           /\ openFiles[h].blockList \in BlockLists
           /\ root[fileOf(h)].size \in 0..MaxSize
           /\ Guarded(SetOfBlocks(openFiles[h].blockList),
                      [file |-> openFiles[h], disk |-> disk])
<1>1. /\ openFiles \in [Handles -> OpenFile] /\ DirtyInList(openFiles[h])
      /\ Attached(opened[h], openFiles[h], root, Chains(table, root))
      /\ ~openFiles[h].isFree
    BY DEF Session, HandlesFit, HandlesOK
<1>2. PICK i \in Entries : /\ root[i].name = opened[h]
                           /\ openFiles[h].blockList = Chains(table, root)[i]
    BY <1>1 DEF Attached
<1>3. fileOf(h) = i
    BY <1>2, GetFileUnique DEF Session, MetadataOK, fileOf
<1>4. /\ root \in [Entries -> Files] /\ root[i].size <= MaxSize
      /\ Len(Chains(table, root)[i]) = Needed(root[i].size)
      /\ Chains(table, root)[i] \in BlockLists
      /\ Chains(table, root)[i] = Chain(i)
    <2>1. Chain(i) = Chains(table, root)[i]
        BY DEF Chain, Chains
    <2>2. QED BY <2>1, ChainFacts DEF Session, MetadataOK, Metadata
<1>5. root[i].size \in 0..MaxSize
    BY <1>4, OnDiskFSAssumption, TransferAssumption DEF Files
<1>6. Guarded(SetOfBlocks(openFiles[h].blockList), [file |-> openFiles[h], disk |-> disk])
    BY <1>1 DEF Session, StorageOK, Guarded, Cache, DirtyInList
<1>7. QED BY <1>1, <1>2, <1>3, <1>4, <1>5, <1>6

\* A handle goes on with a clean cache, what waited in it being written: every
\* file keeps its contents.
LEMMA CleanKeepsAll ==
    ASSUME Session, NEW h \in Handles, UNCHANGED <<table, root>>,
           NEW file \in OpenFile, ~file.dirty,
           openFiles' = [openFiles EXCEPT ![h] = file],
           disk' = flushCache([file |-> openFiles[h], disk |-> disk]).disk
    PROVE  KeepsAll
<1>1. Alike({}, openFiles, disk, openFiles', disk')
    BY CleanAlike DEF Session, MetadataOK, HandlesFit, StorageOK
<1>2. QED BY <1>1, AlikeKeepsAll

\* fuseRelease keeps it: the handle is flushed before it is free.
LEMMA ReleaseSession ==
    ASSUME Session, NEW h \in Handles, fuseRelease(h)
    PROVE  Session' /\ Untouched(disk, disk') /\ KeepsAll
<1> DEFINE S == SetOfBlocks(openFiles[h].blockList)
           c == flushCache([file |-> openFiles[h], disk |-> disk])
           file == [c.file EXCEPT !.isFree = TRUE]
<1>1. /\ opened[h] # NoName
      /\ openFiles' = [openFiles EXCEPT ![h] = file] /\ disk' = c.disk
      /\ openFileCount' = openFileCount - 1
      /\ opened' = [opened EXCEPT ![h] = NoName]
      /\ UNCHANGED <<meta, image, idle>>
      /\ Return("release", 0)
    BY DEF fuseRelease
<1>2. /\ openFiles \in [Handles -> OpenFile]
      /\ opened \in [Handles -> Names \cup {NoName}]
      /\ openFileCount = Cardinality(InUse(openFiles))
      /\ ~openFiles[h].isFree
      /\ Guarded(S, [file |-> openFiles[h], disk |-> disk])
    BY <1>1, OpenHandle DEF Session, HandlesFit, HandlesOK
<1>3. c.file \in OpenFile /\ c.disk \in Disks /\ ~c.file.dirty
    BY <1>2, FlushCache DEF WritesOnly, Guarded, Cache
<1> HIDE DEF c
<1>4. file \in OpenFile /\ file.isFree /\ ~file.dirty
    BY <1>3 DEF OpenFile
<1> HIDE DEF file
<1>5. /\ openFiles' \in [Handles -> OpenFile] /\ openFiles'[h] = file
      /\ \A g \in Handles \ {h} : openFiles'[g] = openFiles[g]
      /\ opened' \in [Handles -> Names \cup {NoName}] /\ opened'[h] = NoName
      /\ \A g \in Handles \ {h} : opened'[g] = opened[g]
    BY <1>1, <1>2, <1>4
<1>6. openFileCount' = Cardinality(InUse(openFiles'))
    <2>1. InUse(openFiles') = InUse(openFiles) \ {h} /\ h \in InUse(openFiles)
        BY <1>2, <1>4, <1>5 DEF InUse
    <2>2. QED BY <1>1, <1>2, <2>1, InUseFinite, FS_RemoveElement
<1>7. \A g \in Handles : openFiles'[g].isFree <=> opened'[g] = NoName
    BY <1>4, <1>5 DEF Session, HandlesFit, HandlesOK
<1>8. \A g \in Handles : opened'[g] # NoName =>
          Attached(opened'[g], openFiles'[g], root, Chains(table, root))
    BY <1>5 DEF Session, HandlesFit, HandlesOK
<1>9. \A f, g \in Handles : opened'[f] = opened'[g] /\ opened'[g] # NoName => f = g
    BY <1>5 DEF Session, HandlesFit, HandlesOK
<1>10. \A g \in Handles : DirtyInList(openFiles'[g])
    BY <1>4, <1>5 DEF Session, HandlesFit, HandlesOK, DirtyInList
<1>11. HandlesFit'
    <2>1. HandlesOK(openFiles', openFileCount', opened', root, Chains(table, root))
        BY <1>5, <1>6, <1>7, <1>8, <1>9, <1>10 DEF HandlesOK
    <2>2. QED BY <1>1, <2>1 DEF HandlesFit, meta
<1>12. reply' \in Replies /\ fault' = FALSE
    <2>1. 0 \in Int
        OBVIOUS
    <2>2. QED BY <1>1, <2>1, Codes, Returned
<1>13. Untouched(disk, disk')
    <2>1. S \subseteq DataBlocks
        BY <1>1, <1>2, ListedData DEF Session, MetadataOK, HandlesFit
    <2>2. WritesOnly(S, [file |-> openFiles[h], disk |-> disk], c)
        BY <1>2, FlushCache DEF c
    <2>3. QED BY <1>1, <2>1, <2>2, DataOnly
<1>14. KeepsAll
    BY <1>1, <1>4, CleanKeepsAll DEF c, meta
<1>15. QED BY <1>1, <1>3, <1>11, <1>12, <1>13, <1>14
           DEF Session, MetadataOK, StorageOK, meta

\* Bytes within a file lie in the blocks its size takes.
LEMMA InsideFits ==
    ASSUME NumbersFit, NEW size \in 0..MaxSize, NEW offset \in Nat, NEW n \in Nat \ {0},
           offset + n <= size
    PROVE  /\ BlockIndex(offset) = offset \div BLOCK_SIZE /\ BlockIndex(offset) \in Nat
           /\ BlockIndex(offset) + BlocksTouched(offset, n) <= Needed(size)
<1>1. MaxSize \in Nat /\ BLOCK_SIZE \in Nat \ {0} /\ size \in Nat \ {0}
    BY OnDiskFSAssumption, TransferAssumption
<1>2. BlockIndex(offset) = offset \div BLOCK_SIZE /\ BlockIndex(offset) \in Nat
    <2>1. offset <= MaxSize + BLOCK_SIZE - 1
        BY <1>1
    <2>2. QED BY <2>1, BlockIndexExact DEF NumbersFit
<1>3. (offset \div BLOCK_SIZE) + BlocksTouched(offset, n)
          = ((offset + n - 1) \div BLOCK_SIZE) + 1
    BY TransferCut
<1>4. ((offset + n - 1) \div BLOCK_SIZE) <= ((size - 1) \div BLOCK_SIZE)
    <2>1. offset + n - 1 \in Nat /\ size - 1 \in Nat /\ offset + n - 1 <= size - 1
        BY <1>1
    <2>2. QED BY <1>1, <2>1, DivMonotonic
<1>5. Needed(size) = ((size - 1) \div BLOCK_SIZE) + 1
    BY <1>1, NeededType
<1>6. /\ (offset + n - 1) \div BLOCK_SIZE \in Nat /\ (size - 1) \div BLOCK_SIZE \in Nat
    BY <1>1, DivMod
<1>7. QED BY <1>2, <1>3, <1>4, <1>5, <1>6

\* A handle that lists the chain of its file covers them.
LEMMA OpenCovers ==
    ASSUME Session, NumbersFit, NEW h \in Handles, opened[h] # NoName,
           NEW offset \in Nat, NEW n \in Nat \ {0}, offset + n <= root[fileOf(h)].size
    PROVE  /\ BlockIndex(offset) = offset \div BLOCK_SIZE
           /\ Covered(SetOfBlocks(openFiles[h].blockList),
                      [file |-> openFiles[h], disk |-> disk], BlockIndex(offset) + 1,
                      offset, n)
<1> DEFINE list == openFiles[h].blockList
           size == root[fileOf(h)].size
           c == [file |-> openFiles[h], disk |-> disk]
<1>1. /\ list \in BlockLists /\ Len(list) = Needed(size) /\ size \in 0..MaxSize
      /\ Guarded(SetOfBlocks(list), c)
    BY OpenHandle
<1>2. c.file.blockList = list
    OBVIOUS
<1> HIDE DEF list, size, c
<1>3. /\ BlockIndex(offset) = offset \div BLOCK_SIZE /\ BlockIndex(offset) \in Nat
      /\ BlockIndex(offset) + BlocksTouched(offset, n) <= Len(list)
    <2>1. offset + n <= size
        BY DEF size
    <2>2. QED BY <1>1, <2>1, InsideFits
<1>4. BlocksTouched(offset, n) \in Nat /\ Len(list) \in Nat
    BY <1>1, TransferCut, BlockListType
<1>5. /\ BlockIndex(offset) + 1 \in Nat \ {0}
      /\ BlockIndex(offset) + 1 + BlocksTouched(offset, n) - 1 <= Len(list)
    BY <1>3, <1>4
<1>6. Covered(SetOfBlocks(list), c, BlockIndex(offset) + 1, offset, n)
    BY <1>1, <1>2, <1>5 DEF Covered
<1>7. QED BY <1>3, <1>6 DEF list, c

\* The bytes a read of n bytes may return; the size of a transfer is kept in a
\* uint32_t, and exact.
Readable(n, rest) == IF n < rest THEN n ELSE rest

LEMMA ReadableExact ==
    ASSUME NumbersFit, NEW n \in ReadSizes, NEW rest \in Nat \ {0}
    PROVE  /\ Readable(n, rest) % WORD = Readable(n, rest)
           /\ Readable(n, rest) \in Nat \ {0} /\ Readable(n, rest) <= rest
<1>1. n \in Nat \ {0} /\ n < WORD /\ WORD \in Nat \ {0}
    BY OnDiskFSAssumption, TransferAssumption, FatAssumption, DmapAssumption DEF NumbersFit
<1>2. /\ Readable(n, rest) \in Nat \ {0} /\ Readable(n, rest) < WORD
      /\ Readable(n, rest) <= rest
    BY <1>1 DEF Readable
<1>3. Readable(n, rest) = WORD * 0 + Readable(n, rest)
    BY <1>1, <1>2
<1>4. QED BY <1>1, <1>2, <1>3, DivUnique

\* The step of fuseRead inside a file: a read that its block list covers.
ReadsBlocks(h, offset, m) ==
    LET c == [file |-> openFiles[h], disk |-> disk]
        r == ReadData(c, BlockIndex(offset) + 1, offset, m)
    IN  /\ Covered(SetOfBlocks(openFiles[h].blockList), c, BlockIndex(offset) + 1, offset, m)
        /\ openFiles' = [openFiles EXCEPT ![h] = r.cache.file] /\ disk' = r.cache.disk
        /\ ReturnData("read", r.data)
        /\ UNCHANGED <<meta, openFileCount, opened, image, idle>>

\* fuseRead moves bytes of the file only, and as many as its size still has.
LEMMA ReadStep ==
    ASSUME Session, NumbersFit, NEW h \in Handles, NEW offset \in Offsets,
           NEW n \in ReadSizes, fuseRead(h, offset, n), offset < root[fileOf(h)].size
    PROVE  /\ offset \in Nat /\ opened[h] # NoName
           /\ Readable(n, root[fileOf(h)].size - offset) \in Nat \ {0}
           /\ offset + Readable(n, root[fileOf(h)].size - offset) <= root[fileOf(h)].size
           /\ ReadsBlocks(h, offset, Readable(n, root[fileOf(h)].size - offset))
<1> DEFINE size == root[fileOf(h)].size
           m == Readable(n, size - offset)
           list == openFiles[h].blockList
           c == [file |-> openFiles[h], disk |-> disk]
           first == BlockIndex(offset) + 1
<1>1. opened[h] # NoName
    BY DEF fuseRead
<1>2. offset \in Nat /\ size \in Nat
    <2>1. size \in 0..MaxSize /\ MaxSize \in Nat
        BY <1>1, OpenHandle, OnDiskFSAssumption, TransferAssumption
    <2>2. QED BY <2>1, OnDiskFSAssumption, TransferAssumption
<1>3. /\ m % WORD = m /\ m \in Nat \ {0} /\ offset + m <= size
    <2> HIDE DEF size
    <2>1. size - offset \in Nat \ {0}
        BY <1>2 DEF size
    <2> DEFINE rest == size - offset
    <2> HIDE DEF rest
    <2>2. rest \in Nat \ {0} /\ m = Readable(n, rest)
        BY <2>1 DEF rest
    <2> HIDE DEF m
    <2>3. /\ m % WORD = m /\ m \in Nat \ {0} /\ m <= rest
        BY <2>2, ReadableExact
    <2>4. QED BY <1>2, <2>3 DEF rest
<1>4. Covered(SetOfBlocks(list), c, first, offset, m)
    <2> HIDE DEF m
    <2>1. QED BY <1>1, <1>2, <1>3, OpenCovers
<1>5. /\ ~(offset >= size)
      /\ ~(first + BlocksTouched(offset, m) - 1 > Len(list))
    <2>1. first + BlocksTouched(offset, m) - 1 <= Len(list)
        BY <1>4 DEF Covered
    <2>2. first \in Nat /\ BlocksTouched(offset, m) \in Nat /\ Len(list) \in Nat
        <3>1. list \in BlockLists /\ first \in Nat
            BY <1>1, <1>4, OpenHandle DEF Covered
        <3> HIDE DEF m, first, list
        <3>2. QED BY <1>2, <1>3, <3>1, TransferCut, BlockListType
    <2> HIDE DEF first, list, m
    <2>3. QED BY <1>2, <2>1, <2>2
<1>6. /\ openFiles' = [openFiles EXCEPT ![h] = ReadData(c, first, offset, m).cache.file]
      /\ disk' = ReadData(c, first, offset, m).cache.disk
      /\ ReturnData("read", ReadData(c, first, offset, m).data)
      /\ UNCHANGED <<meta, openFileCount, opened, image, idle>>
    <2>1. (IF n < size - offset THEN n ELSE size - offset) % WORD = m
        BY <1>3 DEF Readable
    <2>2. QED BY <1>5, <2>1, Zenon DEF fuseRead
<1>7. QED BY <1>1, <1>2, <1>3, <1>4, <1>6 DEF ReadsBlocks

\* fuseRead keeps it: a read inside the file stays inside the block list.
LEMMA ReadSession ==
    ASSUME Session, NumbersFit, NEW h \in Handles, NEW offset \in Offsets,
           NEW n \in ReadSizes, fuseRead(h, offset, n)
    PROVE  Session' /\ Untouched(disk, disk') /\ KeepsAll
<1> DEFINE size == root[fileOf(h)].size
           list == openFiles[h].blockList
           m == Readable(n, size - offset)
           c == [file |-> openFiles[h], disk |-> disk]
           r == ReadData(c, BlockIndex(offset) + 1, offset, m)
<1>1. /\ opened[h] # NoName /\ openFiles \in [Handles -> OpenFile]
      /\ ~openFiles[h].isFree /\ size \in Nat /\ offset \in Nat
    <2>1. opened[h] # NoName
        BY DEF fuseRead
    <2>2. MaxSize \in Nat /\ offset \in Nat
        BY OnDiskFSAssumption, TransferAssumption
    <2>3. openFiles \in [Handles -> OpenFile] /\ ~openFiles[h].isFree /\ size \in 0..MaxSize
        BY <2>1, OpenHandle
    <2> HIDE DEF size
    <2>4. QED BY <2>1, <2>2, <2>3
<1>2. CASE offset >= size
    <2>1. Returns("read", 0)
        BY <1>1, <1>2 DEF fuseRead
    <2>2. 0 \in Int
        OBVIOUS
    <2>3. QED BY <2>1, <2>2, Codes, ReturnsKeeps
<1>3. CASE offset < size
    <2>1. ReadsBlocks(h, offset, m)
        BY <1>3, ReadStep
    <2>2. /\ openFiles' = [openFiles EXCEPT ![h] = r.cache.file] /\ disk' = r.cache.disk
          /\ ReturnData("read", r.data)
          /\ UNCHANGED <<meta, openFileCount, opened, image, idle>>
          /\ Covered(SetOfBlocks(list), c, BlockIndex(offset) + 1, offset, m)
        BY <2>1 DEF ReadsBlocks
    <2> HIDE DEF m
    <2>3. /\ WritesOnly(SetOfBlocks(list), c, r.cache) /\ r.data \in Seq(Cells)
          /\ (r.cache = c \/ (~r.cache.file.dirty /\ r.cache.disk = flushCache(c).disk))
        BY <2>2, ReadDataStaysInList, ReadDataCleans
    <2> HIDE DEF r
    <2>4. /\ r.cache.file \in OpenFile /\ r.cache.disk \in Disks /\ ~r.cache.file.isFree
          /\ r.cache.file.blockList = openFiles[h].blockList
          /\ DirtyInList(r.cache.file)
        BY <1>1, <2>3 DEF WritesOnly, Guarded, Cache, DirtyInList
    <2>5. HandlesFit'
        <3> DEFINE file == r.cache.file
                   C == Chains(table, root)
        <3>1. /\ HandlesOK(openFiles, openFileCount, opened, root, C)
              /\ C \in [Entries -> BlockLists]
            BY DEF Session, HandlesFit, MetadataOK, Metadata, Layout
        <3>2. /\ openFiles' = [openFiles EXCEPT ![h] = file]
              /\ file \in OpenFile /\ ~file.isFree /\ DirtyInList(file)
              /\ file.blockList = openFiles[h].blockList
              /\ opened[h] # NoName
            BY <1>1, <2>2, <2>4
        <3> HIDE DEF file, C
        <3>3. HandlesOK(openFiles', openFileCount, opened, root, C)
            BY <3>1, <3>2, OneHandleOnly
        <3>4. QED BY <2>2, <3>3 DEF HandlesFit, meta, C
    <2>6. reply' \in Replies /\ fault' = FALSE
        <3> DEFINE data == r.data
        <3>1. data \in Seq(Cells) /\ Len(data) \in Int
            BY <2>3
        <3>2. /\ reply' = [call |-> "read", code |-> Len(data), data |-> data]
              /\ ~fault /\ UNCHANGED fault
            BY <2>2 DEF ReturnData, Reply
        <3> HIDE DEF data
        <3>3. QED BY <3>1, <3>2, Codes DEF Session, Replies
    <2>7. Untouched(disk, disk')
        <3>1. SetOfBlocks(list) \subseteq DataBlocks
            BY <1>1, ListedData DEF Session, MetadataOK, HandlesFit
        <3>2. QED BY <2>2, <2>3, <3>1, DataOnly
    <2>8. KeepsAll
        <3> DEFINE d == r.cache
        <3>1. CASE d = c
            <4>1. openFiles' = openFiles /\ disk' = disk
                BY <1>1, <2>2, <3>1
            <4>2. QED BY <2>2, <4>1, NothingChanges
        <3>2. CASE d # c
            <4> DEFINE file == d.file
            <4>1. /\ file \in OpenFile /\ ~file.dirty
                  /\ openFiles' = [openFiles EXCEPT ![h] = file]
                  /\ disk' = flushCache([file |-> openFiles[h], disk |-> disk]).disk
                BY <2>2, <2>3, <2>4, <3>2
            <4> HIDE DEF file
            <4>2. QED BY <2>2, <4>1, CleanKeepsAll DEF meta
        <3>3. QED BY <3>1, <3>2
    <2>9. QED BY <2>2, <2>4, <2>5, <2>6, <2>7, <2>8
              DEF Session, MetadataOK, StorageOK, meta
<1>4. QED BY <1>1, <1>2, <1>3

\* The handlers that change metadata and end in syncToDisk, once the handles
\* they leave fit that metadata.
LEMMA SyncSession ==
    ASSUME Session, MetadataOK', NEW files, NEW dk \in Disks,
           HandlesOK(files, openFileCount, opened, root', Chains(table', root')),
           SyncToDisk(files, dk), UNCHANGED <<openFileCount, opened>>,
           NEW call \in Calls, NEW code \in Int, Return(call, code)
    PROVE  Session' /\ Untouched(dk, disk') /\ Alike({}, files, dk, openFiles', disk')
<1>1. reply' \in Replies /\ fault' = FALSE
    BY Returned
<1>2. files \in [Handles -> OpenFile] /\ idle \in 0..SYNC_INTERVAL /\ image \in Images
    BY DEF HandlesOK, Session, StorageOK
<1>3. /\ flags' \in [Blocks -> BOOLEAN] /\ table' \in [Blocks -> Links]
      /\ root' \in [Entries -> Files]
    BY DEF MetadataOK, Metadata, Layout
<1>4. /\ Synced(files, openFiles') /\ disk' \in Disks
      /\ image' \in Images /\ idle' \in 0..SYNC_INTERVAL
      /\ \A b \in Blocks : \/ disk'[b] = dk[b]
                          \/ \E h \in Handles : /\ ~files[h].isFree /\ files[h].dirty
                                              /\ files[h].blockNo = b
    BY <1>2, <1>3, SyncKeeps
<1>5. HandlesOK(openFiles', openFileCount, opened, root', Chains(table', root'))
    BY <1>4, SyncedHandles
<1>6. Untouched(dk, disk')
    <2>1. \A h \in Handles : ~files[h].isFree /\ files[h].dirty => files[h].blockNo \in DataBlocks
        BY ListedData DEF MetadataOK
    <2>2. \A b \in DataBlocks : ~(b < DATA_START)
        BY DmapAssumption DEF DataBlocks
    <2>3. QED BY <1>4, <2>1, <2>2 DEF Untouched
<1>7. Alike({}, files, dk, openFiles', disk')
    BY <1>2, SyncAlike DEF MetadataOK
<1>8. QED BY <1>1, <1>4, <1>5, <1>6, <1>7 DEF Session, HandlesFit, StorageOK

\* A write asks for what the chain lacks of the blocks its end needs.
LEMMA BlocksMissingExact ==
    ASSUME NumbersFit, NEW h \in Handles, NEW offset \in Nat, NEW n \in Nat \ {0},
           offset + n <= MaxSize, NEW size \in 0..MaxSize,
           openFiles[h].blockList \in BlockLists,
           Len(openFiles[h].blockList) = Needed(size),
           NEW size2, size2 = IF offset + n > size THEN offset + n ELSE size,
           NEW missing, missing = BlocksMissing(h, offset, n)
    PROVE  /\ missing \in Nat /\ size2 \in 0..MaxSize
           /\ Needed(size) + missing = Needed(size2)
           /\ BlockIndex(offset) \in Nat
           /\ BlockIndex(offset) + BlocksTouched(offset, n) <= Needed(size2)
<1> DEFINE last == (offset + n - 1) \div BLOCK_SIZE
           have == Needed(size)
<1>1. /\ MaxSize \in Nat /\ BLOCK_SIZE \in Nat \ {0} /\ WORD \in Nat
      /\ CONTAINER_BLOCKS < WORD /\ CONTAINER_BLOCKS \in Nat
    BY OnDiskFSAssumption, TransferAssumption, FatAssumption, DmapAssumption
<1>2. offset + n \in Nat \ {0} /\ offset + n - 1 \in Nat /\ offset <= offset + n
    OBVIOUS
<1>3. /\ BlockIndex(offset + n - 1) = last /\ last \in Nat
      /\ BlockIndex(offset) = offset \div BLOCK_SIZE /\ BlockIndex(offset) \in Nat
    <2>1. offset + n - 1 <= MaxSize + BLOCK_SIZE - 1 /\ offset <= MaxSize + BLOCK_SIZE - 1
        BY <1>1, <1>2
    <2>2. QED BY <1>2, <2>1, BlockIndexExact DEF NumbersFit
<1>4. Needed(offset + n) = last + 1 /\ Needed(size) \in Nat
    BY <1>2, NeededType
<1>5. BlockIndex(offset) + BlocksTouched(offset, n) = last + 1
    BY <1>3, TransferCut
<1>6. size2 \in 0..MaxSize
    BY <1>1, <1>2
<1> HIDE DEF last, have
<1>7. missing = IF last < have THEN 0 ELSE (last + 1 - have) % WORD
    BY <1>3 DEF BlocksMissing, have
<1>8. last + 1 < WORD
    <2>1. MaxSize \in 0..MaxSize
        BY <1>1
    <2>2. BlocksFor(MaxSize) = Needed(MaxSize) /\ Needed(MaxSize) \in Nat
        BY <2>1, BlocksForExact DEF NumbersFit
    <2>3. Needed(MaxSize) < WORD
        <3>1. (MaxSize + BLOCK_SIZE - 1) \div BLOCK_SIZE \in Nat /\ WORD \in Nat \ {0}
            BY <1>1, DivMod
        <3>2. ((MaxSize + BLOCK_SIZE - 1) \div BLOCK_SIZE) % WORD < WORD
            BY <3>1, DivMod
        <3>3. QED BY <2>2, <3>2 DEF BlocksFor, BlockIndex
    <2>4. Needed(offset + n) <= Needed(MaxSize)
        BY <1>1, <1>2, NeededType
    <2>5. QED BY <1>1, <1>3, <1>4, <2>2, <2>3, <2>4
<1>9. missing = IF last < have THEN 0 ELSE last + 1 - have
    <2>1. CASE last < have
        BY <1>7, <2>1
    <2>2. CASE ~(last < have)
        <3> DEFINE m == last + 1 - have
        <3>1. m \in Nat /\ m < WORD /\ WORD \in Nat \ {0}
            BY <1>1, <1>3, <1>4, <1>8, <2>2 DEF have
        <3>2. missing = m % WORD
            BY <1>7, <2>2
        <3> HIDE DEF m
        <3>3. m = WORD * 0 + m
            BY <3>1
        <3>4. m % WORD = m
            BY <3>1, <3>3, DivUnique
        <3>5. QED BY <2>2, <3>2, <3>4 DEF m
    <2>3. QED BY <2>1, <2>2
<1>10. have \in Nat
    BY <1>4 DEF have
<1>11. Needed(size2) = IF last < have THEN have ELSE last + 1
    <2>1. CASE offset + n > size
        <3>1. have <= last + 1
            <4>1. size <= offset + n
                BY <2>1
            <4>2. QED BY <1>2, <1>4, <4>1, NeededType DEF have
        <3>2. size2 = offset + n
            BY <2>1
        <3>3. QED BY <1>3, <1>4, <1>10, <3>1, <3>2
    <2>2. CASE ~(offset + n > size)
        <3>1. last + 1 <= have
            <4>1. offset + n <= size
                BY <1>2, <2>2
            <4>2. QED BY <1>2, <1>4, <4>1, NeededType DEF have
        <3>2. size2 = size
            BY <2>2
        <3>3. QED BY <1>3, <1>10, <3>1, <3>2 DEF have
    <2>3. QED BY <2>1, <2>2
<1>12. /\ missing \in Nat /\ have + missing = Needed(size2) /\ last + 1 <= Needed(size2)
    BY <1>3, <1>9, <1>10, <1>11
<1>13. QED BY <1>3, <1>5, <1>6, <1>12 DEF have

\* The new blocks are found at the end of the chain, and the data loop stays
\* within the longer block list.
LEMMA WriteNeverFaults ==
    ASSUME Session, NumbersFit, NEW h \in Handles, opened[h] # NoName,
           NEW offset \in Nat, NEW n \in Nat \ {0}, offset + n <= MaxSize
    PROVE  ~WriteFaults(h, offset, n)
<1> DEFINE i == fileOf(h)
           list == openFiles[h].blockList
           missing == BlocksMissing(h, offset, n)
           size == root[i].size
           size2 == IF offset + n > size THEN offset + n ELSE size
<1>1. /\ i \in Entries /\ list \in BlockLists /\ list = Chains(table, root)[i]
      /\ Len(list) = Needed(size) /\ size \in 0..MaxSize
    BY OpenHandle
<1>2. /\ missing \in Nat /\ Needed(size) + missing = Needed(size2)
      /\ BlockIndex(offset) \in Nat
      /\ BlockIndex(offset) + BlocksTouched(offset, n) <= Needed(size2)
    <2> HIDE DEF size, missing
    <2>1. missing = BlocksMissing(h, offset, n)
        BY DEF missing
    <2>2. QED BY <1>1, <2>1, BlocksMissingExact
<1>3. BlocksTouched(offset, n) \in Nat
    BY TransferCut
<1>4. root[i].firstBlock # END_OF_CLUSTER => list # <<>> /\ WalkEnds(table, list[Len(list)])
    <2>1. SUFFICES ASSUME root[i].firstBlock # END_OF_CLUSTER
                   PROVE  list # <<>> /\ WalkEnds(table, list[Len(list)])
        OBVIOUS
    <2>2. /\ list = <<>> => root[i].firstBlock = END_OF_CLUSTER
          /\ IsChain(table, list)
        <3>1. IsChain(table, Chains(table, root)[i])
            BY <1>1 DEF Session, MetadataOK, Metadata, Layout
        <3>2. QED BY <1>1, <3>1, ChainFacts DEF Session, MetadataOK
    <2> HIDE DEF list
    <2>3. QED BY <1>1, <2>1, <2>2, GetLastBlock
<1>5. ~(BlockIndex(offset) + BlocksTouched(offset, n) > Len(list) + missing)
    <2> HIDE DEF size, size2, list, missing
    <2>1. Needed(size) \in Nat
        BY <1>1, BlockListType
    <2>2. QED BY <1>1, <1>2, <1>3, <2>1
<1> HIDE DEF missing
<1>6. QED BY <1>4, <1>5 DEF WriteFaults, missing

\* A write on handle h: its list with the blocks the write adds, the handle
\* with that list, and what the data loop makes of handle and container.
Longer(h, offset, n) ==
    LET list == openFiles[h].blockList
    IN  list \o Extended(fileOf(h), list[Len(list)], BlocksMissing(h, offset, n)).new

WriteBefore(h, offset, n) ==
    [file |-> [openFiles[h] EXCEPT !.blockList = Longer(h, offset, n)], disk |-> disk]

WriteAfter(h, offset, data) ==
    WriteData(WriteBefore(h, offset, Len(data)), BlockIndex(offset) + 1, offset, data)

Grown(size, end) == IF end > size THEN end ELSE size

\* What a write that finds its blocks does to the metadata: one file grows.
WriteGrows(h, offset, n) ==
    LET i == fileOf(h)
        list == openFiles[h].blockList
        longer == Longer(h, offset, n)
    IN  /\ MetadataOK'
        /\ root'[i].name = root[i].name /\ EntriesKept(root, root', i)
        /\ root'[i].mode = root[i].mode /\ root'[i].owner = root[i].owner
        /\ root'[i].size = Grown(root[i].size, offset + n)
        /\ Chains(table', root') = With(Chains(table, root), i, longer)
        /\ longer \in BlockLists
        /\ Len(list) <= Len(longer) /\ \A k \in 1..Len(list) : longer[k] = list[k]
        /\ SetOfBlocks(list) \subseteq SetOfBlocks(longer)

\* The data loop starts from a handle whose list covers the bytes.
WriteStarts(h, offset, n) ==
    LET before == WriteBefore(h, offset, n)
    IN  /\ before \in Cache
        /\ before.disk = disk
        /\ before.file.blockList = Longer(h, offset, n)
        /\ before.file.isFree = openFiles[h].isFree
        /\ before.file.dirty = openFiles[h].dirty
        /\ before.file.blockNo = openFiles[h].blockNo
        /\ before.file.buffer = openFiles[h].buffer
        /\ Covered(SetOfBlocks(Longer(h, offset, n)), before, BlockIndex(offset) + 1,
                   offset, n)

\* What it leaves is synchronised.
WriteLeaves(h, offset, data) ==
    LET longer == Longer(h, offset, Len(data))
        after == WriteAfter(h, offset, data)
        files == [openFiles EXCEPT ![h] = after.file]
    IN  /\ WritesOnly(SetOfBlocks(longer), WriteBefore(h, offset, Len(data)), after)
        /\ after.file \in OpenFile /\ after.disk \in Disks /\ ~after.file.isFree
        /\ after.file.blockList = longer /\ DirtyInList(after.file)
        /\ HandlesOK(files, openFileCount, opened, root', Chains(table', root'))
        /\ SyncToDisk(files, after.disk)
        /\ UNCHANGED <<openFileCount, opened>> /\ Return("write", Len(data))

\* What a write that finds its blocks makes of the metadata and of the list of
\* the handle: both lengthen alike.
WriteExtended(h, offset, n) ==
    LET i == fileOf(h)
        list == openFiles[h].blockList
        size2 == Grown(root[i].size, offset + n)
        e == Extended(i, list[Len(list)], BlocksMissing(h, offset, n))
        r2 == Placed(root, i, e.firstBlock, size2)
        longer == Longer(h, offset, n)
    IN  /\ Metadata(e.flags, e.table, r2) /\ e.nextBlock \in Blocks
        /\ Chains(e.table, r2) = With(Chains(table, root), i, longer)
        /\ r2[i].name = root[i].name /\ r2[i].size = size2
        /\ EntriesKept(root, r2, i)
        /\ longer \in BlockLists /\ Len(longer) = Needed(size2)
        /\ Len(list) <= Len(longer) /\ \A k \in 1..Len(list) : longer[k] = list[k]
        /\ SetOfBlocks(list) \subseteq SetOfBlocks(longer)
        /\ BlockIndex(offset) \in Nat
        /\ BlockIndex(offset) + BlocksTouched(offset, n) <= Len(longer)

\* A write of bytes that fit, for which there are blocks, does this.
LEMMA WriteExtends ==
    ASSUME Session, NumbersFit, NEW h \in Handles, opened[h] # NoName,
           NEW offset \in Nat, NEW n \in Nat \ {0}, offset + n <= MaxSize,
           CanFind(flags, BlocksMissing(h, offset, n))
    PROVE  WriteExtended(h, offset, n)
<1> DEFINE i == fileOf(h)
           list == openFiles[h].blockList
           missing == BlocksMissing(h, offset, n)
           size == root[i].size
           size2 == Grown(size, offset + n)
           block == list[Len(list)]
           e == Extended(i, block, missing)
           r2 == Placed(root, i, e.firstBlock, size2)
           longer == Longer(h, offset, n)
<1>1. /\ i \in Entries /\ root[i].name # NoName
      /\ list = Chain(i) /\ list \in BlockLists
      /\ Len(list) = Needed(size) /\ size \in 0..MaxSize
    BY OpenHandle
<1>2. size2 = IF offset + n > size THEN offset + n ELSE size
    BY DEF Grown
<1>3. missing = BlocksMissing(h, offset, n) /\ CanFind(flags, missing)
    OBVIOUS
<1>4. longer = list \o e.new
    BY DEF Longer
<1>5. EndOf(Chain(i), block) /\ e = Extended(i, block, missing)
      /\ r2 = Placed(root, i, e.firstBlock, size2)
    BY <1>1 DEF EndOf
<1>6. missing = 0 => e.new = <<>>
    BY DEF Extended
<1> HIDE DEF missing, size2, size, block, e, r2, longer
<1>7. /\ missing \in Nat /\ size2 \in 0..MaxSize /\ Needed(size) + missing = Needed(size2)
      /\ BlockIndex(offset) \in Nat
      /\ BlockIndex(offset) + BlocksTouched(offset, n) <= Needed(size2)
    <2> DEFINE grown == IF offset + n > size THEN offset + n ELSE size
    <2>1. /\ missing \in Nat /\ grown \in 0..MaxSize
          /\ Needed(size) + missing = Needed(grown)
          /\ BlockIndex(offset) \in Nat
          /\ BlockIndex(offset) + BlocksTouched(offset, n) <= Needed(grown)
        BY <1>1, <1>3, BlocksMissingExact
    <2>2. QED BY <1>2, <2>1
<1>8. /\ Metadata(e.flags, e.table, r2)
      /\ Chains(e.table, r2) = With(Chains(table, root), i, Chain(i) \o e.new)
      /\ r2[i].name = root[i].name /\ r2[i].size = size2
      /\ EntriesKept(root, r2, i)
      /\ e.nextBlock \in Blocks
      /\ Chain(i) \o e.new \in BlockLists /\ Len(Chain(i) \o e.new) = Needed(size2)
      /\ SetOfBlocks(Chain(i)) \subseteq SetOfBlocks(Chain(i) \o e.new)
      /\ missing # 0 => e.new \in BlockLists
    <2>1. Len(Chain(i)) + missing = Needed(size2)
        BY <1>1, <1>7
    <2>2. Metadata(flags, table, root) /\ nextBlock \in Blocks
        BY DEF Session, MetadataOK
    <2> HIDE DEF i, list
    <2>3. ExtendedBy(i, missing, size2, e, r2)
        BY <1>1, <1>3, <1>5, <1>7, <2>1, <2>2, ExtendedKeeps
    <2>4. QED BY <2>3 DEF ExtendedBy
<1>9. /\ Len(list) <= Len(longer) /\ \A k \in 1..Len(list) : longer[k] = list[k]
    <2>1. CASE missing = 0
        <3>1. longer = list /\ Len(list) \in Nat
            BY <1>1, <1>4, <1>6, <2>1, BlockListType
        <3>2. QED BY <3>1
    <2>2. CASE missing # 0
        <3> DEFINE new == e.new
        <3>1. list \in Seq(Blocks) /\ new \in Seq(Blocks)
            BY <1>1, <1>8, <2>2, BlockListType
        <3>2. longer = list \o new
            BY <1>4
        <3> HIDE DEF list, new
        <3>3. QED BY <3>1, <3>2
    <2>3. QED BY <2>1, <2>2
<1>10. QED BY <1>1, <1>4, <1>7, <1>8, <1>9
           DEF missing, size2, size, block, e, r2, longer, WriteExtended

\* The data loop starts within the longer list and stays in it.
LEMMA WriteMoves ==
    ASSUME Session, NumbersFit, NEW h \in Handles, opened[h] # NoName,
           NEW offset \in Nat, NEW data \in Seq(Cells), Len(data) # 0,
           offset + Len(data) <= MaxSize,
           CanFind(flags, BlocksMissing(h, offset, Len(data)))
    PROVE  LET longer == Longer(h, offset, Len(data))
               before == WriteBefore(h, offset, Len(data))
               after == WriteAfter(h, offset, data)
           IN  /\ WriteStarts(h, offset, Len(data))
               /\ WritesOnly(SetOfBlocks(longer), before, after)
               /\ after.file \in OpenFile /\ after.disk \in Disks /\ ~after.file.isFree
               /\ after.file.blockList = longer /\ DirtyInList(after.file)
<1> DEFINE n == Len(data)
           list == openFiles[h].blockList
           longer == Longer(h, offset, n)
           before == WriteBefore(h, offset, n)
           c == WriteAfter(h, offset, data)
<1>1. n \in Nat \ {0}
    OBVIOUS
<1>2. /\ openFiles[h] \in OpenFile /\ ~openFiles[h].isFree /\ DirtyInList(openFiles[h])
      /\ disk \in Disks
    <2>1. disk \in Disks
        BY DEF Session, StorageOK
    <2>2. QED BY <2>1, OpenHandle
<1>3. /\ longer \in BlockLists /\ SetOfBlocks(list) \subseteq SetOfBlocks(longer)
      /\ BlockIndex(offset) \in Nat
      /\ BlockIndex(offset) + BlocksTouched(offset, n) <= Len(longer)
    <2> HIDE DEF n
    <2>1. offset + n <= MaxSize /\ CanFind(flags, BlocksMissing(h, offset, n))
        BY DEF n
    <2>2. WriteExtended(h, offset, n)
        BY <1>1, <2>1, WriteExtends
    <2>3. QED BY <2>2 DEF WriteExtended
<1>4. /\ before = [file |-> [openFiles[h] EXCEPT !.blockList = longer], disk |-> disk]
      /\ c = WriteData(before, BlockIndex(offset) + 1, offset, data)
    BY DEF WriteBefore, WriteAfter
<1> HIDE DEF list, longer, before, c
<1>5. /\ before.file \in OpenFile /\ before.disk \in Disks
      /\ before.file.isFree = openFiles[h].isFree
      /\ before.file.dirty = openFiles[h].dirty
      /\ before.file.blockNo = openFiles[h].blockNo
      /\ before.file.buffer = openFiles[h].buffer
      /\ before.file.blockList = longer
      /\ before \in Cache /\ before.disk = disk
    BY <1>2, <1>3, <1>4 DEF OpenFile, Cache
<1>6. Covered(SetOfBlocks(longer), before, BlockIndex(offset) + 1, offset, n)
    <2>1. Guarded(SetOfBlocks(longer), before)
        BY <1>2, <1>3, <1>5 DEF Guarded, DirtyInList, list
    <2>2. BlocksTouched(offset, n) \in Nat
        BY <1>1, TransferCut
    <2>3. /\ BlockIndex(offset) + 1 \in Nat \ {0}
          /\ BlockIndex(offset) + 1 + BlocksTouched(offset, n) - 1
                <= Len(before.file.blockList)
        BY <1>3, <1>5, <2>2
    <2>4. QED BY <1>1, <1>5, <2>1, <2>3 DEF Covered
<1>7. WritesOnly(SetOfBlocks(longer), before, c)
    BY <1>4, <1>6, WriteDataStaysInList DEF n
<1>8. /\ c.file \in OpenFile /\ c.disk \in Disks /\ ~c.file.isFree
      /\ c.file.blockList = longer /\ DirtyInList(c.file)
    BY <1>2, <1>5, <1>7 DEF WritesOnly, Guarded, Cache, DirtyInList
<1>9. WriteStarts(h, offset, n)
    BY <1>5, <1>6 DEF WriteStarts, before, longer
<1>10. QED BY <1>7, <1>8, <1>9 DEF before, longer, c, n

\* The step of fuseWrite, part by part: size, chain, bitmap and block list grow
\* together.
LEMMA WriteStep ==
    ASSUME Session, NumbersFit, NEW h \in Handles, NEW offset \in Offsets,
           NEW data \in Payloads, fuseWrite(h, offset, data),
           CanFind(flags, BlocksMissing(h, offset, Len(data)))
    PROVE  /\ WriteGrows(h, offset, Len(data))
           /\ WriteStarts(h, offset, Len(data))
           /\ WriteLeaves(h, offset, data)
<1> DEFINE i == fileOf(h)
           list == openFiles[h].blockList
           n == Len(data)
           missing == BlocksMissing(h, offset, n)
           size2 == Grown(root[i].size, offset + n)
           e == Extended(i, list[Len(list)], missing)
           r2 == Placed(root, i, e.firstBlock, size2)
           longer == Longer(h, offset, n)
           before == WriteBefore(h, offset, n)
           c == WriteAfter(h, offset, data)
           files == [openFiles EXCEPT ![h] = c.file]
           C == Chains(table, root)
<1>1. /\ opened[h] # NoName /\ offset + n <= MaxSize
      /\ offset \in Nat /\ data \in Seq(Cells) /\ n \in Nat \ {0}
    BY OnDiskFSAssumption, TransferAssumption DEF fuseWrite
<1>2. /\ i \in Entries /\ root[i].name = opened[h] /\ root[i].name # NoName
      /\ openFiles \in [Handles -> OpenFile]
    BY <1>1, OpenHandle
<1>3. ~WriteFaults(h, offset, n)
    <2> HIDE DEF n
    <2>1. QED BY <1>1, WriteNeverFaults
<1>4. /\ longer = list \o e.new
      /\ before = [file |-> [openFiles[h] EXCEPT !.blockList = longer], disk |-> disk]
      /\ c = WriteData(before, BlockIndex(offset) + 1, offset, data)
      /\ size2 = IF offset + n > root[i].size THEN offset + n ELSE root[i].size
    BY DEF Longer, WriteBefore, WriteAfter, Grown
<1>5. /\ flags' = e.flags /\ nextBlock' = e.nextBlock /\ table' = e.table
      /\ root' = r2
      /\ SyncToDisk(files, c.disk)
      /\ UNCHANGED <<openFileCount, opened>>
      /\ Return("write", n)
    BY <1>3, <1>4, Zenon DEF fuseWrite, Placed, CachedList
<1>6. /\ Metadata(e.flags, e.table, r2) /\ e.nextBlock \in Blocks
      /\ Chains(e.table, r2) = With(C, i, longer)
      /\ r2[i].name = root[i].name /\ r2[i].size = size2
      /\ EntriesKept(root, r2, i)
      /\ longer \in BlockLists
      /\ Len(list) <= Len(longer) /\ \A k \in 1..Len(list) : longer[k] = list[k]
      /\ SetOfBlocks(list) \subseteq SetOfBlocks(longer)
    <2> HIDE DEF n
    <2>1. n \in Nat \ {0} /\ offset + n <= MaxSize /\ CanFind(flags, BlocksMissing(h, offset, n))
        BY <1>1 DEF n
    <2>2. WriteExtended(h, offset, n)
        BY <1>1, <2>1, WriteExtends
    <2>3. QED BY <2>2 DEF WriteExtended
<1>7. /\ WriteStarts(h, offset, n)
      /\ WritesOnly(SetOfBlocks(longer), before, c)
      /\ c.file \in OpenFile /\ c.disk \in Disks /\ ~c.file.isFree
      /\ c.file.blockList = longer /\ DirtyInList(c.file)
    BY <1>1, WriteMoves
<1>8. WriteGrows(h, offset, n)
    <2>1. root'[i].mode = root[i].mode /\ root'[i].owner = root[i].owner
        <3>1. root \in [Entries -> Files]
            BY DEF Session, MetadataOK, Metadata
        <3>2. root' = Placed(root, i, e.firstBlock, size2)
            BY <1>5
        <3> HIDE DEF i, e, size2
        <3>3. QED BY <1>2, <3>1, <3>2, PlacedAttributes
    <2> HIDE DEF size2, e, r2
    <2>2. MetadataOK'
        BY <1>5, <1>6 DEF MetadataOK
    <2>3. /\ Chains(table', root') = With(C, i, longer)
          /\ root'[i].name = root[i].name /\ root'[i].size = size2
          /\ EntriesKept(root, root', i)
        BY <1>5, <1>6
    <2>4. root'[i].size = Grown(root[i].size, offset + n)
        BY <2>3 DEF size2
    <2>5. QED BY <1>6, <2>1, <2>2, <2>3, <2>4 DEF WriteGrows, longer, list, i, C
<1>9. HandlesOK(files, openFileCount, opened, root', Chains(table', root'))
    <2> DEFINE file == c.file
    <2>1. /\ HandlesOK(openFiles, openFileCount, opened, root, C)
          /\ C \in [Entries -> BlockLists]
        BY DEF Session, HandlesFit, MetadataOK, Metadata, Layout, C
    <2>2. /\ files = [openFiles EXCEPT ![h] = file]
          /\ file \in OpenFile /\ ~file.isFree /\ file.blockList = longer /\ DirtyInList(file)
        BY <1>7
    <2>3. /\ root'[i].name = root[i].name /\ EntriesKept(root, root', i)
          /\ Chains(table', root') = With(C, i, longer)
        BY <1>5, <1>6
    <2> HIDE DEF files, file, longer, size2, e, r2, C, i
    <2>4. HandlesOK(files, openFileCount, opened, root', With(C, i, file.blockList))
        BY <1>1, <1>2, <2>1, <2>2, <2>3, OneHandle
    <2>5. QED BY <2>2, <2>3, <2>4
<1>10. WriteLeaves(h, offset, data)
    BY <1>5, <1>7, <1>9 DEF WriteLeaves, before, longer, c, n
<1>11. QED BY <1>7, <1>8, <1>10 DEF n

\* fuseWrite keeps it.
LEMMA WriteSession ==
    ASSUME Session, NumbersFit, NEW h \in Handles, NEW offset \in Offsets,
           NEW data \in Payloads, fuseWrite(h, offset, data)
    PROVE  Session' /\ Untouched(disk, disk') /\ KeepsOthers(opened[h])
<1> DEFINE i == fileOf(h)
           list == openFiles[h].blockList
           n == Len(data)
           longer == Longer(h, offset, n)
           before == WriteBefore(h, offset, n)
           c == WriteAfter(h, offset, data)
           files == [openFiles EXCEPT ![h] = c.file]
           C == Chains(table, root)
<1>1. opened[h] # NoName
    BY DEF fuseWrite
<1>2. /\ i \in Entries /\ root[i].name = opened[h] /\ openFiles \in [Handles -> OpenFile]
      /\ DirtyInList(openFiles[h])
    BY <1>1, OpenHandle
<1>3. CASE ~CanFind(flags, BlocksMissing(h, offset, Len(data)))
    <2>1. Returns("write", -ENOSPC)
        BY <1>3 DEF fuseWrite
    <2>2. QED BY <2>1, Codes, ReturnsKeeps, KeepsAllOthers
<1>4. CASE CanFind(flags, BlocksMissing(h, offset, Len(data)))
    <2>1. WriteGrows(h, offset, n) /\ WriteStarts(h, offset, n) /\ WriteLeaves(h, offset, data)
        BY <1>4, WriteStep
    <2>2. /\ MetadataOK' /\ EntriesKept(root, root', i)
          /\ Chains(table', root') = With(C, i, longer)
          /\ longer \in BlockLists /\ SetOfBlocks(list) \subseteq SetOfBlocks(longer)
        BY <2>1 DEF WriteGrows
    <2>3. /\ before.disk = disk
          /\ WritesOnly(SetOfBlocks(longer), before, c)
          /\ c.file \in OpenFile /\ c.disk \in Disks
          /\ c.file.blockList = longer /\ DirtyInList(c.file)
          /\ HandlesOK(files, openFileCount, opened, root', Chains(table', root'))
          /\ SyncToDisk(files, c.disk)
          /\ UNCHANGED <<openFileCount, opened>> /\ Return("write", n)
        BY <2>1 DEF WriteStarts, WriteLeaves
    <2>4. n \in Int /\ "write" \in Calls
        <3>1. data \in Seq(Cells)
            BY OnDiskFSAssumption, TransferAssumption
        <3>2. QED BY <3>1, Codes
    <2> HIDE DEF i, list, n, longer, before, c, C
    <2>5. \A j \in Entries \ {i} : root'[j] = root[j] /\ Chains(table', root')[j] = C[j]
        <3>1. C \in [Entries -> BlockLists]
            BY DEF Session, MetadataOK, Metadata, Layout, C
        <3>2. QED BY <1>2, <2>2, <3>1, WithFacts DEF EntriesKept
    <2>6. longer = Chains(table', root')[i]
        <3>1. C \in [Entries -> BlockLists]
            BY DEF Session, MetadataOK, Metadata, Layout, C
        <3>2. QED BY <1>2, <2>2, <3>1, WithFacts
    <2>7. Untouched(disk, c.disk)
        <3>1. SetOfBlocks(longer) \subseteq DataBlocks
            BY <1>2, <2>2, <2>6, ChainFacts DEF MetadataOK
        <3>2. QED BY <2>3, <3>1, DataOnly
    <2>8. Alike(SetOfBlocks(longer), openFiles, disk, files, c.disk)
        <3> DEFINE S == SetOfBlocks(longer)
                   dk == c.disk
                   file == c.file
        <3>1. openFiles[h].dirty => openFiles[h].blockNo \in S
            BY <1>2, <2>2 DEF DirtyInList, list
        <3>2. /\ file \in OpenFile
              /\ file.dirty => file.blockNo \in S
              /\ \A b \in Blocks \ S : dk[b] = disk[b]
              /\ files = [openFiles EXCEPT ![h] = file]
            BY <2>3 DEF WritesOnly, DirtyInList
        <3> HIDE DEF S, dk, file, files
        <3>3. Alike(S, openFiles, disk, files, dk)
            BY <1>2, <3>1, <3>2, OneHandleAlike
        <3>4. QED BY <3>3 DEF S, dk
    <2>9. /\ Session' /\ Untouched(c.disk, disk')
          /\ Alike({}, files, c.disk, openFiles', disk')
        <3> DEFINE dk == c.disk
        <3>1. dk \in Disks /\ SyncToDisk(files, dk)
            BY <2>3
        <3> HIDE DEF dk, files
        <3>2. Session' /\ Untouched(dk, disk') /\ Alike({}, files, dk, openFiles', disk')
            BY <2>2, <2>3, <2>4, <3>1, SyncSession
        <3>3. QED BY <3>2 DEF dk
    <2>10. KeepsOthers(opened[h])
        <3> DEFINE S == SetOfBlocks(longer)
        <3>1. Alike(S, openFiles, disk, openFiles', disk')
            <4> HIDE DEF S, files
            <4>1. QED BY <2>8, <2>9, AlikeAfter DEF S
        <3>2. ASSUME NEW j \in Entries, root[j].name # opened[h] PROVE KeepsFile(j)
            <4>1. j \in Entries \ {i}
                BY <1>2, <3>2
            <4>2. /\ root'[j].size = root[j].size
                  /\ Chains(table', root')[j] = Chains(table, root)[j]
                BY <2>5, <4>1 DEF C
            <4>3. SetOfBlocks(Chains(table, root)[j]) \cap S = {}
                BY <1>2, <2>2, <2>6, <4>1, <4>2, Apart DEF MetadataOK
            <4> HIDE DEF S
            <4>4. QED BY <3>1, <4>2, <4>3, KeepsBy
        <3>3. QED BY <3>2 DEF KeepsOthers
    <2>11. QED BY <2>7, <2>9, <2>10 DEF Untouched
<1>5. QED BY <1>3, <1>4

\* Chain i becomes another one that agrees with it as far as both go.
Refit(i, list) ==
    /\ list \in BlockLists
    /\ Chains(table', root') = With(Chains(table, root), i, list)
    /\ Agree(Chains(table, root)[i], list)

\* What both fuseTruncate do to the metadata of a file.
LEMMA SetSizeKeeps ==
    ASSUME Session, NumbersFit, NEW i \in Entries, root[i].name # NoName,
           NEW newSize \in NewSizes, CanFind(flags, BlocksToAdd(i, newSize))
    PROVE  /\ ~ResizeFaults(i, newSize)
           /\ SetSize(i, newSize) =>
                /\ MetadataOK'
                /\ \E list : Refit(i, list)
                /\ root'[i].name = root[i].name /\ EntriesKept(root, root', i)
                /\ root'[i].mode = root[i].mode /\ root'[i].owner = root[i].owner
                /\ root'[i].size = newSize
<1> DEFINE e == Resized(i, newSize)
           r2 == Placed(root, i, e.firstBlock, newSize)
<1>1. /\ Metadata(flags, table, root) /\ nextBlock \in Blocks /\ SizesFit
      /\ newSize \in 0..MaxSize /\ root \in [Entries -> Files]
    BY OnDiskFSAssumption, TransferAssumption
       DEF Session, MetadataOK, Metadata, NumbersFit
<1>2. e = Resized(i, newSize) /\ r2 = Placed(root, i, e.firstBlock, newSize)
    OBVIOUS
<1>3. SetSize(i, newSize) =>
          /\ flags' = e.flags /\ nextBlock' = e.nextBlock /\ table' = e.table
          /\ root' = r2
    BY Zenon DEF SetSize, Placed
<1> HIDE DEF e, r2
<1>4. /\ ~ResizeFaults(i, newSize)
      /\ Metadata(e.flags, e.table, r2)
      /\ \E list \in BlockLists :
            /\ Chains(e.table, r2) = With(Chains(table, root), i, list)
            /\ Agree(Chains(table, root)[i], list)
      /\ r2[i].name = root[i].name /\ EntriesKept(root, r2, i)
      /\ e.nextBlock \in Blocks
    BY <1>1, <1>2, ResizedKeeps
<1>5. r2[i].mode = root[i].mode /\ r2[i].owner = root[i].owner /\ r2[i].size = newSize
    BY <1>1, <1>2, PlacedAttributes
<1>6. QED BY <1>3, <1>4, <1>5, Zenon DEF MetadataOK, Refit

\* The entries that are not resized keep size and chain.
LEMMA RefitOthers ==
    ASSUME Session, NEW i \in Entries, NEW list, Refit(i, list),
           EntriesKept(root, root', i)
    PROVE  /\ Chains(table', root')[i] = list
           /\ \A j \in Entries \ {i} :
                 /\ root'[j] = root[j]
                 /\ Chains(table', root')[j] = Chains(table, root)[j]
<1>1. Chains(table, root) \in [Entries -> BlockLists]
    BY DEF Session, MetadataOK, Metadata, Layout
<1>2. QED BY <1>1, WithFacts DEF Refit, EntriesKept

\* The step of fuseTruncate by name when it resizes the file, which is not open.
Truncates(i, list) ==
    /\ MetadataOK'
    /\ Refit(i, list)
    /\ root'[i].name = root[i].name /\ EntriesKept(root, root', i)
    /\ root'[i].mode = root[i].mode /\ root'[i].owner = root[i].owner
    /\ HandlesOK(openFiles, openFileCount, opened, root', Chains(table', root'))
    /\ SyncToDisk(openFiles, disk)
    /\ UNCHANGED <<openFileCount, opened>> /\ Return("truncate", 0)

\* fuseTruncate by path, when it finds the blocks, refits one entry and then syncs.
LEMMA TruncateStep ==
    ASSUME Session, Mounted, NumbersFit, NEW name \in Names, NEW newSize \in NewSizes,
           fuseTruncate(name, newSize),
           CanFind(flags, BlocksToAdd(getFile(root, name), newSize))
    PROVE  /\ hasFile(root, name)
           /\ getFile(root, name) \in Entries /\ root[getFile(root, name)].name = name
           /\ root'[getFile(root, name)].size = newSize
           /\ \E list : Truncates(getFile(root, name), list)
<1> DEFINE i == getFile(root, name)
           C == Chains(table, root)
<1>1. hasFile(root, name) /\ ~IsOpen(name) /\ name # NoName
    BY RootAssumption DEF Mounted, fuseTruncate
<1>2. i \in Entries /\ root[i].name = name
    BY <1>1, GetFile
<1>3. ~ResizeFaults(i, newSize)
    BY <1>1, <1>2, SetSizeKeeps
<1>4. /\ SetSize(i, newSize) /\ SyncToDisk(openFiles, disk)
      /\ UNCHANGED <<openFileCount, opened>> /\ Return("truncate", 0)
    BY <1>1, <1>3, Zenon DEF fuseTruncate
<1>5. /\ MetadataOK'
      /\ \E list : Refit(i, list)
      /\ root'[i].name = root[i].name /\ EntriesKept(root, root', i)
      /\ root'[i].mode = root[i].mode /\ root'[i].owner = root[i].owner
      /\ root'[i].size = newSize
    BY <1>1, <1>2, <1>4, SetSizeKeeps
<1> HIDE DEF i
<1>6. PICK list : Refit(i, list)
    BY <1>5
<1>7. OpenKept(opened, root, C, root', Chains(table', root'))
    <2>1. \A j \in Entries \ {i} : root'[j] = root[j] /\ Chains(table', root')[j] = C[j]
        BY <1>2, <1>5, <1>6, RefitOthers
    <2>2. \A h \in Handles : opened[h] # root[i].name
        BY <1>1, <1>2 DEF IsOpen
    <2>3. QED BY <2>1, <2>2 DEF OpenKept
<1>8. HandlesOK(openFiles, openFileCount, opened, root', Chains(table', root'))
    <2>1. HandlesOK(openFiles, openFileCount, opened, root, C)
        BY DEF Session, HandlesFit
    <2>2. QED BY <1>7, <2>1, HandlesKeep
<1>9. Truncates(i, list)
    BY <1>4, <1>5, <1>6, <1>8 DEF Truncates
<1>10. QED BY <1>1, <1>2, <1>5, <1>9 DEF i

\* fuseTruncate by name keeps it.
LEMMA TruncateSession ==
    ASSUME Session, Mounted, NumbersFit, NEW name \in Names, NEW newSize \in NewSizes,
           fuseTruncate(name, newSize)
    PROVE  Session' /\ Untouched(disk, disk') /\ KeepsOthers(name)
<1> DEFINE i == getFile(root, name)
           C == Chains(table, root)
<1>1. CASE ~CanFind(flags, BlocksToAdd(i, newSize))
    <2>1. Returns("truncate", -ENOSPC)
        BY <1>1 DEF Mounted, fuseTruncate
    <2>2. QED BY <2>1, Codes, ReturnsKeeps, KeepsAllOthers
<1>2. CASE CanFind(flags, BlocksToAdd(i, newSize))
    <2>1. i \in Entries /\ root[i].name = name /\ \E list : Truncates(i, list)
        BY <1>2, TruncateStep
    <2> HIDE DEF i
    <2>2. PICK list : Truncates(i, list)
        BY <2>1
    <2>3. /\ MetadataOK' /\ Refit(i, list) /\ EntriesKept(root, root', i)
          /\ HandlesOK(openFiles, openFileCount, opened, root', Chains(table', root'))
          /\ SyncToDisk(openFiles, disk)
          /\ UNCHANGED <<openFileCount, opened>> /\ Return("truncate", 0)
        BY <2>2 DEF Truncates
    <2>4. 0 \in Int /\ "truncate" \in Calls /\ disk \in Disks
        BY Codes DEF Session, StorageOK
    <2>5. /\ Session' /\ Untouched(disk, disk')
          /\ Alike({}, openFiles, disk, openFiles', disk')
        BY <2>3, <2>4, SyncSession
    <2>6. KeepsOthers(name)
        <3>1. ASSUME NEW j \in Entries, root[j].name # name PROVE KeepsFile(j)
            <4>1. root'[j] = root[j] /\ Chains(table', root')[j] = C[j]
                BY <2>1, <2>3, <3>1, RefitOthers
            <4>2. SetOfBlocks(C[j]) \cap {} = {}
                OBVIOUS
            <4>3. QED BY <2>5, <4>1, <4>2, KeepsBy
        <3>2. QED BY <3>1 DEF KeepsOthers
    <2>7. QED BY <2>5, <2>6
<1>3. QED BY <1>1, <1>2

\* The step of fuseTruncate by handle when it resizes the file: the handle is
\* flushed before, and lists the new chain after.
TruncatesOpen(h, list) ==
    LET i == fileOf(h)
        c == flushCache([file |-> openFiles[h], disk |-> disk])
        file == [c.file EXCEPT !.blockList = list]
        files == [openFiles EXCEPT ![h] = file]
    IN  /\ MetadataOK'
        /\ Refit(i, list)
        /\ root'[i].name = root[i].name /\ EntriesKept(root, root', i)
        /\ root'[i].mode = root[i].mode /\ root'[i].owner = root[i].owner
        /\ c.disk \in Disks /\ file \in OpenFile /\ ~file.isFree /\ ~file.dirty
        /\ file.blockList = list
        /\ file.buffer = openFiles[h].buffer /\ file.blockNo = openFiles[h].blockNo
        /\ HandlesOK(files, openFileCount, opened, root', Chains(table', root'))
        /\ SyncToDisk(files, c.disk)
        /\ UNCHANGED <<openFileCount, opened>> /\ Return("truncate", 0)

\* flushCache on an open handle.
LEMMA FlushOpen ==
    ASSUME Session, NEW h \in Handles, opened[h] # NoName
    PROVE  LET c == flushCache([file |-> openFiles[h], disk |-> disk])
           IN  /\ c.file \in OpenFile /\ c.disk \in Disks
               /\ ~c.file.dirty /\ ~c.file.isFree
               /\ c.file.blockList = openFiles[h].blockList
               /\ c.file.blockNo = openFiles[h].blockNo
               /\ c.file.buffer = openFiles[h].buffer
               /\ Untouched(disk, c.disk)
<1> DEFINE S == SetOfBlocks(openFiles[h].blockList)
           b == [file |-> openFiles[h], disk |-> disk]
           c == flushCache(b)
<1>1. Guarded(S, b) /\ ~openFiles[h].isFree
    BY OpenHandle
<1>2. /\ WritesOnly(S, b, c) /\ ~c.file.dirty /\ c.file.blockNo = b.file.blockNo
    BY <1>1, FlushCache
<1>3. c.file.buffer = openFiles[h].buffer
    <2>1. openFiles[h] \in OpenFile
        BY OpenHandle
    <2>2. QED BY <2>1 DEF flushCache, OpenFile
<1>4. S \subseteq DataBlocks
    BY <1>1, ListedData DEF Session, MetadataOK, HandlesFit
<1> HIDE DEF c
<1>5. /\ c.file \in OpenFile /\ c.disk \in Disks /\ ~c.file.isFree
      /\ c.file.blockList = openFiles[h].blockList
    BY <1>1, <1>2 DEF WritesOnly, Guarded, Cache
<1>6. Untouched(disk, c.disk)
    BY <1>2, <1>4, DataOnly
<1>7. QED BY <1>2, <1>3, <1>5, <1>6 DEF c

\* fuseTruncate by handle does so too, for the file that is open.
LEMMA TruncateOpenStep ==
    ASSUME Session, NumbersFit, NEW h \in Handles, NEW newSize \in NewSizes,
           fuseTruncateOpen(h, newSize),
           CanFind(flags, BlocksToAdd(fileOf(h), newSize))
    PROVE  /\ root'[fileOf(h)].size = newSize
           /\ \E list : TruncatesOpen(h, list)
<1> DEFINE i == fileOf(h)
           C == Chains(table, root)
           c == flushCache([file |-> openFiles[h], disk |-> disk])
<1>1. opened[h] # NoName
    BY DEF fuseTruncateOpen
<1>2. /\ i \in Entries /\ root[i].name = opened[h] /\ root[i].name # NoName
    BY <1>1, OpenHandle
<1>3. /\ c.file \in OpenFile /\ c.disk \in Disks /\ ~c.file.dirty /\ ~c.file.isFree
      /\ c.file.buffer = openFiles[h].buffer /\ c.file.blockNo = openFiles[h].blockNo
    BY <1>1, FlushOpen
<1>4. ~ResizeFaults(i, newSize)
    BY <1>2, SetSizeKeeps
<1>5. /\ SetSize(i, newSize)
      /\ SyncToDisk([openFiles EXCEPT ![h] =
            [c.file EXCEPT !.blockList = getBlockList(table', root'[i].firstBlock)]], c.disk)
      /\ UNCHANGED <<openFileCount, opened>> /\ Return("truncate", 0)
    BY <1>4, Zenon DEF fuseTruncateOpen
<1>6. /\ MetadataOK'
      /\ \E list : Refit(i, list)
      /\ root'[i].name = root[i].name /\ EntriesKept(root, root', i)
      /\ root'[i].mode = root[i].mode /\ root'[i].owner = root[i].owner
      /\ root'[i].size = newSize
    BY <1>2, <1>5, SetSizeKeeps
<1> HIDE DEF i, c
<1>7. PICK list : Refit(i, list)
    BY <1>6
<1>8. getBlockList(table', root'[i].firstBlock) = list
    <2>1. Chains(table', root')[i] = list
        BY <1>2, <1>6, <1>7, RefitOthers
    <2>2. Chains(table', root')[i] = getBlockList(table', root'[i].firstBlock)
        BY <1>2 DEF Chains
    <2>3. QED BY <2>1, <2>2
<1> DEFINE file == [c.file EXCEPT !.blockList = list]
           files == [openFiles EXCEPT ![h] = file]
<1>9. /\ file \in OpenFile /\ ~file.isFree /\ ~file.dirty /\ file.blockList = list
      /\ file.buffer = openFiles[h].buffer /\ file.blockNo = openFiles[h].blockNo
      /\ DirtyInList(file)
    BY <1>3, <1>7 DEF OpenFile, DirtyInList, Refit
<1>10. SyncToDisk(files, c.disk)
    BY <1>5, <1>8
<1>11. HandlesOK(files, openFileCount, opened, root', Chains(table', root'))
    <2>1. /\ HandlesOK(openFiles, openFileCount, opened, root, C)
          /\ C \in [Entries -> BlockLists]
        BY DEF Session, HandlesFit, MetadataOK, Metadata, Layout
    <2>2. files = [openFiles EXCEPT ![h] = file]
        OBVIOUS
    <2>3. Chains(table', root') = With(C, i, file.blockList)
        BY <1>7, <1>9 DEF Refit
    <2> HIDE DEF file, files, C
    <2>4. HandlesOK(files, openFileCount, opened, root', With(C, i, file.blockList))
        BY <1>1, <1>2, <1>6, <1>9, <2>1, <2>2, OneHandle
    <2>5. QED BY <2>3, <2>4
<1>12. TruncatesOpen(h, list)
    BY <1>3, <1>5, <1>6, <1>7, <1>9, <1>10, <1>11 DEF TruncatesOpen, i, c
<1>13. QED BY <1>6, <1>12 DEF i

\* fuseTruncate by handle keeps it, whether or not it finds the blocks.
LEMMA TruncateOpenSession ==
    ASSUME Session, NumbersFit, NEW h \in Handles, NEW newSize \in NewSizes,
           fuseTruncateOpen(h, newSize)
    PROVE  Session' /\ Untouched(disk, disk') /\ KeepsOthers(opened[h])
<1> DEFINE i == fileOf(h)
           C == Chains(table, root)
           c == flushCache([file |-> openFiles[h], disk |-> disk])
<1>1. opened[h] # NoName
    BY DEF fuseTruncateOpen
<1>2. /\ i \in Entries /\ root[i].name = opened[h]
    BY <1>1, OpenHandle
<1>3. /\ c.file \in OpenFile /\ c.disk \in Disks /\ ~c.file.dirty /\ ~c.file.isFree
      /\ c.file.blockList = openFiles[h].blockList /\ Untouched(disk, c.disk)
    BY <1>1, FlushOpen
<1>4. /\ HandlesOK(openFiles, openFileCount, opened, root, C)
      /\ C \in [Entries -> BlockLists]
    BY DEF Session, HandlesFit, MetadataOK, Metadata, Layout
<1>5. 0 \in Int /\ -ENOSPC \in Int /\ "truncate" \in Calls
    BY Codes
<1>6. CASE ~CanFind(flags, BlocksToAdd(i, newSize))
    <2> DEFINE file == c.file
    <2>1. /\ openFiles' = [openFiles EXCEPT ![h] = file] /\ disk' = c.disk
          /\ UNCHANGED <<meta, openFileCount, opened, image, idle>>
          /\ Return("truncate", -ENOSPC)
        BY <1>6 DEF fuseTruncateOpen
    <2>2. file \in OpenFile /\ ~file.isFree /\ ~file.dirty /\ DirtyInList(file)
          /\ file.blockList = openFiles[h].blockList
        BY <1>3 DEF DirtyInList
    <2>3. KeepsOthers(opened[h])
        <3>1. disk' = flushCache([file |-> openFiles[h], disk |-> disk]).disk
            BY <2>1
        <3> HIDE DEF file, c
        <3>2. QED BY <2>1, <2>2, <3>1, CleanKeepsAll, KeepsAllOthers DEF meta
    <2> HIDE DEF file, c, C
    <2>4. HandlesFit'
        <3>1. HandlesOK(openFiles', openFileCount, opened, root, C)
            BY <1>1, <1>4, <2>1, <2>2, OneHandleOnly
        <3>2. QED BY <2>1, <3>1 DEF HandlesFit, meta, C
    <2>5. reply' \in Replies /\ fault' = FALSE
        BY <1>5, <2>1, Returned
    <2>6. QED BY <1>3, <2>1, <2>3, <2>4, <2>5 DEF Session, MetadataOK, StorageOK, meta
<1>7. CASE CanFind(flags, BlocksToAdd(i, newSize))
    <2>1. PICK list : TruncatesOpen(h, list)
        BY <1>7, TruncateOpenStep
    <2> DEFINE file == [c.file EXCEPT !.blockList = list]
               files == [openFiles EXCEPT ![h] = file]
               dk == c.disk
    <2>2. /\ MetadataOK' /\ Refit(i, list) /\ EntriesKept(root, root', i)
          /\ dk \in Disks /\ file \in OpenFile /\ ~file.dirty
          /\ HandlesOK(files, openFileCount, opened, root', Chains(table', root'))
          /\ SyncToDisk(files, dk)
          /\ UNCHANGED <<openFileCount, opened>> /\ Return("truncate", 0)
        BY <2>1 DEF TruncatesOpen
    <2>3. Untouched(disk, dk)
        BY <1>3
    <2>4. Alike({}, openFiles, disk, files, dk)
        <3>1. /\ dk = flushCache([file |-> openFiles[h], disk |-> disk]).disk
              /\ files = [openFiles EXCEPT ![h] = file]
            OBVIOUS
        <3> HIDE DEF file, files, dk, c
        <3>2. QED BY <2>2, <3>1, CleanAlike DEF Session, MetadataOK, HandlesFit, StorageOK
    <2> HIDE DEF file, files, dk, c, i
    <2>5. /\ Session' /\ Untouched(dk, disk')
          /\ Alike({}, files, dk, openFiles', disk')
        BY <1>5, <2>2, SyncSession
    <2>6. KeepsOthers(opened[h])
        <3>1. Alike({}, openFiles, disk, openFiles', disk')
            BY <2>4, <2>5, AlikeAfter
        <3>2. ASSUME NEW j \in Entries, root[j].name # opened[h] PROVE KeepsFile(j)
            <4>1. root'[j] = root[j] /\ Chains(table', root')[j] = C[j]
                BY <1>2, <2>2, <3>2, RefitOthers
            <4>2. SetOfBlocks(C[j]) \cap {} = {}
                OBVIOUS
            <4>3. QED BY <3>1, <4>1, <4>2, KeepsBy
        <3>3. QED BY <3>2 DEF KeepsOthers
    <2>7. QED BY <2>3, <2>5, <2>6 DEF Untouched
<1>8. QED BY <1>6, <1>7

-----------------------------------------------------------------------------
(* The invariant, and what it says in the words of OnDiskFS.               *)

\* Every step of the specification keeps the invariant.
LEMMA NextSession == Mounted /\ NumbersFit /\ Session /\ [Next]_vars => Session'
<1> SUFFICES ASSUME Mounted, NumbersFit, Session, [Next]_vars PROVE Session'
    OBVIOUS
<1>1. ASSUME NEW name \in Names, NEW mode \in Modes, fuseMknod(name, mode)
      PROVE  Session'
    BY <1>1, MknodSession
<1>2. ASSUME NEW name \in Names, fuseUnlink(name) PROVE Session'
    BY <1>2, UnlinkSession
<1>3. ASSUME NEW name \in Names, NEW newName \in Names, fuseRename(name, newName)
      PROVE  Session'
    BY <1>3, RenameSession
<1>4. ASSUME NEW name \in Names, NEW mode \in Modes, fuseChmod(name, mode)
      PROVE  Session'
    BY <1>4, ChmodSession
<1>5. ASSUME NEW name \in Names, NEW owner \in Owners, fuseChown(name, owner)
      PROVE  Session'
    BY <1>5, ChownSession
<1>6. ASSUME NEW name \in Names, fuseOpen(name) PROVE Session'
    BY <1>6, OpenSession
<1>7. ASSUME NEW name \in Names, NEW newSize \in NewSizes, fuseTruncate(name, newSize)
      PROVE  Session'
    BY <1>7, TruncateSession
<1>8. ASSUME NEW h \in Handles, fuseRelease(h) PROVE Session'
    BY <1>8, ReleaseSession
<1>9. ASSUME NEW h \in Handles, NEW offset \in Offsets, NEW n \in ReadSizes,
             fuseRead(h, offset, n)
      PROVE  Session'
    BY <1>9, ReadSession
<1>10. ASSUME NEW h \in Handles, NEW offset \in Offsets, NEW data \in Payloads,
              fuseWrite(h, offset, data)
       PROVE  Session'
    BY <1>10, WriteSession
<1>11. ASSUME NEW h \in Handles, NEW newSize \in NewSizes, fuseTruncateOpen(h, newSize)
       PROVE  Session'
    BY <1>11, TruncateOpenSession
<1>12. CASE Tick
    BY <1>12, TickSession
<1>13. CASE UNCHANGED vars
    BY <1>13 DEF Session, MetadataOK, HandlesFit, StorageOK, vars, meta, handles, storage
<1>14. QED BY <1>1, <1>2, <1>3, <1>4, <1>5, <1>6, <1>7, <1>8, <1>9, <1>10, <1>11,
              <1>12, <1>13 DEF Next

\* The invariant holds in every reachable state.
THEOREM SessionInvariant == ASSUME Mounted, NumbersFit PROVE Spec => []Session
<1>1. Session /\ [Next]_vars => Session'
    BY NextSession
<1>2. QED BY <1>1, InitSession, PTL DEF Spec

-----------------------------------------------------------------------------
(* The blocks of the metadata.                                             *)

\* No step writes to one of them through a file.
LEMMA NextUntouched ==
    ASSUME Mounted, NumbersFit, Session, [Next]_vars
    PROVE  Untouched(disk, disk')
<1>1. ASSUME NEW name \in Names, NEW newSize \in NewSizes, fuseTruncate(name, newSize)
      PROVE  Untouched(disk, disk')
    BY <1>1, TruncateSession
<1>2. ASSUME NEW h \in Handles, fuseRelease(h) PROVE Untouched(disk, disk')
    BY <1>2, ReleaseSession
<1>3. ASSUME NEW h \in Handles, NEW offset \in Offsets, NEW n \in ReadSizes,
             fuseRead(h, offset, n)
      PROVE  Untouched(disk, disk')
    BY <1>3, ReadSession
<1>4. ASSUME NEW h \in Handles, NEW offset \in Offsets, NEW data \in Payloads,
             fuseWrite(h, offset, data)
      PROVE  Untouched(disk, disk')
    BY <1>4, WriteSession
<1>5. ASSUME NEW h \in Handles, NEW newSize \in NewSizes, fuseTruncateOpen(h, newSize)
      PROVE  Untouched(disk, disk')
    BY <1>5, TruncateOpenSession
<1>6. ASSUME NEW name \in Names,
             \/ \E mode \in Modes : fuseMknod(name, mode)
             \/ fuseUnlink(name)
             \/ \E newName \in Names : fuseRename(name, newName)
             \/ \E mode \in Modes : fuseChmod(name, mode)
             \/ \E owner \in Owners : fuseChown(name, owner)
             \/ fuseOpen(name)
      PROVE  disk' = disk
    BY <1>6 DEF fuseMknod, fuseUnlink, fuseRename, fuseChmod, fuseChown, fuseOpen,
                Returns, Faults, storage
<1>7. Tick \/ UNCHANGED vars => disk' = disk
    BY DEF Tick, vars, storage
<1>8. disk' = disk => Untouched(disk, disk')
    BY DEF Untouched
<1>9. QED BY <1>1, <1>2, <1>3, <1>4, <1>5, <1>6, <1>7, <1>8 DEF Next

\* Bitmap, table and directory change on disk only by a dump: no write, flush
\* or read of a file, through whatever list and cache, reaches their blocks.
THEOREM MetadataSafe == ASSUME Mounted, NumbersFit PROVE Spec => MetadataBlocksUntouched
<1>1. Session /\ [Next]_vars => Untouched(disk, disk')
    BY NextUntouched
<1>2. QED BY <1>1, SessionInvariant, PTL DEF Spec, MetadataBlocksUntouched, Untouched

-----------------------------------------------------------------------------
(* The cursor.  It may begin in the metadata, where a mount can leave it,  *)
(* but no handler moves it there.                                          *)

CursorKept == nextBlock' = nextBlock \/ nextBlock' \in DataBlocks

\* A search moves the cursor behind the last block it found.
LEMMA ExtendedCursor ==
    ASSUME nextBlock \in Blocks, NEW i, NEW block, NEW n \in Nat, CanFind(flags, n),
           NEW e, e = Extended(i, block, n)
    PROVE  e.nextBlock = nextBlock \/ e.nextBlock \in DataBlocks
<1>1. CASE n = 0
    BY <1>1 DEF Extended
<1>2. CASE n # 0
    <2> DEFINE new == findNFreeBlocks(flags, nextBlock, n)
    <2>1. new \in [1..n -> Blocks]
        <3>1. new \in [1..n -> FreeBlocks(flags)]
            BY FindNFreeBlocks
        <3>2. QED BY <3>1 DEF FreeBlocks
    <2> HIDE DEF new
    <2>2. CursorAfter(new) \in DataBlocks
        BY <1>2, <2>1, CursorInDataArea
    <2>3. e.nextBlock = CursorAfter(new)
        BY <1>2 DEF Extended, new
    <2>4. QED BY <2>2, <2>3
<1>3. QED BY <1>1, <1>2

\* Both fuseTruncate search for the blocks their file lacks, if any.
LEMMA SetSizeCursor ==
    ASSUME Session, NumbersFit, NEW i \in Entries, NEW newSize \in NewSizes,
           CanFind(flags, BlocksToAdd(i, newSize)), SetSize(i, newSize)
    PROVE  CursorKept
<1> DEFINE r == Resized(i, newSize)
           e == Extended(i, root[i].firstBlock, BlocksToAdd(i, newSize))
<1>1. nextBlock' = r.nextBlock
    BY DEF SetSize
<1>2. BlocksToAdd(i, newSize) \in Nat
    <2>1. newSize \in 0..MaxSize /\ root[i].size \in 0..MaxSize
        <3>1. root[i].size \in Nat /\ root[i].size <= MaxSize
            BY DEF Session, MetadataOK, Metadata, Files
        <3>2. QED BY <3>1, OnDiskFSAssumption
    <2>2. BlocksFor(newSize) \in Nat /\ BlocksFor(root[i].size) \in Nat
        BY <2>1, BlocksForExact DEF NumbersFit
    <2>3. QED BY <2>2 DEF BlocksToAdd
<1>3. r.nextBlock = nextBlock \/ r = e
    BY DEF Resized
<1>4. e.nextBlock = nextBlock \/ e.nextBlock \in DataBlocks
    <2>1. nextBlock \in Blocks
        BY DEF Session, MetadataOK
    <2> HIDE DEF e
    <2>2. e = Extended(i, root[i].firstBlock, BlocksToAdd(i, newSize))
        BY DEF e
    <2>3. QED BY <1>2, <2>1, <2>2, ExtendedCursor
<1>5. QED BY <1>1, <1>3, <1>4 DEF CursorKept

\* fuseWrite searches for the blocks the list of its handle lacks.
LEMMA WriteCursor ==
    ASSUME Session, NumbersFit, NEW h \in Handles, NEW offset \in Offsets,
           NEW data \in Payloads, fuseWrite(h, offset, data)
    PROVE  CursorKept
<1> DEFINE list == openFiles[h].blockList
           missing == BlocksMissing(h, offset, Len(data))
           e == Extended(fileOf(h), list[Len(list)], missing)
<1>1. \/ nextBlock' = nextBlock
      \/ nextBlock' = e.nextBlock /\ CanFind(flags, missing)
    <2>1. CASE ~CanFind(flags, missing)
        <3>1. Returns("write", -ENOSPC)
            BY <2>1 DEF fuseWrite
        <3>2. QED BY <3>1 DEF Returns, meta
    <2>2. CASE CanFind(flags, missing) /\ WriteFaults(h, offset, Len(data))
        <3>1. Faults
            BY <2>2, Zenon DEF fuseWrite
        <3>2. QED BY <3>1 DEF Faults, meta
    <2>3. CASE CanFind(flags, missing) /\ ~WriteFaults(h, offset, Len(data))
        BY <2>3, Zenon DEF fuseWrite
    <2>4. QED BY <2>1, <2>2, <2>3
<1>2. missing \in Nat
    <2>1. /\ opened[h] # NoName /\ offset + Len(data) <= MaxSize
          /\ offset \in Nat /\ Len(data) \in Nat \ {0}
        BY OnDiskFSAssumption DEF fuseWrite
    <2>2. /\ list \in BlockLists /\ Len(list) = Needed(root[fileOf(h)].size)
          /\ root[fileOf(h)].size \in 0..MaxSize
        BY <2>1, OpenHandle
    <2> DEFINE n == Len(data)
    <2>3. /\ opened[h] # NoName /\ offset + n <= MaxSize
          /\ offset \in Nat /\ n \in Nat \ {0} /\ missing = BlocksMissing(h, offset, n)
        BY <2>1
    <2> HIDE DEF n, missing, list
    <2>4. openFiles[h].blockList \in BlockLists
          /\ Len(openFiles[h].blockList) = Needed(root[fileOf(h)].size)
        BY <2>2 DEF list
    <2>5. QED BY <2>2, <2>3, <2>4, BlocksMissingExact, SMTT(30)
<1>3. nextBlock \in Blocks
    BY DEF Session, MetadataOK
<1>4. e = Extended(fileOf(h), list[Len(list)], missing)
    OBVIOUS
<1> HIDE DEF e, missing
<1>5. CanFind(flags, missing) => e.nextBlock = nextBlock \/ e.nextBlock \in DataBlocks
    BY <1>2, <1>3, <1>4, ExtendedCursor
<1>6. QED BY <1>1, <1>5 DEF CursorKept

\* No step moves the cursor into the metadata.
LEMMA NextCursor ==
    ASSUME NumbersFit, Session, [Next]_vars
    PROVE  CursorKept
<1>1. ASSUME NEW name \in Names, NEW newSize \in NewSizes, fuseTruncate(name, newSize)
      PROVE  CursorKept
    <2>1. \/ nextBlock' = nextBlock
          \/ /\ hasFile(root, name)
             /\ CanFind(flags, BlocksToAdd(getFile(root, name), newSize))
             /\ SetSize(getFile(root, name), newSize)
        BY <1>1 DEF fuseTruncate, Returns, Faults, meta
    <2>2. hasFile(root, name) => getFile(root, name) \in Entries
        BY GetFile
    <2>3. QED BY <2>1, <2>2, SetSizeCursor DEF CursorKept
<1>2. ASSUME NEW h \in Handles, NEW newSize \in NewSizes, fuseTruncateOpen(h, newSize)
      PROVE  CursorKept
    <2>1. \/ nextBlock' = nextBlock
          \/ /\ CanFind(flags, BlocksToAdd(fileOf(h), newSize))
             /\ SetSize(fileOf(h), newSize)
        BY <1>2 DEF fuseTruncateOpen, Returns, Faults, meta
    <2>2. fileOf(h) \in Entries
        BY <1>2, OpenHandle DEF fuseTruncateOpen
    <2>3. QED BY <2>1, <2>2, SetSizeCursor DEF CursorKept
<1>3. ASSUME NEW h \in Handles, NEW offset \in Offsets, NEW data \in Payloads,
             fuseWrite(h, offset, data)
      PROVE  CursorKept
    BY <1>3, WriteCursor
<1>4. ASSUME NEW name \in Names,
             \/ \E mode \in Modes : fuseMknod(name, mode)
             \/ fuseUnlink(name)
             \/ \E newName \in Names : fuseRename(name, newName)
             \/ \E mode \in Modes : fuseChmod(name, mode)
             \/ \E owner \in Owners : fuseChown(name, owner)
             \/ fuseOpen(name)
      PROVE  CursorKept
    BY <1>4 DEF fuseMknod, fuseUnlink, fuseRename, fuseChmod, fuseChown, fuseOpen,
                Returns, Faults, meta, CursorKept
<1>5. ASSUME NEW h \in Handles,
             \/ fuseRelease(h)
             \/ \E offset \in Offsets, n \in ReadSizes : fuseRead(h, offset, n)
      PROVE  CursorKept
    BY <1>5 DEF fuseRelease, fuseRead, Returns, Faults, meta, CursorKept
<1>6. CASE Tick \/ UNCHANGED vars
    BY <1>6 DEF Tick, vars, meta, CursorKept
<1>7. QED BY <1>1, <1>2, <1>3, <1>4, <1>5, <1>6 DEF Next

\* The chain of OnDiskFS is the one the invariant speaks of.
LEMMA ChainIs ==
    ASSUME Session, NEW i \in Entries
    PROVE  /\ Chain(i) = Chains(table, root)[i] /\ Chain(i) \in BlockLists
           /\ BlocksOf(i) = SetOfBlocks(Chains(table, root)[i])
           /\ SetOfBlocks(Chain(i)) \subseteq Blocks
<1>1. Chain(i) = Chains(table, root)[i]
    BY DEF Chain, Chains
<1>2. Chain(i) \in BlockLists
    BY <1>1, ChainFacts DEF Session, MetadataOK
<1>3. QED BY <1>1, <1>2, BlockListType DEF BlocksOf

\* What the invariant says of bitmap, table and directory, in the words of the
\* properties.
LEMMA SessionConsistent ==
    Session => ChainsFitSizes /\ BlocksHaveOneOwner /\ AllocationExact /\ UniqueNames
<1> SUFFICES ASSUME Session
             PROVE  ChainsFitSizes /\ BlocksHaveOneOwner /\ AllocationExact /\ UniqueNames
    OBVIOUS
<1>1. ChainsFitSizes
    <2> SUFFICES ASSUME NEW i \in Entries
                 PROVE  /\ WalkEnds(table, root[i].firstBlock)
                        /\ Len(Chain(i)) = Needed(root[i].size)
        BY DEF ChainsFitSizes, Needed
    <2>1. QED BY ChainIs, ChainFacts DEF Session, MetadataOK, Metadata
<1>2. BlocksHaveOneOwner
    <2> SUFFICES ASSUME NEW i \in Entries, NEW j \in Entries, i # j
                 PROVE  BlocksOf(i) \cap BlocksOf(j) = {}
        BY DEF BlocksHaveOneOwner
    <2>1. SetOfBlocks(Chains(table, root)[i]) \cap SetOfBlocks(Chains(table, root)[j]) = {}
        BY DEF Session, MetadataOK, Metadata, Layout
    <2>2. QED BY <2>1, ChainIs
<1>3. AllocationExact
    <2> SUFFICES ASSUME NEW b \in Blocks
                 PROVE  flags[b] <=> b < DATA_START \/ \E i \in Entries : b \in BlocksOf(i)
        BY DEF AllocationExact
    <2>1. flags[b] <=> b < DATA_START
                       \/ \E i \in Entries : b \in SetOfBlocks(Chains(table, root)[i])
        BY DEF Session, MetadataOK, Metadata, Layout
    <2>2. \A i \in Entries : BlocksOf(i) = SetOfBlocks(Chains(table, root)[i])
        BY ChainIs
    <2>3. QED BY <2>1, <2>2
<1>4. UniqueNames
    BY DEF Session, MetadataOK, Metadata, UniqueNames
<1>5. QED BY <1>1, <1>2, <1>3, <1>4

\* Every variable keeps the shape the code declares for it: the numbers of
\* handles in use never exceeds the size of the array, and no counter, index
\* or link leaves its range.
THEOREM TypeCorrect == ASSUME Mounted, NumbersFit PROVE Spec => []TypeOK
<1> DEFINE CursorOK == nextBlock \in DataBlocks
<1>1. Session /\ CursorOK => TypeOK
    <2> SUFFICES ASSUME Session, CursorOK PROVE TypeOK
        OBVIOUS
    <2>1. /\ flags \in [Blocks -> BOOLEAN] /\ nextBlock \in DataBlocks
          /\ table \in [Blocks -> Links] /\ root \in [Entries -> Files]
        BY DEF Session, MetadataOK, Metadata, Layout
    <2>2. /\ openFiles \in [Handles -> OpenFile]
          /\ opened \in [Handles -> Names \cup {NoName}]
        BY DEF Session, HandlesFit, HandlesOK
    <2>3. openFileCount \in 0..NUM_OPEN_FILES
        BY InUseFinite, OnDiskFSAssumption, TransferAssumption DEF Session, HandlesFit, HandlesOK
    <2>4. QED BY <2>1, <2>2, <2>3 DEF Session, StorageOK, Images, TypeOK
<1>2. Init => CursorOK
    BY InitialCursor DEF Init
<1>3. Session /\ CursorOK /\ [Next]_vars => CursorOK'
    BY NextCursor DEF CursorKept
<1> HIDE DEF CursorOK
<1>4. QED BY <1>1, <1>2, <1>3, SessionInvariant, PTL DEF Spec

\* The chain of every file ends and is as long as its size says, whatever mix
\* of writes, truncations, renames and unlinks came before.
THEOREM ChainsFit == ASSUME Mounted, NumbersFit PROVE Spec => []ChainsFitSizes
<1>1. Session => ChainsFitSizes
    BY SessionConsistent
<1>2. QED BY <1>1, SessionInvariant, PTL

\* No block is ever part of two files.
THEOREM OneOwner == ASSUME Mounted, NumbersFit PROVE Spec => []BlocksHaveOneOwner
<1>1. Session => BlocksHaveOneOwner
    BY SessionConsistent
<1>2. QED BY <1>1, SessionInvariant, PTL

\* The bitmap never leaks a block and never offers one that is in use.
THEOREM BitmapExact == ASSUME Mounted, NumbersFit PROVE Spec => []AllocationExact
<1>1. Session => AllocationExact
    BY SessionConsistent
<1>2. QED BY <1>1, SessionInvariant, PTL

\* No two files ever have the same name.
THEOREM NamesUnique == ASSUME Mounted, NumbersFit PROVE Spec => []UniqueNames
<1>1. Session => UniqueNames
    BY SessionConsistent
<1>2. QED BY <1>1, SessionInvariant, PTL

\* The block list a handle keeps from fuseOpen to fuseRelease is always the
\* chain of its file, so that reads and writes go to the blocks of that file.
THEOREM ListsCurrent == ASSUME Mounted, NumbersFit PROVE Spec => []HandleListsCurrent
<1>1. Session => HandleListsCurrent
    <2> SUFFICES ASSUME Session, NEW h \in Handles, opened[h] # NoName
                 PROVE  /\ hasFile(root, opened[h])
                        /\ openFiles[h].blockList = Chain(fileOf(h))
        BY DEF HandleListsCurrent
    <2>1. QED BY OpenHandle DEF hasFile
<1>2. QED BY <1>1, SessionInvariant, PTL

\* A block waiting in a dirty cache belongs to the file of that handle, and
\* waits there only: flushing it later never writes over another file.
THEOREM CachesOwned == ASSUME Mounted, NumbersFit PROVE Spec => []DirtyBlocksOwned
<1>1. Session => DirtyBlocksOwned
    <2> SUFFICES ASSUME Session PROVE DirtyBlocksOwned
        OBVIOUS
    <2>1. ASSUME NEW h \in Handles, openFiles[h].dirty
          PROVE  /\ opened[h] # NoName /\ fileOf(h) \in Entries
                 /\ root[fileOf(h)].name = opened[h]
                 /\ openFiles[h].blockNo \in BlocksOf(fileOf(h))
        <3>1. /\ opened[h] # NoName
              /\ openFiles[h].blockNo \in SetOfBlocks(openFiles[h].blockList)
            BY <2>1 DEF Session, HandlesFit, HandlesOK, DirtyInList
        <3>2. QED BY <3>1, OpenHandle DEF BlocksOf
    <2>2. ASSUME NEW h \in Handles, openFiles[h].dirty, NEW g \in Handles,
                 openFiles[g].dirty, openFiles[g].blockNo = openFiles[h].blockNo
          PROVE  g = h
        <3>1. /\ fileOf(h) \in Entries /\ root[fileOf(h)].name = opened[h]
              /\ fileOf(g) \in Entries /\ root[fileOf(g)].name = opened[g]
              /\ opened[h] # NoName
              /\ BlocksOf(fileOf(h)) \cap BlocksOf(fileOf(g)) # {}
            BY <2>1, <2>2
        <3>2. \A i, j \in Entries : i # j => BlocksOf(i) \cap BlocksOf(j) = {}
            <4>1. \A i \in Entries : BlocksOf(i) = SetOfBlocks(Chains(table, root)[i])
                BY ChainIs
            <4>2. \A i, j \in Entries : i # j =>
                      SetOfBlocks(Chains(table, root)[i])
                          \cap SetOfBlocks(Chains(table, root)[j]) = {}
                BY DEF Session, MetadataOK, Metadata, Layout
            <4>3. QED BY <4>1, <4>2
        <3>3. fileOf(h) = fileOf(g)
            BY <3>1, <3>2
        <3>4. opened[g] = opened[h]
            BY <3>1, <3>3
        <3>5. QED BY <3>1, <3>4 DEF Session, HandlesFit, HandlesOK
    <2>3. QED BY <2>1, <2>2 DEF DirtyBlocksOwned
<1>2. QED BY <1>1, SessionInvariant, PTL

\* No block waits in a cache.
AllClean(of) == \A h \in Handles : ~of[h].dirty

\* A sync that dumps the metadata has written every block that waited.
LEMMA DumpCleans ==
    ASSUME NEW files, NEW dk, SyncToDisk(files, dk), HandlesFit'
    PROVE  image' = image \/ AllClean(openFiles)'
<1> DEFINE clean(h) == [files[h] EXCEPT !.dirty = files[h].isFree /\ files[h].dirty]
<1>1. CASE openFiles' = [h \in Handles |-> clean(h)]
    <2>1. ASSUME NEW h \in Handles, openFiles'[h].dirty PROVE FALSE
        <3>1. openFiles'[h] = clean(h) /\ openFiles'[h] \in OpenFile /\ ~openFiles'[h].isFree
            BY <1>1, <2>1 DEF HandlesFit, HandlesOK, DirtyInList
        <3>2. clean(h).isFree = files[h].isFree
            OBVIOUS
        <3>3. "dirty" \in DOMAIN clean(h) /\ DOMAIN clean(h) = DOMAIN files[h]
            BY <3>1 DEF OpenFile
        <3>4. clean(h).dirty = (files[h].isFree /\ files[h].dirty)
            BY <3>3
        <3>5. QED BY <2>1, <3>1, <3>2, <3>4
    <2>2. QED BY <2>1 DEF AllClean
<1>2. QED BY <1>1 DEF SyncToDisk

\* What is dumped is dumped with every cache clean, whichever handler came to it.
LEMMA NextDumpsClean ==
    ASSUME HandlesFit', [Next]_vars
    PROVE  image' = image \/ AllClean(openFiles)'
<1>1. ASSUME NEW name \in Names, NEW newSize \in NewSizes, fuseTruncate(name, newSize)
      PROVE  image' = image \/ AllClean(openFiles)'
    BY <1>1, DumpCleans DEF fuseTruncate, Returns, Faults, storage
<1>2. ASSUME NEW h \in Handles, NEW newSize \in NewSizes, fuseTruncateOpen(h, newSize)
      PROVE  image' = image \/ AllClean(openFiles)'
    BY <1>2, DumpCleans DEF fuseTruncateOpen, Returns, Faults, storage
<1>3. ASSUME NEW h \in Handles, NEW offset \in Offsets, NEW data \in Payloads,
             fuseWrite(h, offset, data)
      PROVE  image' = image \/ AllClean(openFiles)'
    BY <1>3, DumpCleans DEF fuseWrite, Returns, Faults, storage
<1>4. ASSUME NEW name \in Names,
             \/ \E mode \in Modes : fuseMknod(name, mode)
             \/ fuseUnlink(name)
             \/ \E newName \in Names : fuseRename(name, newName)
             \/ \E mode \in Modes : fuseChmod(name, mode)
             \/ \E owner \in Owners : fuseChown(name, owner)
             \/ fuseOpen(name)
      PROVE  image' = image
    BY <1>4 DEF fuseMknod, fuseUnlink, fuseRename, fuseChmod, fuseChown, fuseOpen,
                Returns, Faults, storage
<1>5. ASSUME NEW h \in Handles,
             \/ fuseRelease(h)
             \/ \E offset \in Offsets, n \in ReadSizes : fuseRead(h, offset, n)
      PROVE  image' = image
    BY <1>5 DEF fuseRelease, fuseRead, Returns, Faults, storage
<1>6. CASE Tick \/ UNCHANGED vars
    BY <1>6 DEF Tick, vars, storage
<1>7. QED BY <1>1, <1>2, <1>3, <1>4, <1>5, <1>6 DEF Next

\* When a dump begins, no file it describes has contents that wait in a cache:
\* however many handles wrote, and whichever call the dump came with.
THEOREM SyncComplete == ASSUME Mounted, NumbersFit PROVE Spec => SyncLeavesNothingBehind
<1>1. Session' /\ [Next]_vars /\ image' # image =>
          \A i \in Entries : ContentsOnDisk(i)' = Contents(i)'
    <2> SUFFICES ASSUME Session', [Next]_vars, image' # image, NEW i \in Entries
                 PROVE  ContentsOnDisk(i)' = Contents(i)'
        OBVIOUS
    <2>1. AllClean(openFiles)'
        BY NextDumpsClean DEF Session
    <2>2. \A b : CurrentBlock(b)' = disk'[b]
        BY <2>1 DEF AllClean, CurrentBlock, Holders
    <2>3. QED BY <2>2 DEF ContentsOnDisk, Contents, BytesOf
<1>2. QED BY <1>1, SessionInvariant, PTL DEF Spec, SyncLeavesNothingBehind

-----------------------------------------------------------------------------
(* One file at a time.                                                     *)

\* All files but those of one name are all entries but one.
LEMMA OthersIsolated ==
    ASSUME Session, NEW name, name # NoName, KeepsOthers(name)
    PROVE  Isolated
<1>1. \A i, j \in Entries : root[i].name = name /\ root[j].name = name => i = j
    BY DEF Session, MetadataOK, Metadata
<1>2. PICK i \in Entries : (\E j \in Entries : root[j].name = name) => root[i].name = name
    BY RootAssumption DEF Entries
<1>3. QED BY <1>1, <1>2 DEF KeepsOthers, Isolated

\* A step that keeps all files is isolated.
LEMMA AllIsolated == KeepsAll => Isolated
BY RootAssumption DEF KeepsAll, Isolated, Entries

\* Every step leaves all entries but one alone.
LEMMA NextIsolated ==
    ASSUME Mounted, NumbersFit, Session, [Next]_vars
    PROVE  Isolated
<1>1. ASSUME NEW name \in Names, NEW mode \in Modes, fuseMknod(name, mode)
      PROVE  Isolated
    BY <1>1, MknodSession, AllIsolated
<1>2. ASSUME NEW name \in Names, fuseUnlink(name) PROVE Isolated
    BY <1>2, UnlinkSession, OthersIsolated, RootAssumption
<1>3. ASSUME NEW name \in Names, NEW newName \in Names, fuseRename(name, newName)
      PROVE  Isolated
    BY <1>3, RenameSession, OthersIsolated, RootAssumption
<1>4. ASSUME NEW name \in Names, NEW mode \in Modes, fuseChmod(name, mode)
      PROVE  Isolated
    BY <1>4, ChmodSession, AllIsolated
<1>5. ASSUME NEW name \in Names, NEW owner \in Owners, fuseChown(name, owner)
      PROVE  Isolated
    BY <1>5, ChownSession, AllIsolated
<1>6. ASSUME NEW name \in Names, fuseOpen(name) PROVE Isolated
    BY <1>6, OpenSession, AllIsolated
<1>7. ASSUME NEW name \in Names, NEW newSize \in NewSizes, fuseTruncate(name, newSize)
      PROVE  Isolated
    BY <1>7, TruncateSession, OthersIsolated, RootAssumption
<1>8. ASSUME NEW h \in Handles, fuseRelease(h) PROVE Isolated
    BY <1>8, ReleaseSession, AllIsolated
<1>9. ASSUME NEW h \in Handles, NEW offset \in Offsets, NEW n \in ReadSizes,
             fuseRead(h, offset, n)
      PROVE  Isolated
    BY <1>9, ReadSession, AllIsolated
<1>10. ASSUME NEW h \in Handles, NEW offset \in Offsets, NEW data \in Payloads,
              fuseWrite(h, offset, data)
       PROVE  Isolated
    <2>1. opened[h] # NoName
        BY <1>10 DEF fuseWrite
    <2>2. QED BY <1>10, <2>1, WriteSession, OthersIsolated
<1>11. ASSUME NEW h \in Handles, NEW newSize \in NewSizes, fuseTruncateOpen(h, newSize)
       PROVE  Isolated
    <2>1. opened[h] # NoName
        BY <1>11 DEF fuseTruncateOpen
    <2>2. QED BY <1>11, <2>1, TruncateOpenSession, OthersIsolated
<1>12. CASE Tick \/ UNCHANGED vars
    BY <1>12, NothingChanges, AllIsolated DEF Tick, vars, handles, storage
<1>13. QED BY <1>1, <1>2, <1>3, <1>4, <1>5, <1>6, <1>7, <1>8, <1>9, <1>10, <1>11,
              <1>12 DEF Next

\* The bytes of a file are those of its blocks up to its size, none from
\* elsewhere: the chain is as long as the size says.
LEMMA SameContents ==
    ASSUME Session, NEW j \in Entries, KeepsFile(j)
    PROVE  Contents(j)' = Contents(j)
<1> DEFINE list == Chains(table, root)[j]
           size == root[j].size
           Bytes(l, n, of, dk) ==
               [k \in 1..n |-> SeenAs(of, dk, l[(k - 1) \div BLOCK_SIZE + 1])
                                  [(k - 1) % BLOCK_SIZE]]
<1>1. Contents(j) = Bytes(list, size, openFiles, disk)
    <2>1. list = Chain(j)
        BY DEF Chain, Chains
    <2>2. \A b : CurrentBlock(b) = SeenAs(openFiles, disk, b)
        BY DEF CurrentBlock, Holders, SeenAs, Waiting, AnyOf
    <2> HIDE DEF list
    <2>3. QED BY <2>1, <2>2 DEF Contents, BytesOf
<1>2. Contents(j)' = Bytes(Chains(table', root')[j], root'[j].size, openFiles', disk')
    BY DEF Contents, BytesOf, Chain, Chains, CurrentBlock, Holders, SeenAs, Waiting, AnyOf
<1>3. size \in Nat /\ list \in BlockLists /\ Len(list) = Needed(size)
    BY ChainFacts DEF Session, MetadataOK, Metadata, Files
<1>4. \A b \in SetOfBlocks(list) : SeenAs(openFiles', disk', b) = SeenAs(openFiles, disk, b)
    BY DEF KeepsFile, CurrentBlock, Holders, SeenAs, Waiting, AnyOf
<1>5. Chains(table', root')[j] = list /\ root'[j].size = size
    BY DEF KeepsFile
<1> HIDE DEF list, size
<1>6. ASSUME NEW k \in 1..size
      PROVE  list[(k - 1) \div BLOCK_SIZE + 1] \in SetOfBlocks(list)
    <2>1. BLOCK_SIZE \in Nat \ {0} /\ size # 0 /\ k - 1 \in Nat /\ size - 1 \in Nat
          /\ k - 1 <= size - 1
        BY <1>3, TransferAssumption
    <2>2. (k - 1) \div BLOCK_SIZE \in Nat
        BY <2>1, DivMod
    <2>3. (k - 1) \div BLOCK_SIZE <= (size - 1) \div BLOCK_SIZE
        BY <2>1, DivMonotonic
    <2>4. Len(list) = (size - 1) \div BLOCK_SIZE + 1 /\ Len(list) \in Nat
        BY <1>3, <2>1, NeededType
    <2>5. \A p \in 1..Len(list) : list[p] \in SetOfBlocks(list)
        BY <1>3, BlockListType
    <2>6. (size - 1) \div BLOCK_SIZE \in Nat
        BY <2>1, DivMod
    <2>7. (k - 1) \div BLOCK_SIZE + 1 \in 1..Len(list)
        BY <2>2, <2>3, <2>4, <2>6
    <2>8. QED BY <2>5, <2>7
<1>7. Bytes(list, size, openFiles', disk') = Bytes(list, size, openFiles, disk)
    BY <1>4, <1>6
<1>8. QED BY <1>1, <1>2, <1>5, <1>7

\* Whatever is allocated, freed, flushed or dumped on the way: the bytes of at
\* most one file change in a step, for any number of handles, files and blocks.
THEOREM FilesApart == ASSUME Mounted, NumbersFit PROVE Spec => OneFileAtATime
<1>1. Session /\ [Next]_vars =>
          \A i, j \in Entries : i < j => Contents(i)' = Contents(i) \/ Contents(j)' = Contents(j)
    <2> SUFFICES ASSUME Session, [Next]_vars, NEW i \in Entries, NEW j \in Entries, i < j
                 PROVE  Contents(i)' = Contents(i) \/ Contents(j)' = Contents(j)
        OBVIOUS
    <2>1. i # j
        BY RootAssumption DEF Entries
    <2>2. KeepsFile(i) \/ KeepsFile(j)
        BY <2>1, NextIsolated DEF Isolated
    <2>3. QED BY <2>2, SameContents
<1>2. QED BY <1>1, SessionInvariant, PTL DEF Spec, OneFileAtATime

-----------------------------------------------------------------------------
(* The handles.                                                            *)

\* openFileCount is the number of handles in use, the ones libfuse holds.
THEOREM CountExact == ASSUME Mounted, NumbersFit PROVE Spec => []OpenCountExact
<1>1. Session => OpenCountExact
    BY DEF Session, HandlesFit, HandlesOK, InUse, OpenCountExact
<1>2. QED BY <1>1, SessionInvariant, PTL

\* No handler throws, indexes past a block list or follows a chain for ever.
THEOREM NeverFaults == ASSUME Mounted, NumbersFit PROVE Spec => []NoFault
<1>1. Session => NoFault
    BY DEF Session, NoFault
<1>2. QED BY <1>1, SessionInvariant, PTL
=============================================================================
