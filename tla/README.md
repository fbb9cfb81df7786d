# A verification project for bslab-simplefs

TLA+ models, TLC runs and TLAPS proofs for the two FUSE file systems of this
repository: `MyOnDiskFS`, which keeps a bitmap, a file allocation table and a
directory in a container file, and `MyInMemoryFS`, which keeps a map from paths
to vectors. Paths below are relative to the repository.

## 1. The system

| Component | State | Operations | Correct when |
|---|---|---|---|
| `MyOnDiskFS` handlers (`src/myondiskfs.cpp`) | array of open files (`isFree`, `dirty`, `blockNo`, `buffer`, `blockList`), `openFileCount`, `lastMetadataWrite` | fuseMknod, Unlink, Rename, Chmod, Chown, Open, Release, Read, Write, two Truncates; cacheBlock, flushCache, syncToDisk | reads return what was last written; a failed call changes nothing; one file's operations leave the others alone; nothing throws or indexes past a list |
| Free-block bitmap (`src/Dmap.cpp`) | `flags`, search cursor `nextBlock` | findNFreeBlocks, markUsed, markFree, countFreeBlocks, serialize, deserialize | hands out only free blocks, all different, whenever there are enough |
| File allocation table (`src/Fat.cpp`) | one link per block | getBlockList, getLastBlock, allocateBlock, appendBlock, truncate, serialize, deserialize | chains end and do not meet |
| Directory (`src/Root.cpp`, `src/OnDiskFile.cpp`) | entries with name, first block, size, mode, owner | mknod, unlink, getFile, hasFile, isFull, setters, serialize, deserialize | names are unique, sizes agree with chains |
| syncToDisk | time of the last dump, the image in the container | throttled flush of caches and dump of bitmap, table, directory | an image never describes contents that are not on disk |
| Superblock (`src/Superblock.cpp`) | where each structure begins | init | structures do not overlap and fit |
| Mount and unmount (fuseInit, readMetadata, fuseDestroy) | - | new container, existing container, final sync | a session finds what the last dump left, and that is consistent |
| `BlockDevice` | the container file | read, write a block | a read returns the last write, and a failure is reported |
| `MyInMemoryFS`, `File` | map of files, `openFileCount` | the same handlers, by path | as for `MyOnDiskFS` |
| FUSE glue (`wrap.cpp`, `myfs.cpp`, `mount.myfs.c`) | none | forwards callbacks | - |
| libfuse, kernel (external) | which handles are open and on which path | lookups, hidden names for unlinked open files | - |

**How they interact.** libfuse calls a handler with a path, and for open files
with the number of the handle in `fi->fh`. A handler finds the directory entry
by name, walks its chain in the table, asks the bitmap for blocks, moves data
between the caller's buffer, the one-block cache of the handle and the block
device, and (write and truncate) ends with `syncToDisk`. That flushes every
dirty cache and writes bitmap, table and directory, in this order and block by
block, behind the superblock. `fuseInit` reads the three back, `fuseDestroy`
tries one last `syncToDisk`. There are no callbacks and no locks:
`mount.myfs.c:180` adds `-s`, so libfuse runs one handler at a time, and a
handler is one atomic step of the models unless a process dies inside it.

**What is hard.** Not threads, but everything that is kept from one call to the
next. In a handle: the block list read at open, the cached block and its dirty
mark, which outlives the handle itself, while other handles and path calls
allocate, free, truncate and rename. In the container: metadata as of the last
dump, next to blocks that were written since, and a process that may end at any
time, also between two blocks of a dump. Next to that: two ways to count a
file's blocks (by size in fuseTruncate, by list in fuseWrite), searches that
wrap around and begin where a mount or the last search left the cursor, failed
calls that have already flushed something, a sync that is throttled by the
clock and comes at the end of some handlers only, device errors nobody looks
at, and arithmetic cut to `uint32_t`. The list of hazards in `PROJECT.json`
gives each one its line and the properties that bear on it.

## 2. The modules

| Module | Models | Notes |
|---|---|---|
| `Container` | block numbers | shared by all on-disk modules |
| `Dmap` | `Dmap.cpp` | pure operators; the search is the first n free blocks in scan order from the cursor |
| `Fat` | `Fat.cpp` | a walk is the unique `IsChain` list from a block; `WalkEnds` says whether it exists |
| `Root` | `Root.cpp`, `OnDiskFile.cpp` | entries as records, names as model values |
| `Transfer` | caches and data loops of `myondiskfs.cpp` | operators on a record of an open handle and the container |
| `OnDiskFS` | `myondiskfs.cpp` | the state machine of a session; extends `Root`, `Fat`, `Dmap`, `Transfer` |
| `Layout` | `Superblock.cpp`, serialize and deserialize | where each flag, link and entry lies, what is left of them after a mount, and of a dump cut short (`Torn`) |
| `Sessions` | fuseInit, readMetadata, fuseDestroy, kills | sessions one after the other on one container; composes `OnDiskFS` and `Layout` |
| `DmapLoops`, `FatLoops`, `TransferLoops` | the loops behind the operators | one step per block; compared with `Dmap`, `Fat` and `Transfer` |
| `Loops` | - | one call of any of these loops: the three, side by side, and what they promise |
| `FileStore` | what the comments on the handlers promise | the abstract specification: names, bytes, mode, owner |
| `DurableStore` | what outlives a session | `FileStore` with saving and restarts |
| `InMemoryFS` | `myinmemoryfs.cpp`, `File.cpp` | the second implementation of `FileStore` |
| `MCStructure`, `MCData`, `MCSessions`, `MCMemory`, `MCLoops` | - | payloads, symmetry and views for TLC |
| `BlockProofs`, `TransferProofs`, `StructureProofs`, `OnDiskFSProofs`, `ContentsProofs`, `SessionsProofs`, `InMemoryProofs`, `LoopsProofs` | - | section 4 |

**OnDiskFS, state and code.** `flags` and `nextBlock` are the members of `dmap`,
`table` that of `fat`, `root` that of the directory; `openFiles` has the fields
of `struct OpenFile`; `disk` is the container by block number and `image` the
three structures as they were last dumped; `idle` counts the time since
`lastMetadataWrite` in ticks, up to `SYNC_INTERVAL` (1000 ms). `opened` is not
in the code: it is what libfuse and the kernel know, the path behind each
handle. `reply` is what the last handler returned, and `fault` is set where the
code would throw out of a handler, index a vector out of range or walk for ever;
nothing in that process is modelled after that.

Each handler is one action with its early returns as disjuncts. An action
contains everything its handler does: `fuseWrite` searches, marks, links,
updates the cached list, copies through the cache and ends with `SyncToDisk`.
The exception of `findNFreeBlocks` is the guard `CanFind`, the answer `-ENOSPC`.
The loops inside a handler appear as their result: `ReadData` and
`WriteData` give the first block through the cache, the full blocks past it and
the rest through the cache again, and `Linked` and `appendBlocks` stand for a
loop of `appendBlock` calls. That the loops have these results is what run
`loops` checks and `LoopsProofs` proves.

Some oddities of the code are in the model because they are in the code: the
existence check of `fuseMknod` never finds anything (it looks for the path
with its "/"); `fuseRename` unlinks an existing target before it looks the file up,
so that a rename of a name onto itself throws, unless a second entry has the name,
and does not check the length of the new name; `fuseTruncate` by path answers `+ENOENT`; the first
`syncToDisk` of a new container is skipped, so `image` begins as zeroes;
`fuseOpen` resets neither `blockNo` nor `buffer` of a slot.

**Sessions.** Nothing happens to a container between two sessions, so the end of
one and the `fuseInit` of the next are one step. `Remount` is a `fuseDestroy` that
dumps, whether files are open or not (libfuse also calls it when a signal ends its
loop). `Crash` is every other end: a kill between two calls or inside one, a handler
that threw, or a `fuseDestroy` whose `syncToDisk` is skipped. What a kill inside a
call leaves of the metadata is the last image; of the blocks, one of the states in
`InACall`: those a sync goes through from cache to cache before it dumps (`InSync`),
those a write goes through from block to block and in its sync (`InWrite`), those of
a truncation by handle, which flushes its cache first (`InTruncate`). No other
handler writes to the container more than once.
`Mount` is `readMetadata`: the table as it is, the bitmap without a last
byte that is not full, the cursor at the first byte that is not `0xFF`, names
cut to what one byte can count. `visible` and `atRisk` are history: the files
as readers see them, and the names whose files changed since the last dump. A kill
inside a dump, between two of its blocks, is not followed into the next session but judged on the spot:
`TearingKeepsOwners` looks, at every step that dumps, at each image the
container may hold in between.

**What callers may do.** The guards of the actions say what the kernel and libfuse
guarantee: a handle is read, written and released only between its open and
its release; a file that is open is hidden under another name before it is
unlinked or replaced; a name is looked up before mknod, rename and truncate.
Constants relax or restrict that:

* `SharedFiles`: a file may be opened again while it is open, and truncated by path
  while it is open. Real programs do both.
* `DirectCalls`: mknod, rename and truncate are called without the kernel looking
  the names up first, and a rename may be of a name onto itself.
* `Hasty`: a process may end before its first dump.
* `DeviceFails`: any access to the block device may fail.
* `ReplacingRenames`, for `InMemoryFS`: renames may have a target that exists.
* `FirstCounts`, for `InMemoryFS`: what `openFileCount`, which no constructor
  initialises (`includes/myinmemoryfs.h:30`), holds at first. The run takes 0; with
  a large value no file can be opened at all.

**FileStore and DurableStore.** One action per kind of call; a failing call
(negative code, no data) changes nothing, a read returns exactly the bytes there
are, a write or truncation fixes the bytes it writes and those it keeps. Bytes
by which a file grows without being written are arbitrary: `MyOnDiskFS` shows
what the blocks held before, which the comment on `fuseTruncate` allows ("random
values"), `MyInMemoryFS` fills with zero. `OnDiskFS` and `InMemoryFS` each
instantiate it with a refinement mapping (`Store`): for `OnDiskFS` the bytes of
a file are its chain, with a dirty cached block in place of the one on disk.
`DurableStore` adds that a call may save everything, and a restart brings back
the saved attributes of every file and the contents of those that no call
changed since; a restart in the middle of a write may leave some of its bytes in
the file it names, each at its place, and in no other. `Sessions` implements it.

## 3. The runs

A run that passes explores all states within its bounds.

| Run | Configuration | Question | Answer |
|---|---|---|---|
| `structure` | `MCStructure.cfg` | Do bitmap, table, directory, handles and caches stay consistent in a mounted session with two open files? | yes: nine invariants |
| `data` | `MCData.cfg` | Do the handlers implement `FileStore`, is every read current, does no file write to a metadata block, does a dump never run ahead of the contents, does a step change one file at most, does a handle's own work never leave the block it keeps behind the container? | yes, with two handles, in the histories of `FreshSpec` (`stale_slot` has the others) |
| `direct` | `Direct.cfg` | What survives calls without lookups? | blocks are neither leaked nor shared, though names are no longer unique |
| `shared` | `Shared.cfg` | What survives two handles on one file? | no two files ever share a block; handlers do fault |
| `loops` | `Loops.cfg` | Do the loops, block by block, do what `Dmap`, `Fat` and `Transfer` say, and end? | yes, from every state they may be called in |
| `memory` | `Memory.cfg` | Does the in-memory file system implement `FileStore` and count its opens? | yes, if no rename has an existing target and the count starts at 0 |
| `sessions` | `Sessions.cfg` | Does every mount find consistent metadata, after unmounts and after kills between or inside calls, and is only lost what changed since the last dump or was being written? What does a kill inside a dump leave? | yes, once a first dump was made; sound chains, if the dump only adds blocks and the table is whole |
| `stale_slot` | `StaleSlot.cfg` | Is a read current when a slot is used again? | no |
| `shared_caches` | `SharedCaches.cfg` | Does a dirty block always belong to the file of its handle, with files opened twice or truncated by path? | no |
| `memory_rename` | `MemoryRename.cfg` | Does a rename replace its target? | no |
| `fresh` | `Fresh.cfg` | Is the metadata marked in the second session of a new container? | no |
| `write_error` | `WriteError.cfg` | Are the bytes a write reports in the file, with a device that may fail? | no |

### Bounds

* `structure`: five blocks, of which one is metadata; blocks of two bytes; two
  names, two entries, two handles; sizes up to 5 (three blocks). Two files of
  up to three blocks compete for four, so that `ENOSPC` is met with every
  split, chains interleave, and both copies past the cache and through it occur:
  a payload of five bytes covers a head, a full block and a rest, at an offset
  of 0 (aligned) and of 3 (unaligned, and behind the end of short files, so that
  a gap is allocated). Truncation to 0, 2 and 5 gives the empty chain, a size on
  a block boundary and growth by several blocks. One byte value is enough since no
  property of this run looks at contents.
* `data`: four blocks, one of them metadata, blocks of two bytes; two names, two
  handles, two byte values. Payloads are one byte, and five bytes that cover a head, a
  full block and a rest and hold the byte a new container holds next to another; writes
  at offset 0, a read of five bytes, truncation to 0. So a file takes one block or all
  three, writes meet `ENOSPC`, a block goes from one file and one handle to the next
  through unlink and truncation, and a slot is used again by another file. Offsets inside a
  file and cuts at other sizes are left to `structure`, `loops` and the theorems. The
  specification is `FreshSpec`: without its condition the answer is that of
  `stale_slot`, with two handles or more.
* `direct`: no handle, and a name that is too long; it is the run with the
  error paths that a kernel would not let through.
* `shared`: blocks of one byte, three data blocks, sizes up to 2.
* `loops`, `write_error`: five blocks, one of them metadata, blocks of two bytes.
  Searches from every bitmap, cursor and number of blocks wanted; walks and
  appends of up to two blocks (`MaxNew`) from every table that has the chain; transfers
  of every offset and size within files of one to four blocks, with every block, or
  none, in the cache, clean, dirty or stale. All bytes differ, so that no mix-up goes
  unseen. Four blocks give two full ones between head and rest.
* `memory`: two names and one that is too long, two entries, two opens, offsets
  inside, at and behind the end.
* `sessions`, `fresh`: four blocks, two of them metadata, blocks of one byte, two
  names, one handle, two byte values. Bytes of two bits and two bytes of bitmap
  to a block: one byte of the bitmap is metadata, so that after a mount the cursor
  is at a data block, or at 0 when all are full. A dump has five blocks, of which one
  holds the bitmap, two the table with two links each, and two the entries.
  Payloads have two blocks at most, so that a kill inside a write comes before its
  head, between head and rest, or after the transfer; `InTransfer` has kills between
  middle blocks as well, which need a third data block.
  That the metadata would need more blocks than `DATA_START` leaves it
  is no matter: `disk` and `image` are kept apart here, as they are in the container by
  `MetadataBlocksUntouched`.
* `stale_slot`, `shared_caches`, `memory_rename`: the smallest instances that show
  the behaviour, or those of the passing run with one constant changed.

`WORD` stands for 2^32 and is above every count in all runs.

**Views.** `MCStructure`, `MCData` and `MCSessions` give TLC a view that leaves
out what no handler reads before it writes it: the reply, the block list of a free
handle, and the table entries of free blocks; where there is no remount, the
image; in `MCStructure`, where there is one byte value, which block a clean
cache holds; the contents of free blocks, in `MCSessions` of those that the image has
as free, too, and in `MCData` of those that no handle keeps, since every byte by which
a file grows there is written. In
`structure` and `data` the order of the directory entries is left out too, which
nothing depends on while names are unique, and in `structure` the order of the
handles, which nothing depends on while a block is dirty in one cache only; `direct`
and `shared_caches`, where that need not be, keep both (`OrderedView`).
`ChainView`, for the run `shared`, keeps only what decides the chains: not the
caches, the contents, the clock and the names, and of block numbers how far they are
from the cursor, since the search goes round. Properties that relate two states are
still evaluated on each step. **Symmetry** permutes two names that occur in no other
constant; none of the runs that use it checks liveness.

### Fairness and termination

`Loops` assumes weak fairness of its whole next-state relation and nothing
else: the loops are plain code of one thread and run on. Under it the search and
every append end, and a walk ends on every chain that does. Nothing obliges a
program to make a call, nor the clock to pass a point at which the file system
acts on its own, nor a process to end, so `OnDiskFS`, `Sessions` and `InMemoryFS`
state no liveness. That a dump is made in the end does not hold of this code: calls
less than a second apart put it off for ever. Two kinds of run really stop, and
switch off the deadlock check: those of loops, which end, and those in which a
handler may fault (`direct`, where a rename of a name onto itself throws unless another
entry has it, `shared`, `shared_caches`).

### Findings

1. `stale_slot`: `cacheBlock` (`src/myondiskfs.cpp:827`) takes the buffer of a
   released handle for the block's current content; a later user of the slot reads
   old bytes, and puts them back on disk with a partial write. A release is not even
   needed: a handle that cut its own file keeps the freed block in its buffer, and
   if another file writes that block and frees it, the first may grow into it again.
2. `shared_caches`: `fuseTruncate` by path (`src/myondiskfs.cpp:551`) frees blocks
   that wait in the dirty cache of an open handle.
3. `memory_rename`: `std::map::insert` (`src/myinmemoryfs.cpp:127`) does not replace
   the target of a rename.
4. `fresh`: the first dump of a new container is skipped
   (`src/myondiskfs.cpp:683`), and a session that ends before another one leaves a
   bitmap of zeroes: the next hands out the block of the superblock.
5. `write_error`: `fuseWrite` reports bytes as written that the device refused
   (`src/myondiskfs.cpp:842`).

Seen while modelling, without a run of their own: block counts are cut to
`uint32_t` (`src/myondiskfs.cpp:514`), so that a size from 2 TiB on is set
without its blocks; and the uninitialised `openFileCount` of `MyInMemoryFS`.

## 4. The proofs

`OnDiskFSProofs` proves, for every container, directory, number of handles and
set of arguments, that the nine invariants of run `structure` are invariants of
`OnDiskFS!Spec`, and three of its action properties: `MetadataBlocksUntouched`, that
no handler changes a block of the metadata; `SyncLeavesNothingBehind`, that a dump
never runs ahead of the contents; and `OneFileAtATime`, that a step changes the bytes
of one file at most. `ContentsProofs` is about the bytes, for any number of handles:
`OnlyOthersMakeStale`, that no handle's own work leaves its cache behind the container;
and in the histories of `FreshSpec`, `ReadsCurrent` and that `OnDiskFS` implements
`FileStore`. `SessionsProofs` carries that over from one session to the
next: `SessionsConsistent`, `MetadataMarked` and `TearingKeepsOwners`.
`InMemoryProofs` proves `OpenFilesExist`, `CountsExact` and that `InMemoryFS`
implements `FileStore`. `LoopsProofs` proves that the loops of the source, block by
block, return what the operators of `Dmap`, `Fat` and `Transfer` say, from every
state they may be called in and for any number of blocks.

**Assumptions.**

* `Mounted`: `~SharedFiles /\ ~DirectCalls`. The runs `shared_caches` and `direct`
  show why: handles go stale, names are not unique.
* `NumbersFit`: `MaxSize` takes at most `WORD - 1` blocks, and a read asks for
  fewer than `WORD` bytes. Beyond that chains do not fit sizes.
* `FreshSpec`, for reads and the refinement of `FileStore`: the histories in which
  each step meets `TakesNoStaleBlock`, that no handle gets a block into its list of
  which its buffer holds another version. It is a condition on histories and not on
  constants, for it is just what finding 1 breaks and a repair of `cacheBlock` has to
  establish. All other theorems on `OnDiskFS` are about `Spec`, every history.
* `NoName`, which also stands for a file that is not there, is no file
  (`OnDiskFSAssumption`).
* `Careful`, for sessions: the first dump is made (run `fresh` shows why), no two
  names share what is stored of them, and the bytes of the bitmap divide the links
  of a block of the table. In the program these are 8 and 128, and since
  `Fat::deserialize` refuses a table that does not fill its blocks, the bitmap
  of every container that can be mounted fills its bytes: `Dmap::serialize` then
  loses no flag.
* `~ReplacingRenames`, for the refinement of `InMemoryFS` (run `memory_rename`
  shows why), and for nothing else.
* `FirstCounts = {0}`, for `CountsExact`: the code does not initialise the count.
* `~DeviceFails`, for the two theorems on the data loops (run `write_error` shows
  why).

**The invariant.** Most of the nine are not inductive by themselves. A truncation that cuts one
chain keeps the others only if they do not meet; an allocation keeps chains
apart only if the bitmap is exact; a write puts the right block on disk only if
the list of its handle is current; and a handler does not fault only if the list is as
long as the size says. `Session` is therefore their conjunction in a form that
names the chains: `Metadata` (there is a function from entries to chains that end, are
disjoint, fit the sizes and are what the bitmap marks; names are unique),
`HandlesOK` (each handle in use has an existing name, the chain as its list, no
file has two, a dirty block is in the list, and the count is right), and
the types of the storage, reply and fault. The cursor is only known to be a
block: after a mount it may lie in the metadata, and the search copes.

For sessions it is `Reachable`: `Session`, and `Metadata` of the image once it is
anything but zeroes (`ImageOK`). A dump copies a state with `Metadata`; a mount
reads it, and what it loses (the last partial byte, long names) is nothing under
`Careful`; the new process has no handle open, so `HandlesOK` begins afresh.

**The argument**, bottom up, each module extending the one before:

1. `BlockProofs`: the first n free blocks in scan order exist when there are n, are
   free and different, and lie in the data area when the metadata is marked. Chains
   are unique; appending free blocks extends one chain and leaves the others;
   cutting leaves the first blocks.
2. `TransferProofs`: how a transfer is cut into blocks, that it indexes inside the
   list, and that reads and writes go to blocks of the list only. `WriteDataPuts` and
   `WriteDataLeaves`: after a write the file, seen through its cache, has the payload
   where it was written and every other byte as it was. `ReadDataFinds`: a read
   returns the bytes of the file as seen through its cache.
3. `StructureProofs`: what adding, cutting and freeing do to a whole layout of
   disjoint chains and its bitmap; each operation of the directory and each resize
   keeps `Metadata`; what opening, releasing, caching and syncing do to `HandlesOK`
   and to the blocks of the container.
4. `OnDiskFSProofs`: one lemma per action, which gives the invariant, that
   the metadata blocks stay as they are, and that all entries but one keep their
   size, their chain and the blocks of it as a reader sees them (`Isolated`);
   `SessionInvariant`; the twelve theorems. A reader sees a block in the cache that
   has it dirty: `WaitsOnce` says that there is one such cache at most, so that a
   flush changes nothing of what is seen (`SyncAlike`), and a transfer through a
   handle only what its own list has (`OneHandleAlike`), which no other chain
   meets. A write has three: what it allocates and links (`WriteExtends`), what it
   moves (`WriteMoves`), and both (`WriteStep`).
5. `ContentsProofs`: a cache is in step with a block unless it holds the block,
   clean, and differs from the container. `CachesInStep` says that every open handle is
   in step with every block it lists. What a step can do to that is one lemma
   per handler (`KeepsStep`): a handle falls out of step only with a block that another
   handle writes, whatever use of the slot it kept the block from. That is
   `StaleByOthers`. No other handle lists a block of this one, so `CachesInStep` breaks
   only where a handle takes a new block of which it kept an old copy, and that
   `TakesNoStaleBlock` excludes. A handle in step reads its chain as `Contents` does
   (`ReadDataFinds`), which is `ReadsCurrent`. For the refinement, `Directory` says
   that entries in use have different names, so that `StoredFiles` is a function of
   the entries; then each handler has a lemma that makes it a call of the store:
   `WriteDataPuts`, `WriteDataLeaves` and the lemmas on growing and cutting chains give
   the bytes of the one file, `Isolated` those of the others.
6. `SessionsProofs`: what a mount makes of an image; that every container a kill inside
   a call can leave is one a session may start from (`InACallType`), which for a write
   rests on its transfer staying inside its list; `SessionsInvariant` and its
   consequences. `StructuresApart`: bitmap, table and directory lie one behind the
   other and each flag, link and entry has a place in its own structure, for any
   size of container, block and byte. `TearingSafe` rests on it: with
   the cut before the table, a torn image is the old table and directory under a
   bitmap of old and new flags, and both mark the blocks of the old chains, which
   lost none; with the cut behind it, the new table and bitmap under a directory
   of old and new entries, where an old entry's chain in the new table is within
   that of the new one.
7. `InMemoryProofs`, on its own: `resize`, `write` and `read` on sequences of any
   length; the invariant that an open path is a key; one lemma per handler, which
   gives the invariant and the step of `FileStore`; the refinement. `CountsExact`
   relates one counter to the counts of all paths: its invariant `Counting` says that
   the counter is the number of opens, as pairs of a path and a number within its
   count, and stays within bounds, as the number of paths does.
8. `LoopsProofs`, on `TransferProofs`. `LoopInv` has one loop invariant for each of
   the three modules: `SearchInv` (what was found so far is what the first n free
   blocks of the part already scanned are), `ChainInv` (the walk has a prefix of the
   chain; an append has linked a prefix of the new blocks, and the last block of the
   chain is where the code looks for it) and `DataInv` (the blocks already moved are
   those `Transfer` moves, and the rest is untouched). A loop that is done has, by
   its invariant, the result the operator describes.

**Checked by TLC only.** The refinement of `DurableStore` by `Sessions`, on the
instance above. Liveness (`SearchEnds`, `LoopsEnd`), which is out of the
prover's reach.

## 5. What is not modelled

* Time stamps, and the handlers that only read (`fuseGetattr`, `fuseReaddir`,
  `fuseStatfs`); `findFreeBlock`, which has no caller.
* The death of the machine: writes reach the container in their order.
* What a session does with a table of two times. A walk may then come to the entry of
  a free block, which is 0, the superblock's own, and not end; `TearingKeepsOwners`
  says which images are free of that.
* A container whose process died before the superblock was written: every later
  mount throws, so that there are no sessions to speak of.
* Kills inside a mount, which writes nothing once the container exists.
* Failures of the device during a dump, a mount or the creation of the container;
  run `write_error` has those of the data.
* Bytes inside a metadata block: `Layout` says which block an item is in and what
  becomes of it, not how it is encoded.
* The FUSE glue and the command line, which keep no state; the tests.
* Empty writes, which libfuse does not pass on.
* Files that are both open and unlinked exist only under the hidden name libfuse
  gives them; that is an ordinary rename here.

## 6. Plan

1. Names over 255 characters in sessions: a run in which two names share what is stored
   of them, to show what `Careful` excludes.
2. Failures of the device during a dump, as torn images with gaps.
3. Proofs: the refinement of `DurableStore` by `Sessions`, with the lemmas of
   `ContentsProofs` for the calls, and for restarts that a dump has the contents of
   every file on disk (`SyncLeavesNothingBehind`) and that blocks of a file that did not
   change since are not written.
4. Whether a reset of `blockNo` in `fuseOpen` and where blocks are freed would make
   `TakesNoStaleBlock` hold in every history, so that `FreshSpec` and `Spec` are one.
