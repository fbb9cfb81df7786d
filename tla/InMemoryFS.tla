----------------------------- MODULE InMemoryFS -----------------------------
(***************************************************************************)
(* The in-memory file system (src/src/myinmemoryfs.cpp, File.cpp): a       *)
(* std::map from paths to files, and a count of open files.  It knows no   *)
(* handles: every call names its file by path.  `opens` belongs to libfuse *)
(* and the kernel: how often each path is open now.  They look a path up   *)
(* and hide an open file before it is unlinked or replaced, but the unit   *)
(* tests call the handlers directly, so that any path may be missing.      *)
(***************************************************************************)
EXTENDS Integers, Sequences, FiniteSets

CONSTANTS
    NUM_DIR_ENTRIES, NUM_OPEN_FILES,
    Names,              \* the paths a call may carry
    LongNames,          \* those that are longer than NAME_LENGTH with their "/"
    NoFile,             \* a path that is not a key of the map
    Cells, ZeroCell,    \* values of a byte, and what resize fills with
    Modes, Owners, ProcessOwner,
    Payloads, Offsets, ReadSizes, NewSizes,
    MaxSize,            \* the size no file may exceed
    FirstCounts,        \* what openFileCount may hold when it is constructed
    ReplacingRenames    \* whether rename is called with a target that exists

\* A file of the map, of class File; its time stamps are left out.
File == [bytes : Seq(Cells), mode : Modes, owner : Owners]

ASSUME InMemoryFSAssumption ==
    /\ NoFile \notin File
    /\ NUM_DIR_ENTRIES \in Nat /\ NUM_OPEN_FILES \in Nat
    /\ LongNames \subseteq Names
    /\ ZeroCell \in Cells /\ ProcessOwner \in Owners
    /\ Payloads \subseteq Seq(Cells) \ {<<>>}
    /\ MaxSize \in Nat /\ NewSizes \subseteq 0..MaxSize
    /\ Offsets \subseteq Nat /\ ReadSizes \subseteq Nat \ {0}
    /\ FirstCounts \subseteq Int
    /\ ReplacingRenames \in BOOLEAN

VARIABLES
    files,          \* the map
    openFileCount,
    opens,          \* of libfuse: how often each path is open
    reply,          \* what the last handler returned
    fault           \* undefined behaviour was reached

vars == <<files, openFileCount, opens, reply, fault>>

Exists(name) == files[name] # NoFile

Keys == {name \in Names : Exists(name)}

\* The constructor does not initialise openFileCount.
Init ==
    /\ files = [name \in Names |-> NoFile]
    /\ openFileCount \in FirstCounts
    /\ opens = [name \in Names |-> 0]
    /\ reply = [call |-> "init", code |-> 0, data |-> <<>>]
    /\ fault = FALSE

ENOENT == 2
EEXIST == 17
EMFILE == 24
ENOSPC == 28
ENAMETOOLONG == 36

Return(call, code) == reply' = [call |-> call, code |-> code, data |-> <<>>]

-----------------------------------------------------------------------------
(* Files.                                                                  *)

\* File(path, mode).
NewFile(mode) == [bytes |-> <<>>, mode |-> mode, owner |-> ProcessOwner]

\* std::vector::resize.
resize(bytes, size) ==
    [k \in 1..size |-> IF k <= Len(bytes) THEN bytes[k] ELSE ZeroCell]

\* A write that cuts the file off behind it (a mutant).
WriteCuts(bytes, data, offset) == resize(bytes, offset) \o data

\* File::write: the vector only grows, and what lies between is zero.
write(bytes, data, offset) ==
    LET end == offset + Len(data)
        room == IF end > Len(bytes) THEN resize(bytes, end) ELSE bytes
    IN  [k \in DOMAIN room |->
            IF k > offset /\ k <= end THEN data[k - offset] ELSE room[k]]

\* File::read: an offset past the end, and the two ways to stop.
read(bytes, size, offset) ==
    IF offset > Len(bytes) THEN <<>>
    ELSE SubSeq(bytes, offset + 1,
                IF offset + size <= Len(bytes) THEN offset + size ELSE Len(bytes))

-----------------------------------------------------------------------------
(* The handlers.                                                           *)

\* The handler ends with no state change.
Returns(call, code) == Return(call, code) /\ UNCHANGED <<files, openFileCount, opens, fault>>

\* Only the map changes.
Stores(call, code, map) ==
    /\ files' = map
    /\ Return(call, code)
    /\ UNCHANGED <<openFileCount, opens, fault>>

fuseMknod(name, mode) ==
    \/ /\ Cardinality(Keys) >= NUM_DIR_ENTRIES
       /\ Returns("mknod", -ENOSPC)
    \/ /\ Cardinality(Keys) < NUM_DIR_ENTRIES /\ name \in LongNames
       /\ Returns("mknod", -ENAMETOOLONG)
    \/ /\ Cardinality(Keys) < NUM_DIR_ENTRIES /\ name \notin LongNames /\ Exists(name)
       /\ Returns("mknod", -EEXIST)
    \/ /\ Cardinality(Keys) < NUM_DIR_ENTRIES /\ name \notin LongNames /\ ~Exists(name)
       /\ Stores("mknod", 0, [files EXCEPT ![name] = NewFile(mode)])

fuseUnlink(name) ==
    /\ opens[name] = 0
    /\ \/ ~Exists(name) /\ Returns("unlink", -ENOENT)
       \/ Exists(name) /\ Stores("unlink", 0, [files EXCEPT ![name] = NoFile])

\* A rename that erases the old path and inserts nothing (a mutant).
MovedAway(name, newName) == [files EXCEPT ![name] = NoFile]

\* std::map::insert leaves a key that is already there alone: if the target
\* exists, it keeps its contents and the renamed file is gone.
Moved(name, newName) ==
    [files EXCEPT ![name] = NoFile,
                  ![newName] = IF Exists(newName) THEN @ ELSE files[name]]

\* libfuse goes on with the new path for a file that is open.  The kernel does
\* not pass on a rename to the same name.
fuseRename(name, newName) ==
    /\ name # newName /\ opens[newName] = 0
    /\ ReplacingRenames \/ ~Exists(newName)
    /\ \/ ~Exists(name) /\ Returns("rename", -ENOENT)
       \/ /\ Exists(name)
          /\ files' = Moved(name, newName)
          /\ opens' = [opens EXCEPT ![newName] = opens[name], ![name] = 0]
          /\ Return("rename", 0)
          /\ UNCHANGED <<openFileCount, fault>>

fuseChmod(name, mode) ==
    \/ ~Exists(name) /\ Returns("chmod", -ENOENT)
    \/ Exists(name) /\ Stores("chmod", 0, [files EXCEPT ![name].mode = mode])

fuseChown(name, owner) ==
    \/ ~Exists(name) /\ Returns("chown", -ENOENT)
    \/ Exists(name) /\ Stores("chown", 0, [files EXCEPT ![name].owner = owner])

\* A bound that lets one open too many through (a mutant).
OneTooMany == openFileCount > NUM_OPEN_FILES

TooManyOpen == openFileCount >= NUM_OPEN_FILES

fuseOpen(name) ==
    \/ TooManyOpen /\ Returns("open", -EMFILE)
    \/ ~TooManyOpen /\ ~Exists(name) /\ Returns("open", -ENOENT)
    \/ /\ ~TooManyOpen /\ Exists(name)
       /\ openFileCount' = openFileCount + 1
       /\ opens' = [opens EXCEPT ![name] = @ + 1]
       /\ Return("open", 0)
       /\ UNCHANGED <<files, fault>>

fuseRead(name, offset, size) ==
    \/ ~Exists(name) /\ Returns("read", -ENOENT)
    \/ /\ Exists(name)
       /\ LET data == read(files[name].bytes, size, offset)
          IN  reply' = [call |-> "read", code |-> Len(data), data |-> data]
       /\ UNCHANGED <<files, openFileCount, opens, fault>>

\* "The file is open, so it exists": the result of find is not checked.
fuseWrite(name, offset, data) ==
    /\ opens[name] > 0 /\ offset + Len(data) <= MaxSize
    /\ fault' = ~Exists(name)
    /\ files' = IF Exists(name)
                THEN [files EXCEPT ![name].bytes = write(@, data, offset)] ELSE files
    /\ Return("write", Len(data))
    /\ UNCHANGED <<openFileCount, opens>>

\* The count goes down only if the path is found.
fuseRelease(name) ==
    /\ opens[name] > 0
    /\ opens' = [opens EXCEPT ![name] = @ - 1]
    /\ openFileCount' = IF Exists(name) THEN openFileCount - 1 ELSE openFileCount
    /\ Return("release", IF Exists(name) THEN 0 ELSE -ENOENT)
    /\ UNCHANGED <<files, fault>>

\* Both handlers of this name; the one with a handle does the same.
fuseTruncate(name, newSize) ==
    \/ ~Exists(name) /\ Returns("truncate", -ENOENT)
    \/ /\ Exists(name)
       /\ Stores("truncate", 0, [files EXCEPT ![name].bytes = resize(@, newSize)])

Next ==
    \E name \in Names :
       \/ \E mode \in Modes : fuseMknod(name, mode) \/ fuseChmod(name, mode)
       \/ \E owner \in Owners : fuseChown(name, owner)
       \/ fuseUnlink(name)
       \/ \E newName \in Names : fuseRename(name, newName)
       \/ fuseOpen(name)
       \/ fuseRelease(name)
       \/ \E offset \in Offsets, size \in ReadSizes : fuseRead(name, offset, size)
       \/ \E offset \in Offsets, data \in Payloads : fuseWrite(name, offset, data)
       \/ \E newSize \in NewSizes : fuseTruncate(name, newSize)

Spec == Init /\ [][Next]_vars

-----------------------------------------------------------------------------
(* What it promises.                                                       *)

\* The opens not yet released, as libfuse knows them, those of a path numbered.
Opens == UNION {{name} \X (1..opens[name]) : name \in Names}

\* The count is the number of opens not yet released, through every rename
\* and unlink between, and stays within the bound it is there for; the map
\* does not outgrow the directory.
CountsExact ==
    /\ openFileCount = Cardinality(Opens) /\ openFileCount <= NUM_OPEN_FILES
    /\ Cardinality(Keys) <= NUM_DIR_ENTRIES

\* fuseWrite and fuseRelease find the file of every open, under the path it
\* has by then: the unchecked find of fuseWrite never yields end().
OpenFilesExist == ~fault /\ \A name \in Names : opens[name] > 0 => Exists(name)

\* The handlers implement the same store of files as those on disk.
Store == INSTANCE FileStore WITH Absent <- NoFile, store <- files

ImplementsFileStore == Store!Spec
=============================================================================
