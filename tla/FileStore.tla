----------------------------- MODULE FileStore ------------------------------
(***************************************************************************)
(* What a file system of this project promises to its callers: a store of  *)
(* named byte sequences with a mode and an owner.  Nothing here knows of   *)
(* blocks, caches or handles.  From the comments on the handlers in        *)
(* src/src/myondiskfs.cpp and src/src/myinmemoryfs.cpp, which agree:       *)
(* a call that fails changes nothing, a call that succeeds changes the     *)
(* file it names and no other, a read returns what was last written, and   *)
(* the bytes by which a file grows without being written may be random.    *)
(***************************************************************************)
EXTENDS Integers, Sequences

CONSTANTS Names, Cells, Modes, Owners, ProcessOwner,
          Absent,                       \* the entry of a name with no file
          Payloads, Offsets, ReadSizes, NewSizes   \* arguments of the calls

VARIABLES
    store,      \* the file under each name, or Absent
    reply       \* the last call and its result: a code, and the data of a read

Exists(name) == store[name] # Absent

Return(call, code) == reply' = [call |-> call, code |-> code, data |-> <<>>]

Init ==
    /\ store = [name \in Names |-> Absent]
    /\ reply = [call |-> "init", code |-> 0, data |-> <<>>]

\* An error, of any kind and from any call.
Fail == reply'.code < 0 /\ reply'.data = <<>> /\ UNCHANGED store

\* Handles, and the synchronisation with the disk, are not seen.
Open == Return("open", 0) /\ UNCHANGED store

Release == Return("release", 0) /\ UNCHANGED store

Create(name, mode) ==
    /\ Return("mknod", 0)
    /\ ~Exists(name)
    /\ store' = [store EXCEPT ![name] =
                    [bytes |-> <<>>, mode |-> mode, owner |-> ProcessOwner]]

Remove(name) ==
    /\ Return("unlink", 0)
    /\ Exists(name)
    /\ store' = [store EXCEPT ![name] = Absent]

\* The new name loses the file it had.
Rename(name, newName) ==
    /\ Return("rename", 0)
    /\ Exists(name) /\ name # newName
    /\ store' = [store EXCEPT ![newName] = store[name], ![name] = Absent]

SetMode(name, mode) ==
    /\ Return("chmod", 0)
    /\ Exists(name)
    /\ store' = [store EXCEPT ![name].mode = mode]

SetOwner(name, owner) ==
    /\ Return("chown", 0)
    /\ Exists(name)
    /\ store' = [store EXCEPT ![name].owner = owner]

\* Only the bytes of one file change: to `size` bytes, of which those of the
\* old ones that Kept selects are kept.  Bytes that are neither kept nor
\* written are arbitrary.
Becomes(name, size, Kept(_)) ==
    \E old \in {store[name].bytes}, new \in {store'[name].bytes} :
        /\ store' = [store EXCEPT ![name].bytes = new]
        /\ DOMAIN new = 1..size
        /\ \A k \in 1..size : new[k] \in Cells
        /\ \A k \in 1..size : k <= Len(old) /\ Kept(k) => new[k] = old[k]

Write(name, offset, data) ==
    /\ Return("write", Len(data))
    /\ Exists(name)
    /\ LET old == Len(store[name].bytes)
           end == offset + Len(data)
           Unwritten(k) == k <= offset \/ k > end
       IN  /\ Becomes(name, IF end > old THEN end ELSE old, Unwritten)
           /\ SubSeq(store'[name].bytes, offset + 1, end) = data

Truncate(name, newSize) ==
    /\ Return("truncate", 0)
    /\ Exists(name)
    /\ LET All(k) == TRUE IN Becomes(name, newSize, All)

\* As many bytes as there are, at most n.
Read(name, offset, n) ==
    /\ reply'.call = "read"
    /\ Exists(name)
    /\ LET bytes == store[name].bytes
           end == IF offset + n < Len(bytes) THEN offset + n ELSE Len(bytes)
           data == SubSeq(bytes, offset + 1, end)
       IN  reply' = [call |-> "read", code |-> Len(data), data |-> data]
    /\ UNCHANGED store

Next ==
    \/ Fail
    \/ Open \/ Release
    \/ \E name \in Names :
          \/ \E mode \in Modes : Create(name, mode) \/ SetMode(name, mode)
          \/ \E owner \in Owners : SetOwner(name, owner)
          \/ Remove(name)
          \/ \E newName \in Names : Rename(name, newName)
          \/ \E newSize \in NewSizes : Truncate(name, newSize)
          \/ \E offset \in Offsets : \/ \E data \in Payloads : Write(name, offset, data)
                                     \/ \E n \in ReadSizes : Read(name, offset, n)

Spec == Init /\ [][Next]_<<store, reply>>
=============================================================================
