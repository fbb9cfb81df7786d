-------------------------------- MODULE Root --------------------------------
(***************************************************************************)
(* The directory (src/src/Root.cpp) and its entries (OnDiskFile.cpp): an   *)
(* array of NUM_DIR_ENTRIES entries, unused when the name is empty.  Every *)
(* search runs over the array from its first entry.                        *)
(***************************************************************************)
EXTENDS Fat

CONSTANTS
    NUM_DIR_ENTRIES,
    Names,          \* the file names a call may carry
    LongNames,      \* those with more than NAME_LENGTH characters
    NoName,         \* the empty name of an unused entry
    Modes, Owners,  \* st_mode, and st_uid with st_gid
    NoMode, NoOwner \* their values in an unused entry

ASSUME RootAssumption ==
    /\ NUM_DIR_ENTRIES \in Nat \ {0}
    /\ LongNames \subseteq Names
    /\ NoName \notin Names
    /\ Modes # {} /\ Owners # {}

Entries == 1..NUM_DIR_ENTRIES

\* A directory entry; the three time stamps are left out.
Files == [name : Names \cup {NoName}, firstBlock : Links, size : Nat,
          mode : Modes \cup {NoMode}, owner : Owners \cup {NoOwner}]

\* OnDiskFile(): what unlink leaves in the entry.
UnusedEntry == [name |-> NoName, firstBlock |-> END_OF_CLUSTER, size |-> 0,
                mode |-> NoMode, owner |-> NoOwner]

InitialRoot == [i \in Entries |-> UnusedEntry]

hasFile(root, name) == \E i \in Entries : root[i].name = name

isFull(root) == ~hasFile(root, NoName)

\* The first entry with the name.
getFile(root, name) ==
    CHOOSE i \in Entries :
        root[i].name = name /\ \A j \in 1..(i - 1) : root[j].name # name

\* Root::mknod: the first unused entry becomes an empty file.
mknod(root, name, mode, owner) ==
    [root EXCEPT ![getFile(root, NoName)] =
        [UnusedEntry EXCEPT !.name = name, !.mode = mode, !.owner = owner]]

\* An unlink that resets the entry but not its name (a mutant).
UnlinkKeepsName(root, name) ==
    [root EXCEPT ![getFile(root, name)] = [UnusedEntry EXCEPT !.name = name]]

unlink(root, name) == [root EXCEPT ![getFile(root, name)] = UnusedEntry]
=============================================================================
