---------------------------- MODULE DurableStore ----------------------------
(***************************************************************************)
(* What is left of a store of files when its process stops and another     *)
(* takes over.  Now and then a call saves everything; a restart brings     *)
(* back the files that were saved, with their attributes, and the contents *)
(* of those that no call has changed since.  The contents of the others    *)
(* may be a mixture.  A restart in the middle of a write has some of its   *)
(* bytes in the file, but nothing else.                                    *)
(***************************************************************************)
EXTENDS FileStore

VARIABLES
    saved,      \* the attributes of the file under each name, or Absent
    atRisk      \* the names whose files have changed since

Attributes(file) ==
    IF file = Absent THEN Absent
    ELSE [size |-> Len(file.bytes), mode |-> file.mode, owner |-> file.owner]

Catalogue(files) == [name \in Names |-> Attributes(files[name])]

DurableInit ==
    /\ Init
    /\ saved = Catalogue(store)
    /\ atRisk = {}

Changed == {name \in Names : store'[name] # store[name]}

\* A call that changes the files of the names in S: it saves all or nothing.
SavedOrNot(S) ==
    \/ UNCHANGED saved /\ atRisk' = atRisk \cup S
    \/ saved' = Catalogue(store') /\ atRisk' = {}

\* The target of a rename has another file even if that looks the same.
Call ==
    \/ Next /\ SavedOrNot(Changed)
    \/ \E name, newName \in Names : Rename(name, newName) /\ SavedOrNot({name, newName})

\* Nothing is saved on the way out.  What was not at risk is there, but for the
\* file of the call that was under way, if it is one of S.
RestartBut(S) ==
    /\ Return("init", 0)
    /\ \A name \in Names \ (atRisk \cup S) : store'[name] = store[name]
    /\ Catalogue(store') = saved
    /\ UNCHANGED saved
    /\ atRisk' = {}

Restart == RestartBut({})

\* Of that file, every byte is as it was or as it was to be written.
RestartInWrite(name, offset, data) ==
    /\ Exists(name)
    /\ RestartBut({name})
    /\ name \notin atRisk =>
          \A k \in DOMAIN store[name].bytes :
             \/ store'[name].bytes[k] = store[name].bytes[k]
             \/ /\ k > offset /\ k <= offset + Len(data)
                /\ store'[name].bytes[k] = data[k - offset]

\* Everything is.
RestartAfterSaving ==
    /\ Return("init", 0)
    /\ UNCHANGED store
    /\ saved' = Catalogue(store)
    /\ atRisk' = {}

DurableNext ==
    \/ Call
    \/ Restart
    \/ RestartAfterSaving
    \/ \E name \in Names, offset \in Offsets, data \in Payloads :
          RestartInWrite(name, offset, data)

DurableSpec == DurableInit /\ [][DurableNext]_<<store, reply, saved, atRisk>>
=============================================================================
