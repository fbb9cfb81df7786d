--------------------------- MODULE InMemoryProofs ---------------------------
(***************************************************************************)
(* The in-memory file system: every open file is found under its path, and *)
(* the handlers implement FileStore as long as no rename has a target that *)
(* exists.                                                                 *)
(***************************************************************************)
EXTENDS InMemoryFS, SequenceTheorems, FiniteSetTheorems, TLAPS

Bytes == Seq(Cells)

-----------------------------------------------------------------------------
(* The bytes of a file.                                                    *)

\* A sequence given by its elements.
LEMMA SequenceOf ==
    ASSUME NEW n \in Nat, NEW s, s \in [1..n -> Cells]
    PROVE  s \in Bytes /\ Len(s) = n
BY SeqDef DEF Bytes

\* resize keeps the bytes there were and fills with zeros.
LEMMA Resized ==
    ASSUME NEW bytes \in Bytes, NEW size \in Nat
    PROVE  /\ resize(bytes, size) \in Bytes
           /\ Len(resize(bytes, size)) = size
           /\ DOMAIN resize(bytes, size) = 1..size
           /\ \A k \in 1..size : /\ resize(bytes, size)[k] \in Cells
                                 /\ k <= Len(bytes) => resize(bytes, size)[k] = bytes[k]
<1> DEFINE new == resize(bytes, size)
<1>1. ZeroCell \in Cells
    BY InMemoryFSAssumption
<1>2. Len(bytes) \in Nat /\ \A k \in 1..Len(bytes) : bytes[k] \in Cells
    BY LenProperties DEF Bytes
<1>3. new = [k \in 1..size |-> IF k <= Len(bytes) THEN bytes[k] ELSE ZeroCell]
    BY DEF resize
<1>4. \A k \in 1..size : (IF k <= Len(bytes) THEN bytes[k] ELSE ZeroCell) \in Cells
    BY <1>1, <1>2
<1>5. new \in [1..size -> Cells]
    BY <1>3, <1>4
<1>6. new \in Bytes /\ Len(new) = size
    BY <1>5, SequenceOf
<1> HIDE DEF new
<1>7. QED BY <1>3, <1>5, <1>6 DEF new

\* write puts the data where it belongs, and keeps what lies around it.
LEMMA Written ==
    ASSUME NEW bytes \in Bytes, NEW data \in Bytes, NEW offset \in Nat
    PROVE  LET end == offset + Len(data)
               size == IF end > Len(bytes) THEN end ELSE Len(bytes)
               new == write(bytes, data, offset)
           IN  /\ new \in Bytes
               /\ DOMAIN new = 1..size
               /\ \A k \in 1..size : new[k] \in Cells
               /\ \A k \in 1..size :
                     k <= Len(bytes) /\ (k <= offset \/ k > end) => new[k] = bytes[k]
               /\ SubSeq(new, offset + 1, end) = data
<1> DEFINE end == offset + Len(data)
           size == IF end > Len(bytes) THEN end ELSE Len(bytes)
           room == IF end > Len(bytes) THEN resize(bytes, end) ELSE bytes
           new == write(bytes, data, offset)
<1>1. /\ Len(data) \in Nat /\ Len(bytes) \in Nat
      /\ \A k \in 1..Len(data) : data[k] \in Cells
      /\ \A k \in 1..Len(bytes) : bytes[k] \in Cells
      /\ DOMAIN bytes = 1..Len(bytes)
    BY LenProperties DEF Bytes
<1>2. end \in Nat /\ size \in Nat /\ end <= size
    BY <1>1
<1>3. /\ DOMAIN room = 1..size
      /\ \A k \in 1..size : /\ room[k] \in Cells
                            /\ k <= Len(bytes) => room[k] = bytes[k]
    BY <1>1, <1>2, Resized
<1>4. new = [k \in DOMAIN room |->
                IF k > offset /\ k <= end THEN data[k - offset] ELSE room[k]]
    BY DEF write
<1>5. end - offset = Len(data)
    BY <1>1
<1> HIDE DEF room, size, new
<1>6. \A k \in 1..size : k > offset /\ k <= end => k - offset \in 1..Len(data)
    BY <1>1, <1>2
<1>7. new \in [1..size -> Cells]
    BY <1>1, <1>3, <1>4, <1>6
<1>8. new \in Bytes
    BY <1>2, <1>7, SequenceOf
<1>9. \A k \in 1..size : k <= Len(bytes) /\ (k <= offset \/ k > end) => new[k] = bytes[k]
    <2>1. ASSUME NEW k \in 1..size, k <= offset \/ k > end
          PROVE  ~(k > offset /\ k <= end)
        BY <1>2, <2>1
    <2>2. QED BY <1>3, <1>4, <2>1
<1>10. SubSeq(new, offset + 1, end) = data
    <2> DEFINE part == SubSeq(new, offset + 1, end)
    <2>1. \A k \in (offset + 1)..end : new[k] \in Cells
        BY <1>2, <1>7
    <2>2. offset + 1 \in Int /\ end \in Int
        BY <1>2
    <2>3. /\ part \in Seq(Cells)
          /\ Len(part) = IF offset + 1 <= end THEN end - (offset + 1) + 1 ELSE 0
          /\ \A i \in 1..(end - (offset + 1) + 1) : part[i] = new[offset + 1 + i - 1]
        BY <2>1, <2>2, SubSeqProperties
    <2>4. Len(part) = Len(data) /\ end - (offset + 1) + 1 = Len(data)
        BY <1>1, <1>2, <2>3
    <2>5. ASSUME NEW i \in 1..Len(data) PROVE part[i] = data[i]
        <3>1. part[i] = new[offset + 1 + i - 1] /\ offset + 1 + i - 1 = offset + i
            BY <2>3, <2>4
        <3>2. offset + i \in 1..size /\ offset + i > offset /\ offset + i <= end
            BY <1>1, <1>2
        <3>3. offset + i - offset = i
            BY <1>1
        <3>4. QED BY <1>3, <1>4, <3>1, <3>2, <3>3
    <2> HIDE DEF part
    <2>6. part = data
        BY <2>3, <2>4, <2>5, SeqEqual DEF Bytes
    <2>7. QED BY <2>6 DEF part
<1>11. QED BY <1>3, <1>4, <1>7, <1>8, <1>9, <1>10 DEF new, size

\* read returns the bytes from the offset on, at most `size` of them.
LEMMA ReadBack ==
    ASSUME NEW bytes \in Bytes, NEW size \in Nat, NEW offset \in Nat
    PROVE  read(bytes, size, offset) =
           SubSeq(bytes, offset + 1,
                  IF offset + size < Len(bytes) THEN offset + size ELSE Len(bytes))
<1>1. Len(bytes) \in Nat
    BY LenProperties DEF Bytes
<1>2. CASE offset > Len(bytes)
    <2>1. ~(offset + size < Len(bytes)) /\ Len(bytes) < offset + 1
        BY <1>1, <1>2
    <2>2. SubSeq(bytes, offset + 1, Len(bytes)) = <<>>
        BY <1>1, <2>1, SubSeqEmpty
    <2>3. QED BY <1>2, <2>1, <2>2 DEF read
<1>3. CASE ~(offset > Len(bytes))
    <2>1. (IF offset + size < Len(bytes) THEN offset + size ELSE Len(bytes))
          = IF offset + size <= Len(bytes) THEN offset + size ELSE Len(bytes)
        BY <1>1
    <2>2. QED BY <1>3, <2>1 DEF read
<1>4. QED BY <1>2, <1>3

-----------------------------------------------------------------------------
(* The invariant.                                                          *)

\* The inductive invariant: besides the types, that an open path is a key.
Session ==
    /\ files \in [Names -> File \cup {NoFile}]
    /\ opens \in [Names -> Nat]
    /\ fault = FALSE
    /\ OpenFilesExist

\* The codes of the errors.
Errors == {-ENOENT, -EEXIST, -EMFILE, -ENOSPC, -ENAMETOOLONG}

\* Every error is a failure to the store.
LEMMA ErrorsNegative == \A code \in Errors : code < 0
BY DEF Errors, ENOENT, EEXIST, EMFILE, ENOSPC, ENAMETOOLONG

\* A new file is a file.
LEMMA NewFileType == ASSUME NEW mode \in Modes PROVE NewFile(mode) \in File
<1>1. <<>> \in Seq(Cells) /\ ProcessOwner \in Owners
    BY InMemoryFSAssumption
<1>2. QED BY <1>1 DEF NewFile, File

\* Payloads are sequences of bytes.
LEMMA Payload == \A data \in Payloads : data \in Bytes
BY InMemoryFSAssumption DEF Bytes

\* The empty file system satisfies the invariant.
LEMMA InitialSession == Init => Session
<1>1. SUFFICES ASSUME Init PROVE Session
    OBVIOUS
<1>2. \A name \in Names : ~(opens[name] > 0)
    BY <1>1 DEF Init
<1>3. fault = FALSE /\ files \in [Names -> File \cup {NoFile}] /\ opens \in [Names -> Nat]
    BY <1>1 DEF Init
<1>4. QED BY <1>2, <1>3 DEF Session, OpenFilesExist

-----------------------------------------------------------------------------
(* Steps.                                                                  *)

\* What every step does, to the invariant and to the store.
Step == Session' /\ (~ReplacingRenames => Store!Next)

\* A call that fails.
LEMMA Fails ==
    ASSUME Session, NEW call, NEW code \in Errors, Returns(call, code)
    PROVE  Step
<1>1. Store!Fail
    BY ErrorsNegative DEF Returns, Return, Store!Fail
<1>2. Session'
    BY DEF Session, OpenFilesExist, Exists, Returns
<1>3. QED BY <1>1, <1>2 DEF Step, Store!Next

\* A call that puts one file, or none where the path is not open, in the map.
LEMMA Puts ==
    ASSUME Session, NEW name \in Names, NEW call, NEW code,
           NEW file \in File \cup {NoFile}, file = NoFile => opens[name] = 0,
           Stores(call, code, [files EXCEPT ![name] = file])
    PROVE  /\ Session'
           /\ files' = [files EXCEPT ![name] = file]
           /\ reply' = [call |-> call, code |-> code, data |-> <<>>]
<1>1. files' = [files EXCEPT ![name] = file] /\ opens' = opens /\ fault' = fault
    BY DEF Stores
<1>2. files' \in [Names -> File \cup {NoFile}]
    BY <1>1 DEF Session
<1>3. NoFile \notin File
    BY InMemoryFSAssumption
<1>4. ASSUME NEW other \in Names, opens[other] > 0 PROVE files'[other] # NoFile
    <2>1. files[other] # NoFile
        BY <1>4 DEF Session, OpenFilesExist, Exists
    <2>2. CASE other = name
        <3>1. opens[name] # 0
            BY <1>4, <2>2
        <3>2. QED BY <1>1, <1>3, <2>2, <3>1 DEF Session
    <2>3. CASE other # name
        BY <1>1, <2>1, <2>3 DEF Session
    <2>4. QED BY <2>2, <2>3
<1>5. QED BY <1>1, <1>2, <1>4 DEF Session, OpenFilesExist, Exists, Stores, Return

\* fuseMknod keeps the invariant and creates a file, or fails.
LEMMA MknodSteps ==
    ASSUME Session, NEW name \in Names, NEW mode \in Modes, fuseMknod(name, mode)
    PROVE  Step
<1>1. CASE \/ Returns("mknod", -ENOSPC) \/ Returns("mknod", -ENAMETOOLONG)
           \/ Returns("mknod", -EEXIST)
    BY <1>1, Fails DEF Errors
<1>2. CASE ~Exists(name) /\ Stores("mknod", 0, [files EXCEPT ![name] = NewFile(mode)])
    <2>1. NewFile(mode) \in File /\ NewFile(mode) # NoFile
        BY NewFileType, InMemoryFSAssumption
    <2>2. /\ Session'
          /\ files' = [files EXCEPT ![name] = NewFile(mode)]
          /\ reply' = [call |-> "mknod", code |-> 0, data |-> <<>>]
        BY <1>2, <2>1, Puts
    <2>3. Store!Create(name, mode)
        BY <1>2, <2>2 DEF Store!Create, Store!Exists, Store!Return, Exists, NewFile
    <2>4. QED BY <2>2, <2>3 DEF Step, Store!Next
<1>3. QED BY <1>1, <1>2 DEF fuseMknod

\* fuseUnlink keeps the invariant and drops a file, or fails.
LEMMA UnlinkSteps ==
    ASSUME Session, NEW name \in Names, fuseUnlink(name)
    PROVE  Step
<1>1. CASE Returns("unlink", -ENOENT)
    BY <1>1, Fails DEF Errors
<1>2. CASE Exists(name) /\ Stores("unlink", 0, [files EXCEPT ![name] = NoFile])
    <2>1. /\ Session'
          /\ files' = [files EXCEPT ![name] = NoFile]
          /\ reply' = [call |-> "unlink", code |-> 0, data |-> <<>>]
        BY <1>2, Puts DEF fuseUnlink
    <2>2. Store!Remove(name)
        BY <1>2, <2>1 DEF Store!Remove, Store!Exists, Store!Return, Exists
    <2>3. QED BY <2>1, <2>2 DEF Step, Store!Next
<1>3. QED BY <1>1, <1>2 DEF fuseUnlink

\* The one step that moves an open path: the file comes along, unless the
\* target exists.
LEMMA RenameSteps ==
    ASSUME Session, NEW name \in Names, NEW newName \in Names, fuseRename(name, newName)
    PROVE  Step
<1>1. CASE Returns("rename", -ENOENT)
    BY <1>1, Fails DEF Errors
<1>2. CASE /\ Exists(name)
           /\ files' = Moved(name, newName)
           /\ opens' = [opens EXCEPT ![newName] = opens[name], ![name] = 0]
           /\ Return("rename", 0)
           /\ UNCHANGED <<openFileCount, fault>>
    <2>1. name # newName
        BY DEF fuseRename
    <2>2. /\ files' \in [Names -> File \cup {NoFile}]
          /\ files'[name] = NoFile
          /\ files'[newName] = IF Exists(newName) THEN files[newName] ELSE files[name]
          /\ \A other \in Names \ {name, newName} : files'[other] = files[other]
        BY <1>2, <2>1 DEF Moved, Session
    <2>3. files'[newName] # NoFile
        BY <1>2, <2>2 DEF Exists
    <2>4. /\ opens' \in [Names -> Nat] /\ opens'[name] = 0
          /\ \A other \in Names \ {name, newName} : opens'[other] = opens[other]
        BY <1>2, <2>1 DEF Session
    <2>5. ASSUME NEW other \in Names, opens'[other] > 0 PROVE files'[other] # NoFile
        <3>1. other # name
            BY <2>4, <2>5
        <3>2. CASE other = newName
            BY <2>3, <3>2
        <3>3. CASE other # newName
            <4>1. files'[other] = files[other] /\ opens'[other] = opens[other]
                BY <2>2, <2>4, <3>1, <3>3
            <4>2. QED BY <2>5, <4>1 DEF Session, OpenFilesExist, Exists
        <3>4. QED BY <3>2, <3>3
    <2>6. Session'
        BY <1>2, <2>2, <2>4, <2>5 DEF Session, OpenFilesExist, Exists
    <2>7. ASSUME ~ReplacingRenames PROVE Store!Rename(name, newName)
        <3>1. ~Exists(newName)
            BY <2>7 DEF fuseRename
        <3>2. files' = [files EXCEPT ![newName] = files[name], ![name] = NoFile]
            BY <1>2, <2>1, <3>1 DEF Moved, Session
        <3>3. QED BY <1>2, <2>1, <3>2
                 DEF Store!Rename, Store!Exists, Store!Return, Exists, Return
    <2>8. QED BY <2>6, <2>7 DEF Step, Store!Next
<1>3. QED BY <1>1, <1>2 DEF fuseRename

\* fuseChmod keeps the invariant and changes a mode, or fails.
LEMMA ChmodSteps ==
    ASSUME Session, NEW name \in Names, NEW mode \in Modes, fuseChmod(name, mode)
    PROVE  Step
<1>1. CASE Returns("chmod", -ENOENT)
    BY <1>1, Fails DEF Errors
<1>2. CASE Exists(name) /\ Stores("chmod", 0, [files EXCEPT ![name].mode = mode])
    <2> DEFINE file == [files[name] EXCEPT !.mode = mode]
    <2>1. files[name] \in File
        BY <1>2 DEF Session, Exists
    <2>2. file \in File /\ file # NoFile
        BY <2>1, InMemoryFSAssumption DEF File
    <2>3. Stores("chmod", 0, [files EXCEPT ![name] = file])
        BY <1>2
    <2>4. /\ Session'
          /\ files' = [files EXCEPT ![name] = file]
          /\ reply' = [call |-> "chmod", code |-> 0, data |-> <<>>]
        BY <2>2, <2>3, Puts
    <2>5. Store!SetMode(name, mode)
        BY <1>2, <2>4 DEF Store!SetMode, Store!Exists, Store!Return, Exists
    <2>6. QED BY <2>4, <2>5 DEF Step, Store!Next
<1>3. QED BY <1>1, <1>2 DEF fuseChmod

\* fuseChown keeps the invariant and changes an owner, or fails.
LEMMA ChownSteps ==
    ASSUME Session, NEW name \in Names, NEW owner \in Owners, fuseChown(name, owner)
    PROVE  Step
<1>1. CASE Returns("chown", -ENOENT)
    BY <1>1, Fails DEF Errors
<1>2. CASE Exists(name) /\ Stores("chown", 0, [files EXCEPT ![name].owner = owner])
    <2> DEFINE file == [files[name] EXCEPT !.owner = owner]
    <2>1. files[name] \in File
        BY <1>2 DEF Session, Exists
    <2>2. file \in File /\ file # NoFile
        BY <2>1, InMemoryFSAssumption DEF File
    <2>3. Stores("chown", 0, [files EXCEPT ![name] = file])
        BY <1>2
    <2>4. /\ Session'
          /\ files' = [files EXCEPT ![name] = file]
          /\ reply' = [call |-> "chown", code |-> 0, data |-> <<>>]
        BY <2>2, <2>3, Puts
    <2>5. Store!SetOwner(name, owner)
        BY <1>2, <2>4 DEF Store!SetOwner, Store!Exists, Store!Return, Exists
    <2>6. QED BY <2>4, <2>5 DEF Step, Store!Next
<1>3. QED BY <1>1, <1>2 DEF fuseChown

\* An open succeeds only for a key, so that the invariant sees no path newly
\* open without a file.
LEMMA OpenSteps ==
    ASSUME Session, NEW name \in Names, fuseOpen(name)
    PROVE  Step
<1>1. CASE Returns("open", -EMFILE) \/ Returns("open", -ENOENT)
    BY <1>1, Fails DEF Errors
<1>2. CASE /\ Exists(name)
           /\ opens' = [opens EXCEPT ![name] = @ + 1]
           /\ Return("open", 0)
           /\ UNCHANGED <<files, fault>>
    <2>1. opens' \in [Names -> Nat]
        BY <1>2 DEF Session
    <2>2. ASSUME NEW other \in Names, opens'[other] > 0 PROVE Exists(other)
        <3>1. CASE other = name
            BY <1>2, <3>1
        <3>2. CASE other # name
            <4>1. opens'[other] = opens[other]
                BY <1>2, <3>2 DEF Session
            <4>2. QED BY <2>2, <4>1 DEF Session, OpenFilesExist
        <3>3. QED BY <3>1, <3>2
    <2>3. Session'
        BY <1>2, <2>1, <2>2 DEF Session, OpenFilesExist, Exists
    <2>4. Store!Open
        BY <1>2 DEF Store!Open, Store!Return, Return
    <2>5. QED BY <2>3, <2>4 DEF Step, Store!Next
<1>3. QED BY <1>1, <1>2 DEF fuseOpen

\* A release of an open path finds its file.
LEMMA ReleaseSteps ==
    ASSUME Session, NEW name \in Names, fuseRelease(name)
    PROVE  Step
<1>1. Exists(name) /\ opens[name] \in Nat /\ opens[name] > 0
    BY DEF fuseRelease, Session, OpenFilesExist
<1>2. /\ opens' = [opens EXCEPT ![name] = opens[name] - 1]
      /\ Return("release", 0)
      /\ UNCHANGED <<files, fault>>
    BY <1>1 DEF fuseRelease
<1>3. opens[name] - 1 \in Nat
    BY <1>1
<1>4. opens' \in [Names -> Nat]
    BY <1>2, <1>3 DEF Session
<1>5. ASSUME NEW other \in Names, opens'[other] > 0 PROVE Exists(other)
    <2>1. CASE other = name
        BY <1>1, <2>1
    <2>2. CASE other # name
        <3>1. opens'[other] = opens[other]
            BY <1>2, <2>2 DEF Session
        <3>2. QED BY <1>5, <3>1 DEF Session, OpenFilesExist
    <2>3. QED BY <2>1, <2>2
<1>6. Session'
    BY <1>2, <1>4, <1>5 DEF Session, OpenFilesExist, Exists
<1>7. Store!Release
    BY <1>2 DEF Store!Release, Store!Return, Return
<1>8. QED BY <1>6, <1>7 DEF Step, Store!Next

\* fuseRead keeps the invariant and returns the bytes there are.
LEMMA ReadSteps ==
    ASSUME Session, NEW name \in Names, NEW offset \in Offsets, NEW size \in ReadSizes,
           fuseRead(name, offset, size)
    PROVE  Step
<1>1. CASE Returns("read", -ENOENT)
    BY <1>1, Fails DEF Errors
<1>2. CASE /\ Exists(name)
           /\ LET data == read(files[name].bytes, size, offset)
              IN  reply' = [call |-> "read", code |-> Len(data), data |-> data]
           /\ UNCHANGED <<files, openFileCount, opens, fault>>
    <2>1. files[name].bytes \in Bytes /\ size \in Nat /\ offset \in Nat
        BY <1>2, InMemoryFSAssumption DEF Session, Exists, File, Bytes
    <2>2. read(files[name].bytes, size, offset) =
          SubSeq(files[name].bytes, offset + 1,
                 IF offset + size < Len(files[name].bytes) THEN offset + size
                 ELSE Len(files[name].bytes))
        BY <2>1, ReadBack
    <2>3. Store!Read(name, offset, size)
        BY <1>2, <2>2 DEF Store!Read, Store!Exists, Exists
    <2>4. Session'
        BY <1>2 DEF Session, OpenFilesExist, Exists
    <2>5. QED BY <2>3, <2>4 DEF Step, Store!Next
<1>3. QED BY <1>1, <1>2 DEF fuseRead

\* The file of an open path is there: the write reaches it.
LEMMA WriteSteps ==
    ASSUME Session, NEW name \in Names, NEW offset \in Offsets, NEW data \in Payloads,
           fuseWrite(name, offset, data)
    PROVE  Step
<1> DEFINE bytes == files[name].bytes
           new == write(bytes, data, offset)
           file == [files[name] EXCEPT !.bytes = new]
           end == offset + Len(data)
           size == IF end > Len(bytes) THEN end ELSE Len(bytes)
<1>1. Exists(name) /\ files[name] \in File
    BY DEF fuseWrite, Session, OpenFilesExist, Exists
<1>2. bytes \in Bytes /\ data \in Bytes /\ offset \in Nat
    BY <1>1, Payload, InMemoryFSAssumption DEF File, Bytes
<1>3. /\ new \in Bytes
      /\ DOMAIN new = 1..size
      /\ \A k \in 1..size : new[k] \in Cells
      /\ \A k \in 1..size : k <= Len(bytes) /\ (k <= offset \/ k > end) => new[k] = bytes[k]
      /\ SubSeq(new, offset + 1, end) = data
    BY <1>2, Written
<1>4. file \in File /\ file # NoFile /\ file.bytes = new
    BY <1>1, <1>3, InMemoryFSAssumption DEF File, Bytes
<1>5. Stores("write", Len(data), [files EXCEPT ![name] = file])
    <2>1. fault' = fault
        BY <1>1 DEF fuseWrite, Session, OpenFilesExist
    <2>2. QED BY <1>1, <2>1 DEF fuseWrite, Stores
<1>6. /\ Session'
      /\ files' = [files EXCEPT ![name] = file]
      /\ reply' = [call |-> "write", code |-> Len(data), data |-> <<>>]
    BY <1>4, <1>5, Puts
<1>7. files'[name].bytes = new
    BY <1>4, <1>6 DEF Session
<1> HIDE DEF new
<1>8. files' = [files EXCEPT ![name].bytes = new]
    BY <1>6
<1>9. Store!Write(name, offset, data)
    BY <1>1, <1>3, <1>6, <1>7, <1>8
    DEF Store!Write, Store!Becomes, Store!Exists, Store!Return, Exists
<1>10. QED BY <1>6, <1>9 DEF Step, Store!Next

\* fuseTruncate keeps the invariant and changes one file, or fails.
LEMMA TruncateSteps ==
    ASSUME Session, NEW name \in Names, NEW newSize \in NewSizes, fuseTruncate(name, newSize)
    PROVE  Step
<1>1. CASE Returns("truncate", -ENOENT)
    BY <1>1, Fails DEF Errors
<1>2. CASE /\ Exists(name)
           /\ Stores("truncate", 0, [files EXCEPT ![name].bytes = resize(@, newSize)])
    <2> DEFINE bytes == files[name].bytes
               new == resize(bytes, newSize)
               file == [files[name] EXCEPT !.bytes = new]
    <2>1. files[name] \in File /\ newSize \in Nat
        BY <1>2, InMemoryFSAssumption DEF Session, Exists
    <2>2. bytes \in Bytes
        BY <2>1 DEF File, Bytes
    <2>3. /\ new \in Bytes /\ DOMAIN new = 1..newSize
          /\ \A k \in 1..newSize : new[k] \in Cells /\ (k <= Len(bytes) => new[k] = bytes[k])
        BY <2>1, <2>2, Resized
    <2>4. file \in File /\ file # NoFile /\ file.bytes = new
        BY <2>1, <2>3, InMemoryFSAssumption DEF File, Bytes
    <2>5. Stores("truncate", 0, [files EXCEPT ![name] = file])
        BY <1>2
    <2>6. /\ Session'
          /\ files' = [files EXCEPT ![name] = file]
          /\ reply' = [call |-> "truncate", code |-> 0, data |-> <<>>]
        BY <2>4, <2>5, Puts
    <2>7. files'[name].bytes = new
        BY <2>4, <2>6 DEF Session
    <2> HIDE DEF new
    <2>8. files' = [files EXCEPT ![name].bytes = new]
        BY <2>6
    <2>9. Store!Truncate(name, newSize)
        BY <1>2, <2>3, <2>6, <2>7, <2>8
        DEF Store!Truncate, Store!Becomes, Store!Exists, Store!Return, Exists
    <2>10. QED BY <2>6, <2>9 DEF Step, Store!Next
<1>3. QED BY <1>1, <1>2 DEF fuseTruncate

\* Every step keeps the invariant and is a step of the store.
LEMMA NextSteps == Session /\ Next => Step
BY MknodSteps, UnlinkSteps, RenameSteps, ChmodSteps, ChownSteps, OpenSteps, ReleaseSteps,
   ReadSteps, WriteSteps, TruncateSteps DEF Next

\* The invariant is kept when nothing changes.
LEMMA SessionStutters == Session /\ UNCHANGED vars => Session'
BY DEF vars, Session, OpenFilesExist, Exists

-----------------------------------------------------------------------------
(* The counts.                                                             *)

\* The count stays that of the opens, and both numbers within their bounds.
Counting ==
    /\ IsFiniteSet(Opens) /\ openFileCount = Cardinality(Opens)
    /\ openFileCount <= NUM_OPEN_FILES
    /\ IsFiniteSet(Keys) /\ Cardinality(Keys) <= NUM_DIR_ENTRIES

\* An open, by its path and its number.
LEMMA AnOpen ==
    ASSUME NEW o
    PROVE  o \in Opens <=> \E name \in Names : \E k \in 1..opens[name] : o = <<name, k>>
BY DEF Opens

LEMMA AnOpenThen ==
    ASSUME NEW o
    PROVE  o \in Opens' <=> \E name \in Names : \E k \in 1..opens'[name] : o = <<name, k>>
BY DEF Opens

\* At first nothing is open and nothing counted.
LEMMA InitialCounts == FirstCounts = {0} /\ Init => Counting
<1> SUFFICES ASSUME FirstCounts = {0}, Init PROVE Counting
    OBVIOUS
<1>1. Opens = {}
    BY AnOpen DEF Init
<1>2. Keys = {}
    BY DEF Init, Keys, Exists
<1>3. QED BY <1>1, <1>2, FS_EmptySet, InMemoryFSAssumption DEF Init, Counting

\* The same opens, and a set of keys that is not larger.
LEMMA SameOpens ==
    ASSUME Counting, opens' = opens, openFileCount' = openFileCount,
           Keys' \subseteq Keys
    PROVE  Counting'
<1>1. Opens' = Opens
    BY DEF Opens
<1>2. IsFiniteSet(Keys') /\ Cardinality(Keys') <= Cardinality(Keys)
    BY FS_Subset DEF Counting
<1>3. Cardinality(Keys) \in Nat /\ Cardinality(Keys') \in Nat
    BY <1>2, FS_CardinalityType DEF Counting
<1>4. QED BY <1>1, <1>2, <1>3, InMemoryFSAssumption DEF Counting

\* One more open.
LEMMA OpenCounts ==
    ASSUME Session, Counting, NEW name \in Names, ~TooManyOpen, Exists(name),
           openFileCount' = openFileCount + 1,
           opens' = [opens EXCEPT ![name] = @ + 1], files' = files
    PROVE  Counting'
<1> DEFINE o == <<name, opens[name] + 1>>
<1>1. opens \in [Names -> Nat] /\ opens[name] \in Nat
    BY DEF Session
<1>2. o \notin Opens
    <2>1. SUFFICES ASSUME NEW other \in Names, NEW k \in 1..opens[other],
                                 o = <<other, k>>
                   PROVE  FALSE
        BY AnOpen
    <2>2. other = name /\ k = opens[name] + 1
        BY <2>1
    <2>3. QED BY <1>1, <2>2
<1>3. Opens' = Opens \cup {o}
    <2>1. ASSUME NEW x \in Opens' PROVE x \in Opens \cup {o}
        <3>1. PICK other \in Names, k \in Nat : k \in 1..opens'[other] /\ x = <<other, k>>
            BY <2>1 DEF Opens
        <3>2. CASE other = name /\ k = opens[name] + 1
            BY <3>1, <3>2
        <3>3. CASE ~(other = name /\ k = opens[name] + 1)
            <4>1. k \in 1..opens[other]
                <5>1. CASE other = name
                    <6>1. opens'[other] = opens[name] + 1
                        BY <1>1, <5>1
                    <6>2. QED BY <1>1, <3>1, <3>3, <5>1, <6>1
                <5>2. CASE other # name
                    <6>1. opens'[other] = opens[other]
                        BY <1>1, <5>2
                    <6>2. QED BY <3>1, <6>1
                <5>3. QED BY <5>1, <5>2
            <4>2. QED BY <3>1, <4>1, AnOpen
        <3>4. QED BY <3>2, <3>3
    <2>2. ASSUME NEW x \in Opens PROVE x \in Opens'
        <3>1. PICK other \in Names, k \in Nat : k \in 1..opens[other] /\ x = <<other, k>>
            BY <2>2, AnOpen
        <3>2. k \in 1..opens'[other]
            <4>1. opens[other] \in Nat
                BY <1>1
            <4>2. opens'[other] = opens[other] \/ opens'[other] = opens[other] + 1
                BY <1>1
            <4>3. QED BY <3>1, <4>1, <4>2
        <3>3. QED BY <3>1, <3>2 DEF Opens
    <2>3. o \in Opens'
        <3>1. opens'[name] = opens[name] + 1
            BY <1>1
        <3>2. opens[name] + 1 \in 1..opens'[name]
            BY <1>1, <3>1
        <3>3. QED BY <3>2 DEF Opens
    <2>4. QED BY <2>1, <2>2, <2>3
<1>4. Keys' = Keys
    BY DEF Keys, Exists
<1>5. IsFiniteSet(Opens') /\ Cardinality(Opens') = Cardinality(Opens) + 1
    BY <1>2, <1>3, FS_AddElement DEF Counting
<1>6. Cardinality(Opens) \in Nat
    BY FS_CardinalityType DEF Counting
<1>7. openFileCount' <= NUM_OPEN_FILES
    BY <1>6, InMemoryFSAssumption DEF Counting, TooManyOpen
<1>8. QED BY <1>4, <1>5, <1>7 DEF Counting

\* One open less: of several of the same path the last is gone, since it does
\* not matter which.
LEMMA ReleaseCounts ==
    ASSUME Session, Counting, NEW name \in Names, fuseRelease(name)
    PROVE  Counting'
<1> DEFINE o == <<name, opens[name]>>
<1>1. opens \in [Names -> Nat] /\ opens[name] \in Nat /\ opens[name] > 0 /\ Exists(name)
    BY DEF Session, OpenFilesExist, fuseRelease
<1>2. /\ opens' = [opens EXCEPT ![name] = opens[name] - 1]
      /\ openFileCount' = openFileCount - 1 /\ files' = files
    BY <1>1 DEF fuseRelease
<1>3. o \in Opens
    BY <1>1, AnOpen
<1>4. Opens' = Opens \ {o}
    <2>1. ASSUME NEW x \in Opens' PROVE x \in Opens \ {o}
        <3>1. PICK other \in Names, k \in Nat : k \in 1..opens'[other] /\ x = <<other, k>>
            BY <2>1 DEF Opens
        <3>2. k \in 1..opens[other] /\ ~(other = name /\ k = opens[name])
            <4>1. CASE other = name
                <5>1. opens'[other] = opens[name] - 1
                    BY <1>1, <1>2, <4>1
                <5>2. QED BY <1>1, <3>1, <4>1, <5>1
            <4>2. CASE other # name
                <5>1. opens'[other] = opens[other]
                    BY <1>1, <1>2, <4>2
                <5>2. QED BY <3>1, <4>2, <5>1
            <4>3. QED BY <4>1, <4>2
        <3>3. QED BY <3>1, <3>2, AnOpen
    <2>2. ASSUME NEW x \in Opens, x # o PROVE x \in Opens'
        <3>1. PICK other \in Names, k \in Nat : k \in 1..opens[other] /\ x = <<other, k>>
            BY <2>2, AnOpen
        <3>2. k \in 1..opens'[other]
            <4>1. CASE other = name
                <5>1. opens'[other] = opens[name] - 1 /\ k # opens[name]
                    BY <1>1, <1>2, <2>2, <3>1, <4>1
                <5>2. QED BY <1>1, <3>1, <4>1, <5>1
            <4>2. CASE other # name
                <5>1. opens'[other] = opens[other]
                    BY <1>1, <1>2, <4>2
                <5>2. QED BY <3>1, <5>1
            <4>3. QED BY <4>1, <4>2
        <3>3. QED BY <3>1, <3>2 DEF Opens
    <2>3. QED BY <2>1, <2>2
<1>5. Keys' = Keys
    BY <1>2 DEF Keys, Exists
<1>6. IsFiniteSet(Opens') /\ Cardinality(Opens') = Cardinality(Opens) - 1
    BY <1>3, <1>4, FS_RemoveElement DEF Counting
<1>7. Cardinality(Opens) \in Nat
    BY FS_CardinalityType DEF Counting
<1>8. QED BY <1>2, <1>5, <1>6, <1>7, InMemoryFSAssumption DEF Counting

\* A rename carries the opens of its path along; nothing is added to them, and
\* no key to the map.
LEMMA RenameCounts ==
    ASSUME Session, Counting, NEW name \in Names, NEW newName \in Names,
           name # newName, opens[newName] = 0, Exists(name),
           files' = Moved(name, newName), openFileCount' = openFileCount,
           opens' = [opens EXCEPT ![newName] = opens[name], ![name] = 0]
    PROVE  Counting'
<1> DEFINE f == [o \in Opens |-> IF o[1] = name THEN <<newName, o[2]>> ELSE o]
<1>1. opens \in [Names -> Nat] /\ files \in [Names -> File \cup {NoFile}]
    BY DEF Session
<1>2. /\ opens' \in [Names -> Nat]
      /\ opens'[name] = 0 /\ opens'[newName] = opens[name]
      /\ \A other \in Names \ {name, newName} : opens'[other] = opens[other]
    BY <1>1
<1>3. ASSUME NEW o \in Opens
      PROVE  /\ f[o] \in Opens' /\ o[1] # newName /\ o = <<o[1], o[2]>>
             /\ o[1] = name => f[o] = <<newName, o[2]>>
             /\ o[1] # name => f[o] = o
    <2>1. PICK other \in Names, k \in Nat : k \in 1..opens[other] /\ o = <<other, k>>
        BY AnOpen
    <2>2. other # newName
        BY <2>1
    <2>3. CASE other = name
        <3>1. f[o] = <<newName, k>> /\ k \in 1..opens'[newName]
            BY <1>2, <2>1, <2>3
        <3>2. f[o] \in Opens'
            BY <3>1, AnOpenThen
        <3>3. QED BY <2>1, <2>2, <2>3, <3>1, <3>2
    <2>4. CASE other # name
        <3>1. f[o] = o /\ k \in 1..opens'[other]
            BY <1>2, <2>1, <2>2, <2>4
        <3>2. f[o] \in Opens'
            BY <2>1, <3>1, AnOpenThen
        <3>3. QED BY <2>1, <2>2, <2>4, <3>1, <3>2
    <2>5. QED BY <2>3, <2>4
<1>4. f = [o \in Opens |-> f[o]]
    OBVIOUS
<1> HIDE DEF f
<1>5. ASSUME NEW x \in Opens' PROVE \E o \in Opens : f[o] = x
    <2>1. PICK other \in Names, k \in Nat : k \in 1..opens'[other] /\ x = <<other, k>>
        <3>1. PICK other \in Names : \E k \in 1..opens'[other] : x = <<other, k>>
            BY AnOpenThen
        <3>2. opens'[other] \in Nat
            BY <1>2
        <3>3. QED BY <3>1, <3>2
    <2>2. other # name
        BY <1>2, <2>1
    <2>3. CASE other = newName
        <3>1. <<name, k>> \in Opens
            BY <1>2, <2>1, <2>3, AnOpen
        <3>2. f[<<name, k>>] = x
            BY <1>3, <2>1, <2>3, <3>1
        <3>3. QED BY <3>1, <3>2
    <2>4. CASE other # newName
        <3>1. x \in Opens
            BY <1>2, <2>1, <2>2, <2>4, AnOpen
        <3>2. f[x] = x
            BY <1>3, <2>1, <2>2, <3>1
        <3>3. QED BY <3>1, <3>2
    <2>5. QED BY <2>3, <2>4
<1>6. f \in [Opens -> Opens']
    BY <1>3, <1>4
<1>7. ASSUME NEW o \in Opens, NEW p \in Opens, f[o] = f[p] PROVE o = p
    BY <1>3, <1>7
<1>8. IsFiniteSet(Opens') /\ Cardinality(Opens') = Cardinality(Opens)
    <2>1. f \in Bijection(Opens, Opens')
        BY <1>5, <1>6, <1>7 DEF Bijection, Injection, Surjection, IsInjective
    <2>2. QED BY <2>1, FS_Bijection DEF ExistsBijection, Counting
<1>9. NoFile \notin File
    BY InMemoryFSAssumption
<1>10. Keys' \subseteq (Keys \ {name}) \cup {newName}
    BY <1>1 DEF Keys, Exists, Moved
<1>11. name \in Keys
    BY DEF Keys
<1>12. IsFiniteSet(Keys') /\ Cardinality(Keys') <= Cardinality(Keys)
    <2> DEFINE rest == Keys \ {name}
               all == rest \cup {newName}
    <2>1. IsFiniteSet(rest) /\ Cardinality(rest) = Cardinality(Keys) - 1
        BY <1>11, FS_RemoveElement DEF Counting
    <2>2. Cardinality(Keys) \in Nat /\ Cardinality(rest) \in Nat
        BY <2>1, FS_CardinalityType DEF Counting
    <2> HIDE DEF rest
    <2>3. IsFiniteSet(all) /\ Cardinality(all) <= Cardinality(Keys)
        <3>1. IsFiniteSet(all) /\ Cardinality(all) = IF newName \in rest THEN Cardinality(rest)
                                                     ELSE Cardinality(rest) + 1
            BY <2>1, FS_AddElement
        <3>2. QED BY <2>1, <2>2, <3>1
    <2>4. Keys' \subseteq all
        BY <1>10 DEF rest
    <2> HIDE DEF all
    <2>5. IsFiniteSet(Keys') /\ Cardinality(Keys') <= Cardinality(all)
        BY <2>3, <2>4, FS_Subset
    <2>6. Cardinality(Keys') \in Nat /\ Cardinality(all) \in Nat
        BY <2>3, <2>5, FS_CardinalityType
    <2>7. QED BY <2>2, <2>3, <2>5, <2>6
<1>13. Cardinality(Keys) \in Nat /\ Cardinality(Keys') \in Nat
    BY <1>12, FS_CardinalityType DEF Counting
<1>14. QED BY <1>8, <1>12, <1>13, InMemoryFSAssumption DEF Counting

\* A file is created while there is room for one more.
LEMMA MknodCounts ==
    ASSUME Session, Counting, NEW name \in Names, NEW mode \in Modes, fuseMknod(name, mode)
    PROVE  Counting'
<1>1. CASE files' = files /\ openFileCount' = openFileCount /\ opens' = opens
    BY <1>1, SameOpens DEF Keys, Exists
<1>2. CASE /\ Cardinality(Keys) < NUM_DIR_ENTRIES
           /\ Stores("mknod", 0, [files EXCEPT ![name] = NewFile(mode)])
    <2>1. Keys' \subseteq Keys \cup {name}
        BY <1>2 DEF Stores, Session, Keys, Exists
    <2>2. /\ IsFiniteSet(Keys \cup {name})
          /\ Cardinality(Keys \cup {name}) = IF name \in Keys THEN Cardinality(Keys)
                                             ELSE Cardinality(Keys) + 1
        BY FS_AddElement DEF Counting
    <2>3. IsFiniteSet(Keys') /\ Cardinality(Keys') <= Cardinality(Keys \cup {name})
        BY <2>1, <2>2, FS_Subset
    <2>4. Cardinality(Keys) \in Nat /\ Cardinality(Keys') \in Nat
        BY <2>3, FS_CardinalityType DEF Counting
    <2>5. Opens' = Opens /\ openFileCount' = openFileCount
        BY <1>2 DEF Stores, Opens
    <2>6. QED BY <1>2, <2>2, <2>3, <2>4, <2>5, InMemoryFSAssumption DEF Counting
<1>3. QED BY <1>1, <1>2 DEF fuseMknod, Returns

\* Every handler keeps the counter and the limits right.
LEMMA CountsGoOn == Session /\ Counting /\ Next => Counting'
<1> SUFFICES ASSUME Session, Counting, Next PROVE Counting'
    OBVIOUS
<1>1. PICK name \in Names :
          \/ \E mode \in Modes : fuseMknod(name, mode) \/ fuseChmod(name, mode)
          \/ \E owner \in Owners : fuseChown(name, owner)
          \/ fuseUnlink(name)
          \/ \E newName \in Names : fuseRename(name, newName)
          \/ fuseOpen(name)
          \/ fuseRelease(name)
          \/ \E offset \in Offsets, size \in ReadSizes : fuseRead(name, offset, size)
          \/ \E offset \in Offsets, data \in Payloads : fuseWrite(name, offset, data)
          \/ \E newSize \in NewSizes : fuseTruncate(name, newSize)
    BY DEF Next
<1>2. CASE /\ opens' = opens /\ openFileCount' = openFileCount
           /\ \/ files' = files
              \/ Exists(name) /\ \E file : files' = [files EXCEPT ![name] = file]
              \/ files' = [files EXCEPT ![name] = NoFile]
    <2>1. files \in [Names -> File \cup {NoFile}]
        BY DEF Session
    <2>2. Keys' \subseteq Keys
        BY <1>2, <2>1 DEF Keys, Exists
    <2>3. QED BY <1>2, <2>2, SameOpens
<1>3. ASSUME NEW mode \in Modes, fuseMknod(name, mode) PROVE Counting'
    BY <1>3, MknodCounts
<1>4. ASSUME NEW newName \in Names, fuseRename(name, newName) PROVE Counting'
    <2>1. CASE Returns("rename", -ENOENT)
        BY <1>2, <2>1 DEF Returns
    <2>2. CASE ~Returns("rename", -ENOENT)
        BY <1>4, <2>2, RenameCounts DEF fuseRename
    <2>3. QED BY <2>1, <2>2
<1>5. ASSUME fuseOpen(name) PROVE Counting'
    <2>1. CASE files' = files /\ opens' = opens /\ openFileCount' = openFileCount
        BY <1>2, <2>1
    <2>2. CASE ~(files' = files /\ opens' = opens /\ openFileCount' = openFileCount)
        BY <1>5, <2>2, OpenCounts DEF fuseOpen, Returns
    <2>3. QED BY <2>1, <2>2
<1>6. ASSUME fuseRelease(name) PROVE Counting'
    BY <1>6, ReleaseCounts
<1>7. ASSUME \/ \E mode \in Modes : fuseChmod(name, mode)
             \/ \E owner \in Owners : fuseChown(name, owner)
             \/ fuseUnlink(name)
             \/ \E newSize \in NewSizes : fuseTruncate(name, newSize)
      PROVE Counting'
    <2>1. \A call, code, file : Stores(call, code, [files EXCEPT ![name] = file]) =>
              /\ opens' = opens /\ openFileCount' = openFileCount
              /\ files' = [files EXCEPT ![name] = file]
        BY DEF Stores
    <2>2. \A call, code : Returns(call, code) =>
              opens' = opens /\ openFileCount' = openFileCount /\ files' = files
        BY DEF Returns
    <2>3. QED BY <1>2, <1>7, <2>1, <2>2 DEF fuseChmod, fuseChown, fuseUnlink, fuseTruncate
<1>8. ASSUME \/ \E offset \in Offsets, size \in ReadSizes : fuseRead(name, offset, size)
             \/ \E offset \in Offsets, data \in Payloads : fuseWrite(name, offset, data)
      PROVE Counting'
    BY <1>2, <1>8 DEF fuseRead, fuseWrite, Returns
<1>9. QED BY <1>1, <1>3, <1>4, <1>5, <1>6, <1>7, <1>8

\* So does a step of nobody.
LEMMA CountsStutter == Counting /\ UNCHANGED vars => Counting'
BY SameOpens DEF vars, Keys, Exists

-----------------------------------------------------------------------------
(* The theorems.                                                           *)

\* The invariant holds throughout.
THEOREM SessionInvariant == Spec => []Session
<1>1. Init => Session
    BY InitialSession
<1>2. Session /\ [Next]_vars => Session'
    BY NextSteps, SessionStutters DEF Step
<1>3. QED BY <1>1, <1>2, PTL DEF Spec

\* fuseWrite and fuseRelease, which look the file of an open path up without a
\* check or count on finding it, do find it: also after any renames.
THEOREM OpenAreThere == Spec => []OpenFilesExist
<1>1. Session => OpenFilesExist
    BY DEF Session
<1>2. QED BY <1>1, SessionInvariant, PTL

\* The handlers are those of a store of files, for any number of files and
\* bytes, unless a rename has a target that exists.
THEOREM MemoryIsAStore == ~ReplacingRenames => (Spec => ImplementsFileStore)
<1>1. SUFFICES ASSUME ~ReplacingRenames PROVE Spec => ImplementsFileStore
    OBVIOUS
<1>2. Init => Store!Init
    BY DEF Init, Store!Init
<1>3. Session /\ [Next]_vars => [Store!Next]_<<files, reply>>
    BY <1>1, NextSteps DEF Step, vars
<1>4. QED BY <1>2, <1>3, SessionInvariant, PTL DEF Spec, ImplementsFileStore, Store!Spec

\* The count of open files, kept up by calls that name a path and not a handle,
\* is exact through every rename and unlink, and it and the number of files stay
\* within their bounds, if it starts at zero, as the constructor leaves to chance.
THEOREM CountsAreExact ==
    ASSUME FirstCounts = {0}
    PROVE  Spec => []CountsExact
<1>1. Init => Session /\ Counting
    BY InitialSession, InitialCounts
<1>2. Session /\ Counting /\ [Next]_vars => (Session /\ Counting)'
    BY NextSteps, SessionStutters, CountsGoOn, CountsStutter DEF Step
<1>3. Counting => CountsExact
    BY DEF Counting, CountsExact
<1>4. QED BY <1>1, <1>2, <1>3, PTL DEF Spec
=============================================================================
