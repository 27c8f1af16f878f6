----------------------- MODULE DatasetManifestsProofs -----------------------
(***************************************************************************)
(* A locked manifest that verifies is one that was locked, and a manifest  *)
(* leads back to its row, for every number of lock commands and edits and  *)
(* wherever a command dies.                                                *)
(*                                                                         *)
(* The invariant, CopyInv, follows the copies of the manifest that are     *)
(* about: the file, the row, and what each command has in memory.  All of  *)
(* them come from what `dataset build` made, and a locked one was hashed   *)
(* by a command that locked it.                                            *)
(***************************************************************************)
EXTENDS RootFiles, TLAPS

(* Locking a copy of the manifest gives a manifest, and again a copy of    *)
(* the one that was built, once its body counts as locked.                 *)
LEMMA LockedCopy ==
    ASSUME NEW m \in Manifests
    PROVE  /\ Locked(m) \in Manifests
           /\ m.locked => Locked(m) = m
           /\ ~m.locked => Locked(m) = [body |-> m.body, hash |-> m.body,
                                        parent |-> m.hash, locked |-> TRUE]
    BY DEF Manifests, Locked

(* The marks for no manifest are no manifests.                             *)
LEMMA Marks == Absent \notin Manifests /\ Torn \notin Manifests /\ Absent # Torn
    BY MarkAssumption

-----------------------------------------------------------------------------
(* Types of the variables: in particular a command past its start has a    *)
(* manifest to write, and only commands about to write are alone.          *)
THEOREM TypeCorrect == Spec => []TypeOK
<1>1. Init => TypeOK
    BY BoundAssumption DEF Init, TypeOK, Begun
<1>2. TypeOK /\ [Next]_vars => TypeOK'
  <2>0. SUFFICES ASSUME TypeOK, [Next]_vars PROVE TypeOK'
    OBVIOUS
  <2>1. ASSUME NEW b \in Bodies, Build(b) PROVE TypeOK'
    <3>1. Built(b) \in Manifests
      BY DEF Built, Manifests
    <3>2. QED
      BY <2>0, <2>1, <3>1, CommandAssumption
      DEF TypeOK, Build, Begun, Goto, Commands
  <2>2. ASSUME NEW b \in Bodies, BuildLocked(b) PROVE TypeOK'
    <3>1. Built(b) \in Manifests /\ Built(b).body = b
      BY DEF Built, Manifests
    <3>2. Locked(Built(b)) \in Manifests
      BY <3>1, LockedCopy
    <3>3. QED
      BY <2>0, <2>2, <3>1, <3>2, CommandAssumption
      DEF TypeOK, BuildLocked, Load, Begun, Goto, Commands
  <2>3. ASSUME NEW b \in Bodies, Edit(b) PROVE TypeOK'
    <3>1. file' \in Manifests
      BY <2>3 DEF Edit, Manifests
    <3>2. edits' \in 0 .. MaxEdits
      BY <2>0, <2>3, BoundAssumption DEF TypeOK, Edit
    <3>3. QED
      BY <2>0, <2>3, <3>1, <3>2 DEF TypeOK, Edit, Begun
  <2>4. ASSUME NEW c \in Commands, ReadFile(c) PROVE TypeOK'
    <3>1. Locked(file) \in Manifests /\ file.body \in Bodies
      BY <2>4, LockedCopy DEF ReadFile, Manifests
    <3>2. QED
      BY <2>0, <2>4, <3>1 DEF TypeOK, ReadFile, Load, Begun, Goto
  <2>5. ASSUME NEW c \in Commands, ReadFails(c) PROVE TypeOK'
    BY <2>0, <2>5 DEF TypeOK, ReadFails, Begun, Goto
  <2>6. ASSUME NEW c \in Commands, Open(c) PROVE TypeOK'
    BY <2>0, <2>6 DEF TypeOK, Open, Begun, Goto
  <2>7. ASSUME NEW c \in Commands, Write(c) PROVE TypeOK'
    <3>1. text[c] \in Manifests
      BY <2>0, <2>7 DEF TypeOK, Write, Begun
    <3>2. QED
      BY <2>0, <2>7, <3>1 DEF TypeOK, Write, Begun, Goto
  <2>8. ASSUME NEW c \in Commands, Die(c) PROVE TypeOK'
    BY <2>0, <2>8 DEF TypeOK, Die, Begun, Goto
  <2>9. CASE PutRow
    BY <2>0, <2>9 DEF TypeOK, PutRow, Begun, Goto, Commands
  <2>10. CASE UNCHANGED vars
    BY <2>0, <2>10 DEF TypeOK, vars, Begun
  <2>11. QED
    BY <2>0, <2>1, <2>2, <2>3, <2>4, <2>5, <2>6, <2>7, <2>8, <2>9, <2>10 DEF Next
<1>3. QED
    BY <1>1, <1>2, PTL DEF Spec

-----------------------------------------------------------------------------
(* Every copy of the manifest comes from the one that was built, and a     *)
(* locked copy carries the hash of a body that a command locked.           *)
THEOREM CopiesCorrect == Spec => []CopyInv
<1>1. Init => CopyInv
    BY Marks DEF Init, CopyInv
<1>2. TypeOK /\ TypeOK' /\ CopyInv /\ [Next]_vars => CopyInv'
  <2>0. SUFFICES ASSUME TypeOK, TypeOK', CopyInv, [Next]_vars PROVE CopyInv'
    OBVIOUS
  <2>1. ASSUME NEW b \in Bodies, Build(b) PROVE CopyInv'
    <3>1. Built(b) \in Manifests /\ ~Built(b).locked
      BY DEF Built, Manifests
    <3>2. /\ file = Absent /\ row = Absent
          /\ \A c \in Commands : text[c] = Absent
      BY <2>0, <2>1 DEF CopyInv, Build
    <3>3. /\ text' = [c \in Commands |-> IF c = Builder THEN Built(b) ELSE Absent]
          /\ file' = Absent /\ row' = Absent /\ pc'[Builder] # "start"
      BY <2>0, <2>1, <3>2 DEF Build, Goto, TypeOK, Commands
    <3>4. QED
      BY <3>1, <3>3, Marks DEF CopyInv, FromOrigin, Origin, Commands
  <2>2. ASSUME NEW b \in Bodies, BuildLocked(b) PROVE CopyInv'
    <3>1. Built(b) \in Manifests /\ ~Built(b).locked /\ Built(b).body = b
      BY DEF Built, Manifests
    <3>2. /\ file = Absent /\ row = Absent
          /\ \A c \in Commands : text[c] = Absent
      BY <2>0, <2>2 DEF CopyInv, BuildLocked
    <3>3. /\ text' = [c \in Commands |-> IF c = Builder THEN Locked(Built(b)) ELSE Absent]
          /\ file' = Absent /\ row' = Absent /\ pc'[Builder] # "start"
          /\ b \in sealed'
      BY <2>0, <2>2, <3>1, <3>2 DEF BuildLocked, Load, Goto, TypeOK, Commands
    <3>4. Locked(Built(b)) = [body |-> b, hash |-> b, parent |-> b, locked |-> TRUE]
      BY <3>1, LockedCopy DEF Built
    <3>5. Locked(Built(b)) \in Manifests
      BY <3>1, LockedCopy
    <3>6. QED
      BY <3>3, <3>4, <3>5, Marks DEF CopyInv, FromOrigin, Origin, Commands
  <2>3. ASSUME NEW b \in Bodies, Edit(b) PROVE CopyInv'
    <3>1. /\ file \in Manifests /\ file' = [file EXCEPT !.body = b]
          /\ UNCHANGED <<row, pc, text, sealed>>
      BY <2>3 DEF Edit
    <3>2. file'.hash = file.hash /\ file'.parent = file.parent /\ file'.locked = file.locked
      BY <3>1 DEF Manifests
    <3>3. FromOrigin(file)
      BY <2>0, <3>1 DEF CopyInv
    <3>4. FromOrigin(file)'
      BY <3>1, <3>2, <3>3 DEF FromOrigin, Origin
    <3>5. pc'[Builder] # "start"
      BY <2>0, <3>1, Marks DEF CopyInv
    <3>6. QED
      BY <2>0, <3>1, <3>4, <3>5 DEF CopyInv, FromOrigin, Origin
  <2>4. ASSUME NEW c \in Commands, ReadFile(c) PROVE CopyInv'
    <3>1. /\ c \in Lockers /\ c # Builder /\ file \in Manifests
          /\ text' = [text EXCEPT ![c] = Locked(file)]
          /\ sealed' = IF file.locked THEN sealed ELSE sealed \cup {file.body}
          /\ UNCHANGED <<file, row>>
          /\ pc'[Builder] = pc[Builder]
      BY <2>0, <2>4, CommandAssumption DEF ReadFile, Load, Goto, TypeOK, Commands
    <3>2. text'[Builder] = text[Builder] /\ text'[c] = Locked(file)
      BY <2>0, <3>1 DEF TypeOK, Commands
    <3>3. ASSUME NEW m, FromOrigin(m) PROVE FromOrigin(m)'
      BY <3>1, <3>2, <3>3 DEF FromOrigin, Origin
    <3>4. FromOrigin(file)
      BY <2>0, <3>1 DEF CopyInv
    <3>5. FromOrigin(Locked(file))'
      <4>1. CASE file.locked
        BY <3>1, <3>2, <3>4, <4>1, LockedCopy DEF FromOrigin, Origin
      <4>2. CASE ~file.locked
        BY <3>1, <3>2, <3>4, <4>2, LockedCopy DEF FromOrigin, Origin
      <4>3. QED
        BY <4>1, <4>2
    <3>6. ASSUME NEW d \in Commands, text'[d] \in Manifests PROVE FromOrigin(text[d])'
      <4>1. CASE d = c
        <5>1. text'[d] = Locked(file)'
          BY <3>1, <3>2, <4>1 DEF Locked
        <5>2. QED
          BY <3>5, <5>1 DEF FromOrigin, Origin
      <4>2. CASE d # c
        <5>1. text'[d] = text[d]
          BY <2>0, <3>1, <4>2 DEF TypeOK
        <5>2. FromOrigin(text[d])
          BY <2>0, <3>6, <5>1 DEF CopyInv
        <5>3. QED
          BY <3>1, <3>2, <5>1, <5>2 DEF FromOrigin, Origin
      <4>3. QED
        BY <4>1, <4>2
    <3>7. FromOrigin(file)'
      BY <3>1, <3>2, <3>4 DEF FromOrigin, Origin
    <3>8. pc'[Builder] # "start"
      BY <2>0, <3>1, Marks DEF CopyInv
    <3>9. row' \in Manifests => row' = text'[Builder]
      BY <2>0, <3>1, <3>2 DEF CopyInv, Origin
    <3>10. QED
      BY <3>6, <3>7, <3>8, <3>9 DEF CopyInv, Origin
  <2>5. ASSUME NEW c \in Commands, ReadFails(c) PROVE CopyInv'
    BY <2>0, <2>5, CommandAssumption
    DEF CopyInv, ReadFails, Goto, FromOrigin, Origin, TypeOK, Commands
  <2>6. ASSUME NEW c \in Commands, Open(c) PROVE CopyInv'
    <3>1. pc[Builder] # "start"
      <4>1. text[c] \in Manifests
        BY <2>0, <2>6 DEF TypeOK, Open, Begun
      <4>2. QED
        BY <2>0, <4>1, Marks DEF CopyInv
    <3>2. pc'[Builder] # "start"
      BY <2>0, <2>6, <3>1 DEF Open, Goto, TypeOK, Commands
    <3>3. QED
      BY <2>0, <2>6, <3>2, Marks DEF CopyInv, Open, FromOrigin, Origin
  <2>7. ASSUME NEW c \in Commands, Write(c) PROVE CopyInv'
    <3>1. text[c] \in Manifests
      BY <2>0, <2>7 DEF TypeOK, Write, Begun
    <3>2. pc[Builder] # "start"
      BY <2>0, <3>1, Marks DEF CopyInv
    <3>3. pc'[Builder] # "start"
      BY <2>0, <2>7, <3>2 DEF Write, Goto, TypeOK, Commands
    <3>4. file' = text[c] \/ file' = Torn
      BY <2>7 DEF Write
    <3>5. UNCHANGED <<row, text, sealed>>
      BY <2>7 DEF Write
    <3>6. file' \in Manifests => FromOrigin(file)'
      BY <2>0, <3>1, <3>4, <3>5, Marks DEF CopyInv, FromOrigin, Origin
    <3>7. QED
      BY <2>0, <3>3, <3>5, <3>6 DEF CopyInv, FromOrigin, Origin
  <2>8. ASSUME NEW c \in Commands, Die(c) PROVE CopyInv'
    <3>1. text[c] \in Manifests
      BY <2>0, <2>8 DEF TypeOK, Die, Begun
    <3>2. pc[Builder] # "start"
      BY <2>0, <3>1, Marks DEF CopyInv
    <3>3. pc'[Builder] # "start"
      BY <2>0, <2>8, <3>2 DEF Die, Goto, TypeOK, Commands
    <3>4. file' = file \/ file' = Torn
      BY <2>8 DEF Die
    <3>5. UNCHANGED <<row, text, sealed>>
      BY <2>8 DEF Die
    <3>6. QED
      BY <2>0, <3>3, <3>4, <3>5, Marks DEF CopyInv, FromOrigin, Origin
  <2>9. CASE PutRow
    <3>1. pc'[Builder] # "start"
      BY <2>0, <2>9 DEF PutRow, Goto, TypeOK, Commands
    <3>2. QED
      BY <2>0, <2>9, <3>1 DEF CopyInv, PutRow, FromOrigin, Origin
  <2>10. CASE UNCHANGED vars
    BY <2>0, <2>10 DEF CopyInv, vars, FromOrigin, Origin
  <2>11. QED
    BY <2>0, <2>1, <2>2, <2>3, <2>4, <2>5, <2>6, <2>7, <2>8, <2>9, <2>10 DEF Next
<1>3. QED
    BY <1>1, <1>2, TypeCorrect, PTL DEF Spec

-----------------------------------------------------------------------------
(* An edit of a locked manifest is found out by verify, whichever lock     *)
(* commands run over it.                                                   *)
THEOREM TamperCorrect == Spec => []TamperEvident
<1>1. CopyInv => TamperEvident
    BY DEF CopyInv, FromOrigin, TamperEvident, Verifies
<1>2. QED
    BY <1>1, CopiesCorrect, PTL

(* The row of a manifest has the hash its file names: its own while it is  *)
(* unlocked, its parent's once it is locked.  A row that was built locked  *)
(* is the hash of the body it was locked with, which is its parent's.      *)
THEOREM LineageCorrect == Spec => []LineageFound
<1>1. CopyInv => LineageFound
    BY DEF CopyInv, FromOrigin, LineageFound, Origin
<1>2. QED
    BY <1>1, CopiesCorrect, PTL
-----------------------------------------------------------------------------
(***************************************************************************)
(* The blob.  A file without all its bytes is one that some call opened    *)
(* and has not written (TornInv); the call that moves it there has written *)
(* what it had open, so that is another call.                              *)
(***************************************************************************)
BlobInv == Blob!FileInv /\ Blob!NamesInv /\ Blob!TornInv

(* No step takes the blob away, and each keeps BlobInv.                    *)
LEMMA BlobStep == BlobInv /\ [Blob!BlobNext]_blobs => BlobInv'
<1> SUFFICES ASSUME BlobInv, [Blob!BlobNext]_blobs PROVE BlobInv'
    OBVIOUS
<1> USE DEF BlobInv, Blob!FileInv, Blob!NamesInv, Blob!TornInv, Blob!Readable, Blob!Goto
<1>1. ASSUME NEW w \in Writers, Blob!Look(w) PROVE BlobInv'
    BY <1>1 DEF Blob!Look
<1>2. ASSUME NEW w \in Writers, Blob!OpenTemp(w) PROVE BlobInv'
    BY <1>2 DEF Blob!OpenTemp
<1>3. ASSUME NEW w \in Writers, Blob!WriteTemp(w) PROVE BlobInv'
    BY <1>3 DEF Blob!WriteTemp
<1>4. ASSUME NEW w \in Writers, Blob!Replace(w) PROVE BlobInv'
    BY <1>4 DEF Blob!Replace
<1>5. ASSUME NEW w \in Writers, Blob!ReplaceFails(w) PROVE BlobInv'
    BY <1>5 DEF Blob!ReplaceFails
<1>6. ASSUME NEW w \in Writers, Blob!InsertArtifact(w) PROVE BlobInv'
    BY <1>6 DEF Blob!InsertArtifact
<1>7. ASSUME NEW w \in Writers, Blob!CallDies(w) PROVE BlobInv'
    BY <1>7 DEF Blob!CallDies
<1>8. CASE UNCHANGED blobs
    BY <1>8 DEF blobs
<1> QED
    BY <1>1, <1>2, <1>3, <1>4, <1>5, <1>6, <1>7, <1>8 DEF Blob!BlobNext

(* The commands of datasets and the calls of the blob store share no file, *)
(* so what holds of either alone holds of both.                            *)
LEMMA FilesStep ==
    [FilesNext]_<<vars, blobs>> => [Next]_vars /\ [Blob!BlobNext]_blobs
BY DEF FilesNext

THEOREM FilesImplementManifests == FilesSpec => Spec
<1>1. FilesInit => Init
    BY DEF FilesInit
<1> QED
    BY <1>1, FilesStep, PTL DEF FilesSpec, Spec

(* A blob that an artifact names is there, whoever died on the way, and    *)
(* has all its bytes unless two calls met.                                 *)
THEOREM BlobCorrect == FilesSpec => []BlobReadable
<1>1. FilesInit => BlobInv
    BY DEF FilesInit, Blob!BlobInit, BlobInv, Blob!FileInv, Blob!NamesInv,
       Blob!TornInv, Blob!Readable
<1>2. BlobInv => BlobReadable
    BY DEF BlobInv, Blob!TornInv, BlobReadable
<1> QED
    BY <1>1, <1>2, BlobStep, FilesStep, PTL DEF FilesSpec
=============================================================================
