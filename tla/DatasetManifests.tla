-------------------------- MODULE DatasetManifests --------------------------
(***************************************************************************)
(* One dataset manifest (datasets/manifest.py, `dataset` of cli.py): the   *)
(* file `dataset build` writes and the row it puts into dataset_manifests, *)
(* the `dataset lock` commands that rewrite the file in place, possibly at *)
(* the same time, and the people who edit it meanwhile.  A step is one     *)
(* system call on the file or one statement; a command may die before any  *)
(* of them.                                                                *)
(*                                                                         *)
(* A manifest is the body its hash covers (name, split, items, notes), the *)
(* fields manifest_hash and parent_hash, each given by the body they are   *)
(* the hash of, and the flag locked.                                       *)
(***************************************************************************)
EXTENDS Integers

CONSTANTS
    Bodies,    \* the bodies a manifest is built of or edited to
    Lockers,   \* the `dataset lock` commands of the run
    Builder,   \* the command `dataset build`
    MaxEdits,  \* bound: how often the file is edited
    NoBody,    \* a parent_hash of None
    Absent,    \* no such file, no such row, nothing read
    Torn       \* a file that is not JSON

ASSUME CommandAssumption == Builder \notin Lockers
ASSUME BodyAssumption == NoBody \notin Bodies
ASSUME BoundAssumption == MaxEdits \in Nat

Commands  == Lockers \cup {Builder}
Manifests == [body : Bodies, hash : Bodies, parent : Bodies \cup {NoBody},
              locked : BOOLEAN]

ASSUME MarkAssumption == {Absent, Torn} \cap Manifests = {} /\ Absent # Torn

VARIABLES
    file,    \* the manifest's file
    row,     \* its row in dataset_manifests
    pc,      \* where each command is
    text,    \* the manifest a command is about to write
    alone,   \* the commands that truncated the file with no write since
    edits,   \* how often the file was edited
    sealed   \* history: the bodies that were locked

vars == <<file, row, pc, text, alone, edits, sealed>>

Init ==
    /\ file = Absent /\ row = Absent
    /\ pc = [c \in Commands |-> "start"]
    /\ text = [c \in Commands |-> Absent]
    /\ alone = {}
    /\ edits = 0
    /\ sealed = {}

Goto(c, label) == pc' = [pc EXCEPT ![c] = label]

-----------------------------------------------------------------------------
(* build_manifest and lock_manifest.                                       *)
Built(b) == [body |-> b, hash |-> b, parent |-> NoBody, locked |-> FALSE]

(* Mutation: a locked manifest is locked again.                            *)
LockedAgain(m) ==
    [body |-> m.body, hash |-> m.body, parent |-> m.hash, locked |-> TRUE]

(* Mutation: the parent is left as it was.                                 *)
LockedWithoutParent(m) ==
    IF m.locked THEN m ELSE [m EXCEPT !.hash = m.body, !.locked = TRUE]

(* A locked manifest is returned as it is; any other is hashed anew, with  *)
(* the hash it came with as its parent, whether or not that one is right.  *)
Locked(m) ==
    IF m.locked THEN m
    ELSE [body |-> m.body, hash |-> m.body, parent |-> m.hash, locked |-> TRUE]

Verifies(m) == m.hash = m.body

Load(c, m) ==
    /\ text' = [text EXCEPT ![c] = Locked(m)]
    /\ sealed' = IF m.locked THEN sealed ELSE sealed \cup {m.body}
    /\ Goto(c, "open")

-----------------------------------------------------------------------------
(* dataset build [--lock]: the file first, then the row.                   *)
Build(b) ==
    /\ pc[Builder] = "start"
    /\ text' = [text EXCEPT ![Builder] = Built(b)]
    /\ Goto(Builder, "open")
    /\ UNCHANGED <<file, row, alone, edits, sealed>>

BuildLocked(b) ==
    /\ pc[Builder] = "start"
    /\ Load(Builder, Built(b))
    /\ UNCHANGED <<file, row, alone, edits>>

(* dataset lock: the file is read whole, and not looked at again.          *)
ReadFile(c) ==
    /\ c \in Lockers /\ pc[c] = "start" /\ file \in Manifests
    /\ Load(c, file)
    /\ UNCHANGED <<file, row, alone, edits>>

(* FileNotFoundError, or JSONDecodeError while another command writes.     *)
ReadFails(c) ==
    /\ c \in Lockers /\ pc[c] = "start" /\ file \in {Absent, Torn}
    /\ Goto(c, "died")
    /\ UNCHANGED <<file, row, text, alone, edits, sealed>>

(* Path.write_text: open truncates, then the text is written from offset 0.*)
Open(c) ==
    /\ pc[c] = "open"
    /\ file' = Torn
    /\ alone' = alone \cup {c}
    /\ Goto(c, "write")
    /\ UNCHANGED <<row, text, edits, sealed>>

(* Over the text of another command, a longer tail of that may remain.     *)
Write(c) ==
    /\ pc[c] = "write"
    /\ file' \in {text[c]} \cup (IF c \in alone THEN {} ELSE {Torn})
    /\ alone' = {}
    /\ Goto(c, IF c = Builder THEN "row" ELSE "done")
    /\ UNCHANGED <<row, text, edits, sealed>>

(* put_dataset_manifest.                                                   *)
PutRow ==
    /\ pc[Builder] = "row"
    /\ row' = text[Builder]
    /\ Goto(Builder, "done")
    /\ UNCHANGED <<file, text, alone, edits, sealed>>

(* Killed, out of space, or the store cannot be opened; part of the text   *)
(* may have been written.                                                  *)
Die(c) ==
    /\ pc[c] \in {"open", "write", "row"}
    /\ file' \in {file} \cup (IF pc[c] = "write" THEN {Torn} ELSE {})
    /\ Goto(c, "died")
    /\ alone' = IF pc[c] = "write" THEN {} ELSE alone
    /\ UNCHANGED <<row, text, edits, sealed>>

(* Somebody edits the items by hand and leaves the other fields alone.     *)
Edit(b) ==
    /\ file \in Manifests /\ edits < MaxEdits
    /\ file' = [file EXCEPT !.body = b]
    /\ edits' = edits + 1
    /\ alone' = {}
    /\ UNCHANGED <<row, pc, text, sealed>>

Next ==
    \/ \E b \in Bodies : Build(b) \/ BuildLocked(b) \/ Edit(b)
    \/ \E c \in Commands : ReadFile(c) \/ ReadFails(c) \/ Open(c) \/ Write(c) \/ Die(c)
    \/ PutRow

Spec == Init /\ [][Next]_vars

-----------------------------------------------------------------------------
Begun(c) == pc[c] \in {"open", "write", "row", "done"}

TypeOK ==
    /\ file \in Manifests \cup {Absent, Torn}
    /\ row \in Manifests \cup {Absent}
    /\ pc \in [Commands -> {"start", "open", "write", "row", "done", "died"}]
    /\ text \in [Commands -> Manifests \cup {Absent}]
    /\ \A c \in Commands : Begun(c) => text[c] \in Manifests
    /\ alone \subseteq {c \in Commands : pc[c] = "write"}
    /\ edits \in 0 .. MaxEdits
    /\ sealed \subseteq Bodies

(* "Immutable dataset manifests" (manifest.py:1): the body of a locked     *)
(* manifest that verifies is one that was locked.  An edit of a locked     *)
(* file never verifies, not after it is locked again and not when a lock   *)
(* command that had read the file before writes it back.                   *)
TamperEvident ==
    file \in Manifests /\ file.locked /\ Verifies(file) => file.body \in sealed

(* A manifest traces back to its row in dataset_manifests: by its hash     *)
(* while it is unlocked, by parent_hash once it is locked (manifest.py:91),*)
(* whatever was edited, written twice or torn in between.                  *)
LineageFound ==
    file \in Manifests /\ row \in Manifests =>
        row.hash = IF file.locked THEN file.parent ELSE file.hash

(* What every copy of the manifest has in common with the one built: the   *)
(* inductive strengthening of TamperEvident and LineageFound.              *)
Origin == text[Builder]

FromOrigin(m) ==
    /\ Origin \in Manifests
    /\ Origin.hash = IF m.locked THEN m.parent ELSE m.hash
    /\ m.locked => m.hash \in sealed

CopyInv ==
    /\ file \in Manifests => FromOrigin(file)
    /\ \A c \in Commands : text[c] \in Manifests => FromOrigin(text[c])
    /\ row \in Manifests => row = Origin
    /\ pc[Builder] = "start" =>
           /\ file = Absent /\ row = Absent
           /\ \A c \in Commands : text[c] = Absent
=============================================================================
