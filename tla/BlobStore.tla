----------------------------- MODULE BlobStore -----------------------------
(***************************************************************************)
(* One blob of the content-addressed store (BlobStore.put_bytes) and the   *)
(* rows of artifacts that name it (save_json_artifact).  No lock is held   *)
(* around put_bytes, so threads and processes that save the same content   *)
(* meet in the blob's file and in its temporary file, whose name depends   *)
(* on the digest alone.  A step is one system call or one statement.       *)
(*                                                                         *)
(* Files are numbered as they are created.  A name may move while a writer *)
(* has its file open: what it writes then lands wherever the file is by    *)
(* now.  All write the same bytes, so a file is whole or it is torn.       *)
(***************************************************************************)
EXTENDS Integers

CONSTANTS Writers   \* the calls of save_json_artifact with this content

VARIABLES
    blob,     \* the file at the blob's name, or 0
    temp,     \* the file at the temporary name, or 0
    created,  \* how many files were created
    whole,    \* the files with all the bytes
    at,       \* where each call is
    holds,    \* the file a call has open, or had when it died, or 0
    named,    \* the calls whose row is in artifacts
    moved     \* history: the calls that moved a temporary file to the blob

BlobInit ==
    /\ blob = 0 /\ temp = 0 /\ created = 0
    /\ whole = {} /\ named = {} /\ moved = {}
    /\ at = [w \in Writers |-> "start"]
    /\ holds = [w \in Writers |-> 0]

Goto(w, label) == at' = [at EXCEPT ![w] = label]

(* path.exists(), looked at once.                                          *)
Look(w) ==
    /\ at[w] = "start"
    /\ Goto(w, IF blob = 0 THEN "open" ELSE "row")
    /\ UNCHANGED <<blob, temp, created, whole, holds, named, moved>>

(* Mutation: the bytes are written under the blob's own name.              *)
OpenTempInPlace(w) ==
    /\ at[w] = "open"
    /\ IF blob = 0
       THEN /\ created' = created + 1 /\ blob' = created' /\ UNCHANGED whole
       ELSE /\ whole' = whole \ {blob} /\ UNCHANGED <<created, blob>>
    /\ holds' = [holds EXCEPT ![w] = blob']
    /\ Goto(w, "write")
    /\ UNCHANGED <<temp, named, moved>>

(* open(tmp, "wb") creates the file or truncates the one that is there.    *)
OpenTemp(w) ==
    /\ at[w] = "open"
    /\ IF temp = 0
       THEN /\ created' = created + 1 /\ temp' = created' /\ UNCHANGED whole
       ELSE /\ whole' = whole \ {temp} /\ UNCHANGED <<created, temp>>
    /\ holds' = [holds EXCEPT ![w] = temp']
    /\ Goto(w, "write")
    /\ UNCHANGED <<blob, named, moved>>

WriteTemp(w) ==
    /\ at[w] = "write"
    /\ whole' = whole \cup {holds[w]}
    /\ holds' = [holds EXCEPT ![w] = 0]
    /\ Goto(w, "replace")
    /\ UNCHANGED <<blob, temp, created, named, moved>>

(* os.replace moves whatever file has the temporary name by now.           *)
Replace(w) ==
    /\ at[w] = "replace" /\ temp # 0
    /\ blob' = temp
    /\ temp' = 0
    /\ moved' = moved \cup {w}
    /\ Goto(w, "row")
    /\ UNCHANGED <<created, whole, holds, named>>

(* FileNotFoundError: another call has moved it.                           *)
ReplaceFails(w) ==
    /\ at[w] = "replace" /\ temp = 0
    /\ Goto(w, "failed")
    /\ UNCHANGED <<blob, temp, created, whole, holds, named, moved>>

InsertArtifact(w) ==
    /\ at[w] = "row"
    /\ named' = named \cup {w}
    /\ Goto(w, "done")
    /\ UNCHANGED <<blob, temp, created, whole, holds, moved>>

(* Killed, out of space, or the database is locked too long.               *)
CallDies(w) ==
    /\ at[w] \in {"open", "write", "replace", "row"}
    /\ Goto(w, "died")
    /\ UNCHANGED <<blob, temp, created, whole, holds, named, moved>>

BlobNext ==
    \E w \in Writers :
        \/ Look(w) \/ OpenTemp(w) \/ WriteTemp(w) \/ Replace(w)
        \/ ReplaceFails(w) \/ InsertArtifact(w) \/ CallDies(w)

(* An artifact's row, and a put_bytes that raised because another call was *)
(* faster, mean that the blob is there.  It lacks bytes only by a race:    *)
(* one call moved the file, and another one has it open and is about to    *)
(* write it or died before it did.  A call that dies alone never tears it, *)
(* and a temporary file it leaves behind does not survive the next call.   *)
Readable ==
    /\ (named # {} \/ \E w \in Writers : at[w] = "failed") => blob # 0
    /\ blob \notin whole \cup {0} =>
           \E w \in Writers :
               /\ holds[w] = blob /\ at[w] \in {"write", "died"}
               /\ moved \ {w} # {}

(* Why: whoever opened the temporary file left it there or had it moved,   *)
(* and a file that lacks bytes has somebody who had it open.               *)
FileInv ==
    /\ created \in Nat /\ {blob, temp} \subseteq 0 .. created
    /\ at \in [Writers -> {"start", "open", "write", "replace", "row", "done",
                           "failed", "died"}]
    /\ holds \in [Writers -> 0 .. created]
    /\ \A w \in Writers : holds[w] # 0 => at[w] \in {"write", "died"}

NamesInv ==
    /\ \A w \in Writers : at[w] \in {"write", "replace"} => temp # 0 \/ blob # 0
    /\ \A w \in Writers : at[w] \in {"row", "done", "failed"} => blob # 0
    /\ named \subseteq {w \in Writers : at[w] = "done"}

TornInv ==
    /\ blob = temp => blob = 0
    /\ temp \notin whole \cup {0} =>
           \E w \in Writers : holds[w] = temp /\ at[w] \in {"write", "died"}
    /\ Readable
=============================================================================
