----------------------------- MODULE RootFiles -----------------------------
(* The files commands keep below a root beside state.db: a dataset's       *)
(* manifest and the blobs.  Their commands run at the same time and share  *)
(* no file.                                                                *)
EXTENDS DatasetManifests

CONSTANTS Writers

VARIABLES blob, temp, created, whole, at, holds, named, moved

blobs == <<blob, temp, created, whole, at, holds, named, moved>>

Blob == INSTANCE BlobStore

FilesInit == Init /\ Blob!BlobInit

FilesNext ==
    \/ Next /\ UNCHANGED blobs
    \/ Blob!BlobNext /\ UNCHANGED vars

FilesSpec == FilesInit /\ [][FilesNext]_<<vars, blobs>>

(* A blob is there when an artifact's row names it, and has all its bytes  *)
(* unless two calls that saved the same content met (store.py:27-38).      *)
BlobReadable == Blob!Readable
=============================================================================
