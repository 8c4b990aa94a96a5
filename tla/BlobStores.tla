------------------------------ MODULE BlobStores ------------------------------
(***************************************************************************)
(* The two blob stores and the URIs that name bytes in them                *)
(* (internal/blobstore), across restarts that may change FILE_STORAGE.  A  *)
(* row keeps the URI its bytes were put under; a delete hands it to the    *)
(* blob store of the day.  The steps of one event are one step here:       *)
(* FileMirror is about their interleaving and failures.                    *)
(***************************************************************************)
EXTENDS FiniteSets

CONSTANTS Posts,         \* messages that may list files
          Files

VARIABLES storage,       \* FILE_STORAGE of the running process
          edges,         \* message_files
          uri,           \* storage_uri of each file's row; Absent without a row
          bytes,         \* the <<store, file>> pairs whose bytes exist
          moved          \* has FILE_STORAGE changed since the first start?

storeVars == <<storage, edges, uri, bytes, moved>>

Stores == {"local", "gcs"}
Absent == "absent"
Unset == ""              \* a row whose file was skipped or failed

\* The settings, the tables and the bytes hold values of their kind.
StoresTypeOK ==
    /\ storage \in {"none"} \cup Stores
    /\ edges \subseteq Posts \X Files
    /\ uri \in [Files -> {Absent, Unset} \cup Stores]
    /\ bytes \subseteq Stores \X Files
    /\ moved \in BOOLEAN

StoresInit == /\ storage \in {"none"} \cup Stores
              /\ edges = {}
              /\ uri = [f \in Files |-> Absent]
              /\ bytes = {}
              /\ moved = FALSE

Linked(E) == {e[2] : e \in E}

(* Put writes the object files/<id>, over the one that was there.          *)
Put(f) == bytes \cup {<<storage, f>>}

(***************************************************************************)
(* Delete of each of fs, in any order, up to the first error.  The local   *)
(* store takes any URI for a path: bytes of the bucket are no file, which  *)
(* is no error.  GCS makes a bucket name of a file:// URI and gets an      *)
(* error, and what is left of fs is not deleted.  With files off there is  *)
(* no blob store, and nothing is deleted.                                  *)
(***************************************************************************)
DeleteBlobsLocally(fs) ==                               \* mutant
    {bytes \ {<<"local", f>> : f \in fs}}
DeleteBlobs(fs) ==
    LET here == {f \in fs : uri[f] = storage}
        foreign == {f \in fs : uri[f] \in Stores \ {storage}}
    IN  IF storage = "none" THEN {bytes}
        ELSE IF storage = "gcs" /\ foreign # {}
             THEN {bytes \ {<<storage, f>> : f \in done} : done \in SUBSET here}
             ELSE {bytes \ {<<storage, f>> : f \in here}}

(* What DropMessage and ReconcileMessageFiles do with the files of the    *)
(* edges they remove: those without an edge lose their row and their bytes. *)
Orphans(removed) == Linked(removed) \ Linked(edges \ removed)
Collect(removed) ==
    /\ edges' = edges \ removed
    /\ uri' = [f \in Files |-> IF f \in Orphans(removed) THEN Absent ELSE uri[f]]
    /\ bytes' \in DeleteBlobs(Orphans(removed))

(* Downloader.Handle for a message that lists fs: reconcile, then record,  *)
(* link and store each; a file that is skipped keeps the URI it has.       *)
Reconcile(m, fs) ==
    /\ storage # "none"
    /\ \E e \in edges : e[1] = m /\ e[2] \notin fs
    /\ Collect({e \in edges : e[1] = m /\ e[2] \notin fs})
    /\ UNCHANGED <<storage, moved>>

Mirror(m, f) ==
    /\ storage # "none"
    /\ edges' = edges \cup {<<m, f>>}
    /\ \/ /\ bytes' = Put(f)
          /\ uri' = [uri EXCEPT ![f] = storage]
       \/ /\ bytes' = bytes
          /\ uri' = [uri EXCEPT ![f] = IF @ = Absent THEN Unset ELSE @]
    /\ UNCHANGED <<storage, moved>>

(* Deleted messages lose their edges whether files are mirrored or not.    *)
DropMessage(m) ==
    /\ \E e \in edges : e[1] = m
    /\ Collect({e \in edges : e[1] = m})
    /\ UNCHANGED <<storage, moved>>

(* app.Serve with a new environment.                                       *)
Restart == /\ storage' \in ({"none"} \cup Stores) \ {storage}
           /\ moved' = TRUE
           /\ UNCHANGED <<edges, uri, bytes>>

StoresNext == \/ \E m \in Posts :
                    \/ \E fs \in SUBSET Files : Reconcile(m, fs)
                    \/ \E f \in Files : Mirror(m, f)
                    \/ DropMessage(m)
              \/ Restart

StoresSpec == StoresInit /\ [][StoresNext]_storeVars

-----------------------------------------------------------------------------
(***************************************************************************)
(* A file with no reference left has lost its row and its stored bytes     *)
(* (README, Delete semantics).                                             *)
(***************************************************************************)
OrphanBytesCollected ==
    \A f \in Files : f \notin Linked(edges) =>
       /\ uri[f] = Absent
       /\ \A s \in Stores : <<s, f>> \notin bytes

(***************************************************************************)
(* While FILE_STORAGE stays what it was, they all are; and bytes a row      *)
(* names exist whatever it has been: a delete that another store cannot    *)
(* serve leaks, and takes nothing that is still in use.                    *)
(***************************************************************************)
OnlyMovesLeaveBytes ==
    /\ moved \/ OrphanBytesCollected
    /\ \A f \in Files : uri[f] \in Stores => <<uri[f], f>> \in bytes
=============================================================================
