---------------------------- MODULE FileMirror ----------------------------
(***************************************************************************)
(* Mirroring of message attachments: the message, file and edge tables of  *)
(* a store, the blob store beside them, and the processes that drive them. *)
(*                                                                         *)
(* A worker is a process with one goroutine that applies messages: the     *)
(* event loop of `serve`, or a `backfill` run.  A job of a worker is one   *)
(* message: Apply's write of the message row, then Downloader.Handle for   *)
(* an upsert, or DeleteMessage for a delete.  Every call that leaves the   *)
(* process is a step of its own; a database transaction is one step, which *)
(* is exact for SQLite (one connection) and for Postgres while one process *)
(* writes.                                                                 *)
(***************************************************************************)


CONSTANTS
    Workers,     \* the processes that write to the mirror
    Messages,    \* keys (channel_id, ts)
    Files,       \* Slack file ids; the blob of f is always "files/" \o f
    None,        \* no message, no file
    Faults,      \* the kinds of failure the environment may inject
    LocalBlobs   \* TRUE: blobstore.Local, FALSE: blobstore.GCS

FaultKinds == {"db", "fetch", "copy", "gc", "crash"}

(***************************************************************************)
(* Local blobs live in one directory of one host, so a single process      *)
(* writes them; two processes share a bucket.                              *)
(***************************************************************************)
ASSUME FileMirrorAssumption ==
    /\ None \notin Messages \cup Files
    /\ Faults \subseteq FaultKinds
    /\ LocalBlobs \in BOOLEAN
    /\ LocalBlobs => \A v, w \in Workers : v = w

VARIABLES
    messages,    \* the keys that have a row in messages
    files,       \* the files table
    edges,       \* the message_files table
    blobs,       \* the objects of the blob store
    job          \* what each worker is doing

vars == <<messages, files, edges, blobs, job>>
-----------------------------------------------------------------------------
NoRow   == [state |-> "absent", uri |-> FALSE]
FileRow == [state : {"absent", "pending", "stored", "skipped", "failed"},
            uri   : BOOLEAN]

BlobState == {"none", "partial", "whole"}

Idle == [pc |-> "idle", kind |-> "none", msg |-> None, refs |-> {},
         filtered |-> {}, todo |-> {}, cur |-> None, gc |-> {}, clean |-> TRUE]

Job == [pc       : {"idle", "upsert", "delete", "reconcile", "gc", "next",
                    "link", "skip", "get", "copy", "store", "failed"},
        kind     : {"none", "upsert", "delete"},
        msg      : Messages \cup {None},
        refs     : SUBSET Files,   \* the attachments of the message
        filtered : SUBSET Files,   \* those of them the policy skips
        todo     : SUBSET Files,   \* those still to be recorded
        cur      : Files \cup {None},
        gc       : SUBSET Files,   \* committed orphans whose blob remains
        clean    : BOOLEAN]        \* no call of this job has failed

\* Every table, the blob store and every worker hold values of their kind.
TypeOK ==
    /\ messages \subseteq Messages
    /\ files \in [Files -> FileRow]
    /\ edges \subseteq Messages \X Files
    /\ blobs \in [Files -> BlobState]
    /\ job \in [Workers -> Job]

Init ==
    /\ messages = {}
    /\ files = [f \in Files |-> NoRow]
    /\ edges = {}
    /\ blobs = [f \in Files |-> "none"]
    /\ job = [w \in Workers |-> Idle]
-----------------------------------------------------------------------------
Pc(w)  == job[w].pc
Cur(w) == job[w].cur

HasRow(f) == files[f].state # "absent"

\* An UPDATE ... WHERE id = f: nothing happens when the row is gone.
Updated(f, row) == IF HasRow(f) THEN [files EXCEPT ![f] = row] ELSE files

(***************************************************************************)
(* The worker goes on to step pc; Done moves to the next attachment.       *)
(***************************************************************************)
Goto(w, pc) == job' = [job EXCEPT ![w].pc = pc]

\* Mutant: an attachment that failed stays in the list.
DoneRetrying(w, ok) ==
    job' = [job EXCEPT ![w].pc = "next", ![w].cur = None,
                       ![w].todo = IF Pc(w) = "failed" THEN @ ELSE @ \ {Cur(w)},
                       ![w].clean = @ /\ ok]

Done(w, ok) == job' = [job EXCEPT ![w].pc = "next", ![w].cur = None,
                                  ![w].todo = @ \ {Cur(w)},
                                  ![w].clean = @ /\ ok]

Stop(w) == job' = [job EXCEPT ![w] = Idle]

(***************************************************************************)
(* A message reaches the worker: an upsert with its attachments, in any    *)
(* order, some of them excluded by size, mimetype or being external; or a  *)
(* delete.  Which ones the policy skips belongs to the delivered message:  *)
(* a file removed in Slack comes back without a download URL.              *)
(***************************************************************************)
StartUpsert(w) ==
    /\ Pc(w) = "idle"
    /\ \E m \in Messages, refs \in SUBSET Files : \E fl \in SUBSET refs :
         job' = [job EXCEPT ![w] = [Idle EXCEPT !.pc = "upsert",
                     !.kind = "upsert", !.msg = m, !.refs = refs,
                     !.filtered = fl, !.todo = refs]]
    /\ UNCHANGED <<messages, files, edges, blobs>>

StartDelete(w) ==
    /\ Pc(w) = "idle"
    /\ \E m \in Messages :
         job' = [job EXCEPT ![w] = [Idle EXCEPT !.pc = "delete",
                     !.kind = "delete", !.msg = m]]
    /\ UNCHANGED <<messages, files, edges, blobs>>

UpsertMessage(w) ==
    /\ Pc(w) = "upsert"
    /\ messages' = messages \cup {job[w].msg}
    /\ Goto(w, "reconcile")
    /\ UNCHANGED <<files, edges, blobs>>
-----------------------------------------------------------------------------
\* Of the candidates, those to which the remaining edges do not point.
Orphans(candidates, left) ==
    {f \in candidates : \A m \in Messages : <<m, f>> \notin left}

\* Of one message, the edges that lead to none of the files it keeps.
Gone(w, keep) == {e \in edges : e[1] = job[w].msg /\ e[2] \notin keep}

\* Edges are left, and the candidates they orphan lose their rows.
Collect(candidates, left) ==
    /\ edges' = left
    /\ files' = [f \in Files |->
                    IF f \in Orphans(candidates, left) THEN NoRow ELSE files[f]]

(***************************************************************************)
(* The end of both transactions: the storage URIs of the collected rows    *)
(* are kept for the blob deletes that follow the commit.                   *)
(***************************************************************************)
gcOrphans(w, candidates, left) ==
    LET uris == {f \in Orphans(candidates, left) : files[f].uri}
    IN  /\ Collect(candidates, left)
        /\ job' = [job EXCEPT ![w].pc = IF uris = {} THEN "next" ELSE "gc",
                              ![w].gc = uris]

\* DELETE FROM messages cascades to the edges of the message.
DeleteMessage(w) ==
    /\ Pc(w) = "delete"
    /\ gcOrphans(w, {e[2] : e \in Gone(w, {})}, edges \ Gone(w, {}))
    /\ messages' = messages \ {job[w].msg}
    /\ UNCHANGED blobs

ReconcileMessageFiles(w) ==
    /\ Pc(w) = "reconcile"
    /\ LET gone == Gone(w, job[w].refs)
       IN  gcOrphans(w, {e[2] : e \in gone}, edges \ gone)
    /\ UNCHANGED <<messages, blobs>>

\* One blob of the committed orphans; a missing object is not an error.
DeleteBlob(w) ==
    /\ Pc(w) = "gc"
    /\ \E f \in job[w].gc :
         /\ blobs' = [blobs EXCEPT ![f] = "none"]
         /\ job' = [job EXCEPT ![w].gc = @ \ {f},
                               ![w].pc = IF job[w].gc = {f} THEN "next" ELSE @]
    /\ UNCHANGED <<messages, files, edges>>
-----------------------------------------------------------------------------
\* Mutant: the row is inserted without a download_state.
UpsertFileStateless(w) ==
    /\ Pc(w) = "next"
    /\ \E f \in job[w].todo :
         /\ files' = IF HasRow(f) THEN files
                     ELSE [files EXCEPT ![f] = [state |-> "", uri |-> FALSE]]
         /\ job' = [job EXCEPT ![w].pc = "link", ![w].cur = f]
    /\ UNCHANGED <<messages, edges, blobs>>

\* INSERT ... ON CONFLICT keeps storage_uri, sha256 and download_state.
Recorded(f) == IF HasRow(f) THEN files
               ELSE [files EXCEPT ![f] = [state |-> "pending", uri |-> FALSE]]

UpsertFile(w) ==
    /\ Pc(w) = "next"
    /\ \E f \in job[w].todo :
         /\ files' = Recorded(f)
         /\ job' = [job EXCEPT ![w].pc = "link", ![w].cur = f]
    /\ UNCHANGED <<messages, edges, blobs>>

CanLink(w) == job[w].msg \in messages /\ HasRow(Cur(w))

LinkFile(w) ==
    /\ Pc(w) = "link"
    /\ CanLink(w)
    /\ edges' = edges \cup {<<job[w].msg, Cur(w)>>}
    /\ Goto(w, IF Cur(w) \in job[w].filtered THEN "skip" ELSE "get")
    /\ UNCHANGED <<messages, files, blobs>>

\* The message or the file row is gone: a foreign key fails, Handle returns.
LinkFails(w) ==
    /\ Pc(w) = "link"
    /\ ~CanLink(w)
    /\ Stop(w)
    /\ UNCHANGED <<messages, files, edges, blobs>>

SetFileState(w, state) ==
    /\ files' = Updated(Cur(w), [files[Cur(w)] EXCEPT !.state = state])
    /\ Done(w, state = "skipped")
    /\ UNCHANGED <<messages, edges, blobs>>

Skip(w) == Pc(w) = "skip" /\ SetFileState(w, "skipped")
Fail(w) == Pc(w) = "failed" /\ SetFileState(w, "failed")

\* The response has arrived: Local truncates the object before it copies.
Get(w) ==
    /\ Pc(w) = "get"
    /\ blobs' = IF LocalBlobs THEN [blobs EXCEPT ![Cur(w)] = "partial"] ELSE blobs
    /\ Goto(w, "copy")
    /\ UNCHANGED <<messages, files, edges>>

Put(w) ==
    /\ Pc(w) = "copy"
    /\ blobs' = [blobs EXCEPT ![Cur(w)] = "whole"]
    /\ Goto(w, "store")
    /\ UNCHANGED <<messages, files, edges>>

Stored(w) == Updated(Cur(w), [state |-> "stored", uri |-> TRUE])

SetFileStored(w) ==
    /\ Pc(w) = "store"
    /\ files' = Stored(w)
    /\ Done(w, TRUE)
    /\ UNCHANGED <<messages, edges, blobs>>

\* Handle, or DeleteMessage, returns nil.
Finish(w) ==
    /\ Pc(w) = "next"
    /\ job[w].todo = {}
    /\ Stop(w)
    /\ UNCHANGED <<messages, files, edges, blobs>>
-----------------------------------------------------------------------------
(***************************************************************************)
(* Failures.  An error of the database ends the job, except where the code *)
(* drops it (SetFileState) or records it (SetFileStored).  The server may  *)
(* have committed the statement or transaction before the reply was lost.  *)
(***************************************************************************)
DbAborts(w) ==
    /\ "db" \in Faults
    /\ \/ Pc(w) \in {"upsert", "delete", "reconcile", "link"}
       \/ Pc(w) = "next" /\ job[w].todo # {}
    /\ Stop(w)
    /\ UNCHANGED <<messages, files, edges, blobs>>

DbReplyLost(w) ==
    /\ "db" \in Faults
    /\ \/ /\ Pc(w) = "upsert"
          /\ messages' = messages \cup {job[w].msg}
          /\ UNCHANGED <<files, edges>>
       \/ /\ Pc(w) = "delete"
          /\ messages' = messages \ {job[w].msg}
          /\ Collect({e[2] : e \in Gone(w, {})}, edges \ Gone(w, {}))
       \/ /\ Pc(w) = "reconcile"
          /\ LET gone == Gone(w, job[w].refs)
             IN  Collect({e[2] : e \in gone}, edges \ gone)
          /\ UNCHANGED messages
       \/ /\ Pc(w) = "next"
          /\ \E f \in job[w].todo : files' = Recorded(f)
          /\ UNCHANGED <<messages, edges>>
       \/ /\ Pc(w) = "link" /\ CanLink(w)
          /\ edges' = edges \cup {<<job[w].msg, Cur(w)>>}
          /\ UNCHANGED <<messages, files>>
    /\ Stop(w)
    /\ UNCHANGED blobs

DbIgnored(w) ==
    /\ "db" \in Faults
    /\ Pc(w) \in {"skip", "failed"}
    /\ Done(w, FALSE)
    /\ UNCHANGED <<messages, files, edges, blobs>>

DbStoreFails(w) ==
    /\ "db" \in Faults
    /\ Pc(w) = "store"
    /\ files' \in {files, Stored(w)}
    /\ Goto(w, "failed")
    /\ UNCHANGED <<messages, edges, blobs>>

\* No response, a status other than 200, or the object cannot be opened.
GetFails(w) ==
    /\ "fetch" \in Faults
    /\ Pc(w) = "get"
    /\ Goto(w, "failed")
    /\ UNCHANGED <<messages, files, edges, blobs>>

(***************************************************************************)
(* The body breaks off.  Local leaves what it copied.  GCS calls Close,    *)
(* which publishes what was sent unless the upload itself was the failure. *)
(***************************************************************************)
PutFails(w) ==
    /\ "copy" \in Faults
    /\ Pc(w) = "copy"
    /\ blobs' \in {[blobs EXCEPT ![Cur(w)] = "partial"]}
                    \cup (IF LocalBlobs THEN {} ELSE {blobs})
    /\ Goto(w, "failed")
    /\ UNCHANGED <<messages, files, edges>>

DeleteBlobFails(w) ==
    /\ "gc" \in Faults
    /\ Pc(w) = "gc"
    /\ Stop(w)
    /\ UNCHANGED <<messages, files, edges, blobs>>

\* The process dies, or its context is cancelled, between two calls.
Crash(w) ==
    /\ "crash" \in Faults
    /\ Pc(w) # "idle"
    /\ Stop(w)
    /\ UNCHANGED <<messages, files, edges, blobs>>
-----------------------------------------------------------------------------
Work(w) ==
    \/ UpsertMessage(w) \/ DeleteMessage(w) \/ ReconcileMessageFiles(w)
    \/ DeleteBlob(w) \/ UpsertFile(w) \/ LinkFile(w) \/ LinkFails(w)
    \/ Skip(w) \/ Fail(w) \/ Get(w) \/ Put(w) \/ SetFileStored(w) \/ Finish(w)

Fault(w) ==
    \/ DbAborts(w) \/ DbReplyLost(w) \/ DbIgnored(w) \/ DbStoreFails(w)
    \/ GetFails(w) \/ PutFails(w) \/ DeleteBlobFails(w) \/ Crash(w)

Next == \E w \in Workers : StartUpsert(w) \/ StartDelete(w) \/ Work(w) \/ Fault(w)

Spec == Init /\ [][Next]_vars
-----------------------------------------------------------------------------
\* Every edge joins a message row and a file row: collecting the orphans of
\* one message never takes the file of another one.
RefIntegrity ==
    \A e \in edges : e[1] \in messages /\ HasRow(e[2])

\* A row that records a storage URI has an object behind it, whatever failed
\* before: rows go before their blobs and URIs are written after them.
UriHasBlob ==
    \A f \in Files : files[f].uri => blobs[f] # "none"

\* When no job is open, a file without references has neither row nor bytes.
UnreferencedCollected ==
    (\A w \in Workers : Pc(w) = "idle") =>
        \A f \in Files : (\A m \in Messages : <<m, f>> \notin edges) =>
            ~HasRow(f) /\ blobs[f] = "none"

\* An object disappears only when no row of the files table claims it.
CollectsOnlyUnclaimed ==
    [][\A f \in Files : (blobs[f] # "none" /\ blobs'[f] = "none") =>
           /\ ~HasRow(f)
           /\ \A m \in Messages : <<m, f>> \notin edges]_vars

\* When a deleted or edited message drops the last reference to a file, the
\* file loses its row in the same transaction: none is left to nobody.
LastEdgeCollects ==
    [][\A f \in Files :
         (\E m \in Messages : <<m, f>> \in edges)
           /\ (\A m \in Messages : <<m, f>> \notin edges')
         => ~HasRow(f)']_vars

\* A job none of whose calls failed leaves exactly what it was asked for,
\* whatever earlier jobs left behind: the attachments of the message are its
\* edges, those the policy admits are stored in full, or the message is gone.
Mirrored(w) ==
    LET m == job[w].msg
        attached == {f \in Files : <<m, f>> \in edges}
    IN  /\ m \in messages <=> job[w].kind = "upsert"
        /\ attached = job[w].refs
        /\ \A f \in job[w].refs :
             IF f \in job[w].filtered THEN files[f].state = "skipped"
             ELSE /\ files[f] = [state |-> "stored", uri |-> TRUE]
                  /\ blobs[f] = "whole"

CleanJobMirrors ==
    [][\A w \in Workers : Finish(w) /\ job[w].clean => Mirrored(w)]_vars

\* A job that was begun ends: no attachment is tried for ever.
JobsEnd == \A w \in Workers : Pc(w) # "idle" ~> Pc(w) = "idle"
=============================================================================
