------------------------------ MODULE Service ------------------------------
(***************************************************************************)
(* `serve` with attachments: the loop of EventPipeline, in which a turn    *)
(* that upserted a message handles its attachments before it returns, and  *)
(* a turn that deletes one collects those nobody else refers to.  The file *)
(* side of a turn is a job of FileMirror with the loop as its one worker,  *)
(* so what holds of FileMirror's behaviours holds of those of `serve`.     *)
(***************************************************************************)
EXTENDS EventPipeline

CONSTANTS
    Files,       \* Slack file ids
    None,        \* no message, no file
    AttachOf,    \* the attachments of each version of a message
    FileFaults,  \* the failures that FileMirror knows
    LocalBlobs   \* TRUE: blobstore.Local, FALSE: blobstore.GCS

(***************************************************************************)
(* A cancelled context fails every kind of call, and may end a turn        *)
(* between two of them.                                                    *)
(***************************************************************************)
ASSUME ServiceAssumption ==
    /\ AttachOf \in [Messages -> [1..MaxVersion -> SUBSET Files]]
    /\ None \notin Messages \cup Files
    /\ FileFaults \subseteq {"db", "fetch", "copy", "gc", "crash"}
    /\ LocalBlobs \in BOOLEAN
    /\ "db" \in Faults => "db" \in FileFaults
    /\ "crash" \in Faults => "crash" \in FileFaults
    /\ "sigterm" \in Faults => {"db", "fetch", "copy", "gc", "crash"} \subseteq FileFaults

VARIABLES
    files, edges, blobs,   \* the files table, its edges, the blob store
    job,                   \* the file side of the turn in progress
    unfinished             \* history: messages written by a turn that was cut short

fileVars == <<files, edges, blobs, job>>
serviceVars == <<vars, files, edges, blobs, job, unfinished>>

Rows == {m \in Messages : messages[m] # 0}

F == INSTANCE FileMirror WITH
         Workers <- {Consumer}, Messages <- Messages, Files <- Files,
         None <- None, Faults <- FileFaults, LocalBlobs <- LocalBlobs,
         messages <- Rows, files <- files, edges <- edges, blobs <- blobs,
         job <- job

ServiceInit == Init /\ F!Init /\ unfinished = {}

Turn == job[Consumer]
-----------------------------------------------------------------------------
\* The event in hand says what the turn will do with files; which of them the
\* file policy skips depends on what Slack says of each, and is left open.
TakeEvent ==
    /\ Take
    /\ LET act == call'[Consumer].act
       IN  \/ act.kind = "skip" /\ UNCHANGED fileVars
           \/ /\ act.kind = "upsert"
              /\ F!StartUpsert(Consumer)
              /\ Turn'.msg = act.ts
              /\ Turn'.refs = AttachOf[act.ts][act.version]
           \/ /\ act.kind = "delete"
              /\ F!StartDelete(Consumer)
              /\ Turn'.msg = act.ts
    /\ UNCHANGED unfinished

Ensures ==
    /\ call[Consumer].pc \in {"channel", "user"}
    /\ Step
    /\ UNCHANGED <<fileVars, unfinished>>

\* Mutant: Handle is called only for a message that has attachments.
UpsertsUnlessBare ==
    /\ call[Consumer].pc = "upsert"
    /\ Step
    /\ IF Turn.refs # {} THEN F!UpsertMessage(Consumer)
       ELSE job' = [job EXCEPT ![Consumer] = F!Idle] /\ UNCHANGED <<files, edges, blobs>>
    /\ UNCHANGED unfinished

\* After the row is written, Handle is called, with attachments or without.
Upserts ==
    /\ call[Consumer].pc = "upsert"
    /\ Step
    /\ F!UpsertMessage(Consumer)
    /\ UNCHANGED unfinished

\* Mutant: the message row is deleted, and the edges with it, but no file.
DeletesRowOnly ==
    /\ call[Consumer].pc = "delete"
    /\ Step
    /\ edges' = {e \in edges : e[1] # Turn.msg}
    /\ job' = [job EXCEPT ![Consumer].pc = "next"]
    /\ UNCHANGED <<files, blobs, unfinished>>

Deletes ==
    /\ call[Consumer].pc = "delete"
    /\ Step
    /\ F!DeleteMessage(Consumer)
    /\ unfinished' = unfinished \ {Turn.msg}

\* A call of Handle, or a blob delete that follows the commit of a delete.
Handles ==
    /\ proc # "down"
    /\ call[Consumer].pc = "done"
    /\ UNCHANGED vars
    /\ F!Work(Consumer)
    /\ unfinished' = IF F!Finish(Consumer) THEN unfinished \ {Turn.msg} ELSE unfinished

\* Mutant: the next event is taken while attachments are still handled.
ReturnsEarly ==
    /\ Return
    /\ job' = [job EXCEPT ![Consumer] = F!Idle]
    /\ UNCHANGED <<files, edges, blobs, unfinished>>

\* The next event waits until the attachments of this one were handled.
Returns ==
    /\ Turn.pc = "idle"
    /\ Return
    /\ UNCHANGED <<fileVars, unfinished>>
-----------------------------------------------------------------------------
\* A turn is cut short; it has left its message half done if it wrote the row.
Cut == unfinished' = IF /\ Turn.kind = "upsert"
                        /\ Turn.pc = "upsert" => messages' # messages
                     THEN unfinished \cup {Turn.msg}
                     ELSE unfinished

ApplyFails ==
    /\ StepFails
    /\ F!DbAborts(Consumer) \/ F!DbReplyLost(Consumer)
    /\ Cut

\* The context, or the database, fails a call of Handle; its error is logged.
HandleFails ==
    /\ \/ proc = "stopping"
       \/ proc = "up" /\ "db" \in Faults
    /\ call[Consumer].pc = "done"
    /\ UNCHANGED vars
    /\ \/ (F!DbAborts(Consumer) \/ F!DbReplyLost(Consumer)) /\ Cut
       \/ (F!DbIgnored(Consumer) \/ F!DbStoreFails(Consumer)) /\ UNCHANGED unfinished

TransferFails ==
    /\ proc # "down"
    /\ call[Consumer].pc = "done"
    /\ UNCHANGED vars
    /\ \/ (F!GetFails(Consumer) \/ F!PutFails(Consumer)) /\ UNCHANGED unfinished
       \/ F!DeleteBlobFails(Consumer) /\ Cut

Ends ==
    /\ Exit
    /\ \/ Turn.pc = "idle" /\ UNCHANGED <<fileVars, unfinished>>
       \/ F!Crash(Consumer) /\ Cut

Outside == (Deliver \/ Sigterm \/ Restart) /\ UNCHANGED <<fileVars, unfinished>>

Goes == TakeEvent \/ Ensures \/ Upserts \/ Deletes \/ Handles \/ Returns

ServiceNext ==
    Goes \/ Outside \/ ApplyFails \/ HandleFails \/ TransferFails \/ Ends

ServiceSpec == ServiceInit /\ [][ServiceNext]_serviceVars

(***************************************************************************)
(* The loop's goroutine goes on whenever an event waits or a call returned. *)
(* That the file server answers is an assumption: the client of Downloader *)
(* sets no timeout.                                                        *)
(***************************************************************************)
ServiceFairSpec == ServiceSpec /\ WF_serviceVars(Goes)
-----------------------------------------------------------------------------
\* A turn of the loop does to files only what a job of FileMirror may do, so
\* that its theorems are about `serve`, acknowledgements, shutdown and all.
FilesAreMirrored == F!Spec

Attached(m) == {f \in Files : <<m, f>> \in edges}

AttachedIn(m, v) == IF v = 0 THEN {} ELSE AttachOf[m][v]

\* Between turns a message has the attachments of the very version its row
\* holds, whichever came late, twice or never: unless the turn that wrote the
\* row was cut short in the midst of its attachments.
AttachmentsFollowRow ==
    call[Consumer].pc = "idle" =>
        \A m \in Messages \ unfinished : Attached(m) = AttachedIn(m, messages[m])

\* What Slack shows attached right now.
Wanted == UNION {AttachedIn(m, Expected(m)) : m \in Messages}

\* When every delivery was handled, and only downloads failed, there is a file
\* row for each attachment that Slack shows, and no row or object for another.
FilesInSync ==
    Quiet => /\ \A m \in Messages : Attached(m) = AttachedIn(m, Expected(m))
             /\ {f \in Files : F!HasRow(f)} = Wanted
             /\ {f \in Files : blobs[f] # "none"} \subseteq Wanted

\* Downloads that fail do not hold up the loop: when Slack falls silent, rows
\* and attachments end up, and stay, as Slack shows them.
FilesConverge ==
    <>[](\A m \in Messages : /\ messages[m] = Expected(m)
                             /\ Attached(m) = AttachedIn(m, Expected(m)))
=============================================================================
