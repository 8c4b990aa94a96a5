------------------------------ MODULE PgStore ------------------------------
(***************************************************************************)
(* FileMirror over Postgres, statement by statement.  DeleteMessage and    *)
(* ReconcileMessageFiles run under READ COMMITTED: each statement sees     *)
(* what was committed when it went on, and its transaction's own deletes.  *)
(* A row that an open transaction deleted is locked until that transaction *)
(* ends; a statement that needs it waits, a foreign key that looks for it  *)
(* included.  A statement outside a transaction commits at once, unless it *)
(* waits: an INSERT into message_files keeps meanwhile the shared lock of  *)
(* the first of its two foreign keys (Shares).                             *)
(*                                                                         *)
(* The variables of FileMirror hold what is committed.                     *)
(***************************************************************************)
EXTENDS FileMirror

VARIABLE tx      \* the open transaction of each worker

pgVars == <<messages, files, edges, blobs, job, tx>>

(***************************************************************************)
(* candidates, orphans and uris are local variables of the Go functions;   *)
(* the other three fields are rows deleted and not yet committed.          *)
(***************************************************************************)
NoTx == [pc |-> "none", candidates |-> {}, orphans |-> {}, uris |-> {},
         messages |-> {}, edges |-> {}, files |-> {}]

Tx == [pc : {"none", "delete", "find", "remove", "check", "commit"},
       candidates : SUBSET Files, orphans : SUBSET Files, uris : SUBSET Files,
       messages : SUBSET Messages, edges : SUBSET (Messages \X Files),
       files : SUBSET Files]

PgInit == Init /\ tx = [w \in Workers |-> NoTx]
-----------------------------------------------------------------------------
At(w, pc) == tx[w].pc = pc

\* Mutant: with nothing to keep, NOT (file_id = ANY(NULL)) is true of no edge.
KeepUnlessEmpty(w) ==
    IF job[w].kind = "upsert" THEN IF job[w].refs = {} THEN Files ELSE job[w].refs
    ELSE {}

\* The files that the message keeps: a delete keeps none.
Keep(w) == IF job[w].kind = "upsert" THEN job[w].refs ELSE {}

\* What a statement of w sees of the edges to a file.
References(w, f) == {e \in edges \ tx[w].edges : e[2] = f}

(***************************************************************************)
(* The rows that the next statement of w reads for update, deletes, or     *)
(* must find for a foreign key.  UpsertFile chooses its row as it goes.    *)
(***************************************************************************)
NoRows == [messages |-> {}, edges |-> {}, files |-> {}]

Needs(w) ==
    CASE At(w, "delete") -> [NoRows EXCEPT
            !.messages = IF job[w].kind = "delete" THEN {job[w].msg} ELSE {},
            !.edges = Gone(w, Keep(w))]
      [] At(w, "remove") -> [NoRows EXCEPT !.files = tx[w].orphans]
      [] At(w, "check")  -> [NoRows EXCEPT
            !.edges = UNION {References(w, f) : f \in tx[w].files}]
      [] Pc(w) = "upsert" -> [NoRows EXCEPT !.messages = {job[w].msg}]
      [] Pc(w) = "link" -> [messages |-> {job[w].msg}, files |-> {Cur(w)},
                            edges |-> {<<job[w].msg, Cur(w)>>}]
      [] Pc(w) \in {"skip", "failed", "store"} -> [NoRows EXCEPT !.files = {Cur(w)}]
      [] OTHER -> NoRows

WaitsFor(w, v) ==
    /\ w # v
    /\ \/ Needs(w).messages \cap tx[v].messages # {}
       \/ Needs(w).edges \cap tx[v].edges # {}
       \/ Needs(w).files \cap tx[v].files # {}

Free(w) == \A v \in Workers : ~WaitsFor(w, v)

\* LinkFile has found and share-locked the row of f, and waits for the message:
\* the key to files is checked before the key to messages, an edge that exists
\* or is being deleted before both.
Shares(v, f) ==
    /\ Pc(v) = "link"
    /\ Cur(v) = f
    /\ <<job[v].msg, f>> \notin edges
    /\ \A u \in Workers : f \notin tx[u].files
    /\ \E u \in Workers \ {v} : job[v].msg \in tx[u].messages

\* That statement may not have been sent yet: then DELETE FROM files goes on.
MayWaitFor(w, v) ==
    \/ WaitsFor(w, v)
    \/ w # v /\ At(w, "remove") /\ \E f \in tx[w].orphans : Shares(v, f)

Unlocked(w, f) == \A v \in Workers \ {w} : f \notin tx[v].files
-----------------------------------------------------------------------------
Continue(w, pc) == tx' = [tx EXCEPT ![w].pc = pc]

\* Mutant: the candidates are read after the cascade of the delete.
SelectCandidatesLate(w) ==
    /\ Pc(w) \in {"delete", "reconcile"}
    /\ At(w, "none")
    /\ tx' = [tx EXCEPT ![w].pc = IF Pc(w) = "delete" THEN "delete" ELSE "commit"]
    /\ UNCHANGED vars

\* BEGIN; SELECT file_id FROM message_files ...: reconciling ends at once when
\* there is nothing to remove.
SelectCandidates(w) ==
    /\ Pc(w) \in {"delete", "reconcile"}
    /\ At(w, "none")
    /\ LET found == {e[2] : e \in Gone(w, Keep(w))}
       IN  tx' = [tx EXCEPT ![w].candidates = found,
                     ![w].pc = IF Pc(w) = "reconcile" /\ found = {}
                               THEN "commit" ELSE "delete"]
    /\ UNCHANGED vars

\* DELETE FROM messages, with the cascade to its edges; or FROM message_files.
DeleteRows(w) ==
    /\ At(w, "delete")
    /\ Free(w)
    /\ tx' = [tx EXCEPT ![w].messages = Needs(w).messages \cap messages,
                        ![w].edges = Needs(w).edges,
                        ![w].pc = IF tx[w].candidates = {} THEN "commit" ELSE "find"]
    /\ UNCHANGED vars

\* SELECT id, storage_uri FROM files ... AND NOT EXISTS an edge.
SelectOrphans(w) ==
    /\ At(w, "find")
    /\ LET found == {f \in tx[w].candidates : HasRow(f) /\ References(w, f) = {}}
       IN  tx' = [tx EXCEPT ![w].orphans = found,
                     ![w].uris = {f \in found : files[f].uri},
                     ![w].pc = IF found = {} THEN "commit" ELSE "remove"]
    /\ UNCHANGED vars

\* DELETE FROM files WHERE id = ANY(orphans), up to its foreign-key check.
DeleteFiles(w) ==
    /\ At(w, "remove")
    /\ Free(w)
    /\ tx' = [tx EXCEPT ![w].files = {f \in tx[w].orphans : HasRow(f)},
                        ![w].pc = "check"]
    /\ UNCHANGED vars

\* Mutant: message_files does not reference files.
CheckReferencesSkipped(w) == At(w, "check") /\ Continue(w, "commit") /\ UNCHANGED vars

\* The end of that statement: no edge may point to a deleted row.
CheckReferences(w) ==
    /\ At(w, "check")
    /\ \A f \in tx[w].files : References(w, f) = {}
    /\ Continue(w, "commit")
    /\ UNCHANGED vars

\* The rows that w deleted are gone for everyone.
TakesEffect(w) ==
    /\ messages' = messages \ tx[w].messages
    /\ edges' = edges \ tx[w].edges
    /\ files' = [f \in Files |-> IF f \in tx[w].files THEN NoRow ELSE files[f]]
    /\ tx' = [tx EXCEPT ![w] = NoTx]
    /\ UNCHANGED blobs

\* Mutant: the blobs of all candidates are deleted, not those of the orphans.
CommitEveryCandidate(w) ==
    LET uris == {f \in tx[w].candidates : files[f].uri}
    IN  /\ At(w, "commit")
        /\ TakesEffect(w)
        /\ job' = [job EXCEPT ![w].pc = IF uris = {} THEN "next" ELSE "gc",
                              ![w].gc = uris]

Commit(w) ==
    /\ At(w, "commit")
    /\ TakesEffect(w)
    /\ job' = [job EXCEPT ![w].pc = IF tx[w].uris = {} THEN "next" ELSE "gc",
                          ![w].gc = tx[w].uris]
-----------------------------------------------------------------------------
\* Mutant: without the deferred Rollback the transaction stays open.
RollbackForgotten(w) ==
    /\ Stop(w)
    /\ UNCHANGED <<messages, files, edges, blobs, tx>>

\* An error of a statement: the deferred Rollback, and the end of the job.
Rollback(w) ==
    /\ tx' = [tx EXCEPT ![w] = NoTx]
    /\ Stop(w)
    /\ UNCHANGED <<messages, files, edges, blobs>>

\* An edge came to a file between the search for orphans and their delete.
ForeignKeyFails(w) ==
    /\ At(w, "check")
    /\ \E f \in tx[w].files, e \in edges : /\ e \in References(w, f)
                                          /\ \A v \in Workers : e \notin tx[v].edges
    /\ Rollback(w)

\* Statements wait for each other in a circle: the server fails one of them.
DeadlockDetected(w) ==
    /\ \E S \in SUBSET Workers :
         /\ w \in S /\ \E v \in S : MayWaitFor(v, w)
         /\ \A v \in S : \E u \in S : MayWaitFor(v, u)
    /\ Rollback(w)

TxFails(w) == "db" \in Faults /\ ~At(w, "none") /\ Rollback(w)

CommitReplyLost(w) ==
    /\ "db" \in Faults
    /\ At(w, "commit")
    /\ TakesEffect(w)
    /\ Stop(w)

CrashInTx(w) == "crash" \in Faults /\ ~At(w, "none") /\ Rollback(w)
-----------------------------------------------------------------------------
Transaction(w) ==
    \/ SelectCandidates(w) \/ DeleteRows(w) \/ SelectOrphans(w)
    \/ DeleteFiles(w) \/ CheckReferences(w) \/ Commit(w)

\* The steps of FileMirror outside transactions, as far as they find their
\* rows unlocked.
Outside(w) ==
    \/ UpsertMessage(w) \/ DeleteBlob(w) \/ LinkFile(w) \/ LinkFails(w)
    \/ Skip(w) \/ Fail(w) \/ Get(w) \/ Put(w) \/ SetFileStored(w) \/ Finish(w)
    \/ \E f \in job[w].todo : Unlocked(w, f) /\ UpsertFile(w) /\ job'[w].cur = f

OutsideFails(w) ==
    \/ DbAborts(w) \/ DbIgnored(w) \/ DbStoreFails(w) \/ GetFails(w)
    \/ PutFails(w) \/ DeleteBlobFails(w)
    \/ Pc(w) \in {"upsert", "link"} /\ DbReplyLost(w)
    \/ \E f \in job[w].todo : /\ Pc(w) = "next" /\ Unlocked(w, f)
                              /\ DbReplyLost(w) /\ files' = Recorded(f)

PgWork(w) ==
    \/ Transaction(w)
    \/ Free(w) /\ Outside(w) /\ UNCHANGED tx

PgErrors(w) == ForeignKeyFails(w) \/ DeadlockDetected(w)

PgFault(w) ==
    \/ TxFails(w) \/ CommitReplyLost(w) \/ CrashInTx(w)
    \/ At(w, "none") /\ Crash(w) /\ UNCHANGED tx
    \/ At(w, "none") /\ Free(w) /\ OutsideFails(w) /\ UNCHANGED tx

PgNext == \E w \in Workers :
    \/ (StartUpsert(w) \/ StartDelete(w)) /\ UNCHANGED tx
    \/ PgWork(w) \/ PgErrors(w) \/ PgFault(w)

PgSpec == PgInit /\ [][PgNext]_pgVars

(***************************************************************************)
(* Each process goes on with its job, and the server resolves deadlocks.   *)
(* A statement that waits is woken when the transaction it waits for ends, *)
(* so it is not passed over for ever by new transactions: strong fairness. *)
(***************************************************************************)
PgFairSpec == PgSpec /\ \A w \in Workers : SF_pgVars(PgWork(w) \/ PgErrors(w))
=============================================================================
