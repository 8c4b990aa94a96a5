------------------------- MODULE FileMirrorProofs -------------------------
(***************************************************************************)
(* Theorems about FileMirror, for every value of its constants.            *)
(***************************************************************************)
EXTENDS FileMirror, FiniteSetTheorems, TLAPS

\* The steps of Handle that work on one attachment know which.
AtFile == {"link", "skip", "get", "copy", "store", "failed"}

\* A worker with a job knows its message, and its attachment while at one.
Informed(j) == /\ j.pc # "idle" => j.msg \in Messages
               /\ j.pc \in AtFile => j.cur \in Files

TypeInv == TypeOK /\ \A w \in Workers : Informed(job[w])
-----------------------------------------------------------------------------
\* Updated writes a row of the files table or leaves the table alone.
LEMMA UpdatedType ==
    ASSUME files \in [Files -> FileRow], NEW f, NEW row \in FileRow
    PROVE  Updated(f, row) \in [Files -> FileRow]
  BY DEF Updated

\* The row of a file is a row, with whatever state an UPDATE gives it.
LEMMA StateRow ==
    ASSUME files \in [Files -> FileRow], NEW f \in Files,
           NEW s \in {"pending", "stored", "skipped", "failed"}
    PROVE  [files[f] EXCEPT !.state = s] \in FileRow
  BY DEF FileRow

\* Only worker w moves, to job j.
Moves(w, j) == job' = [job EXCEPT ![w] = j]

\* When one worker moves to a job that is one, and informed, all are.
LEMMA MoveType ==
    ASSUME TypeInv, NEW w \in Workers, NEW j \in Job, Informed(j), Moves(w, j)
    PROVE  /\ job' \in [Workers -> Job]
           /\ job'[w] = j
           /\ \A v \in Workers : v # w => job'[v] = job[v]
           /\ \A v \in Workers : Informed(job[v])'
<1>1. job \in [Workers -> Job]
  BY DEF TypeInv, TypeOK
<1>2. /\ job' \in [Workers -> Job]
      /\ job'[w] = j
      /\ \A v \in Workers : v # w => job'[v] = job[v]
  BY <1>1 DEF Moves
<1>3. ASSUME NEW v \in Workers PROVE Informed(job'[v])
  BY <1>2 DEF TypeInv
<1>4. \A v \in Workers : Informed(job[v])'
  BY <1>3 DEF Informed
<1>5. QED
  BY <1>2, <1>4

\* A worker that goes on to another step changes nothing else of its job.
LEMMA GotoMoves ==
    ASSUME TypeInv, NEW w \in Workers,
           NEW pc \in {"next", "reconcile", "skip", "get", "copy", "store", "failed"},
           Goto(w, pc), Pc(w) # "idle", pc \in AtFile => Pc(w) \in AtFile
    PROVE  \E j \in Job :
             /\ Moves(w, j) /\ Informed(j)
             /\ j.pc = pc /\ j.msg = job[w].msg /\ j.cur = job[w].cur
             /\ j.gc = job[w].gc
<1> DEFINE j == [job[w] EXCEPT !.pc = pc]
<1>1. Moves(w, j)
  BY DEF Goto, Moves
<1>2. job[w] \in Job /\ Informed(job[w])
  BY DEF TypeInv, TypeOK
<1>3. /\ j \in Job
      /\ j.pc = pc /\ j.msg = job[w].msg /\ j.cur = job[w].cur /\ j.gc = job[w].gc
  BY <1>2 DEF Job
<1> HIDE DEF j
<1>4. Informed(j)
  BY <1>2, <1>3 DEF Informed, Pc
<1>5. QED
  BY <1>1, <1>3, <1>4

\* A worker that is done with an attachment goes on to the next one.
LEMMA DoneMoves ==
    ASSUME TypeInv, NEW w \in Workers, NEW ok \in BOOLEAN, Done(w, ok),
           Pc(w) # "idle"
    PROVE  \E j \in Job : /\ Moves(w, j) /\ Informed(j)
                          /\ j.pc = "next" /\ j.gc = job[w].gc
<1> DEFINE j == [job[w] EXCEPT !.pc = "next", !.cur = None,
                               !.todo = @ \ {Cur(w)}, !.clean = @ /\ ok]
<1>1. Moves(w, j)
  BY DEF Done, Moves
<1>2. job[w] \in Job /\ Informed(job[w])
  BY DEF TypeInv, TypeOK
<1>3. j \in Job /\ j.pc = "next" /\ j.gc = job[w].gc /\ j.msg = job[w].msg
  BY <1>2 DEF Job
<1> HIDE DEF j
<1>4. Informed(j)
  BY <1>2, <1>3 DEF Informed, Pc, AtFile
<1>5. QED
  BY <1>1, <1>3, <1>4

\* A job that ends, or is ended, knows of no message.
LEMMA StopMoves ==
    ASSUME NEW w \in Workers, Stop(w)
    PROVE  Idle \in Job /\ Moves(w, Idle) /\ Informed(Idle)
  BY DEF Stop, Moves, Idle, Job, Informed, AtFile

\* The end of a transaction: the rows of the orphans are gone, and those of
\* their blobs that a row recorded remain to be deleted.
LEMMA OrphansMove ==
    ASSUME TypeInv, NEW w \in Workers, NEW candidates \in SUBSET Files, NEW left,
           gcOrphans(w, candidates, left), Pc(w) # "idle"
    PROVE  \E j \in Job :
             /\ Moves(w, j) /\ Informed(j)
             /\ j.pc \in {"next", "gc"}
             /\ j.pc = "next" => j.gc = {}
             /\ \A f \in j.gc : files[f].uri /\ files'[f] = NoRow
<1> DEFINE uris    == {f \in Orphans(candidates, left) : files[f].uri}
           pc      == IF uris = {} THEN "next" ELSE "gc"
           j       == [job[w] EXCEPT !.pc = pc, !.gc = uris]
<1>1. Moves(w, j)
  BY DEF gcOrphans, Moves
<1>2. job[w] \in Job /\ Informed(job[w])
  BY DEF TypeInv, TypeOK
<1>3. j \in Job /\ j.pc = pc /\ j.gc = uris /\ j.msg = job[w].msg
  BY <1>2 DEF Job, Orphans
<1>4. \A f \in uris : files'[f] = NoRow
  BY DEF gcOrphans, Collect, Orphans
<1> HIDE DEF j
<1>5. Informed(j)
  BY <1>2, <1>3 DEF Informed, Pc, AtFile
<1>6. QED
  BY <1>1, <1>3, <1>4, <1>5

\* The edges a message loses are edges, and lead to files.
LEMMA GoneFiles ==
    ASSUME edges \subseteq Messages \X Files, NEW w, NEW keep
    PROVE  /\ {e[2] : e \in Gone(w, keep)} \in SUBSET Files
           /\ edges \ Gone(w, keep) \in SUBSET edges
  BY DEF Gone

\* Collecting takes rows and edges and adds none.
LEMMA CollectType ==
    ASSUME TypeInv, NEW candidates \in SUBSET Files,
           NEW left \in SUBSET edges, Collect(candidates, left)
    PROVE  files' \in [Files -> FileRow] /\ edges' \subseteq Messages \X Files
  BY DEF Collect, TypeInv, TypeOK, FileRow, NoRow

\* A recorded file has a row like any other.
LEMMA RecordedType ==
    ASSUME files \in [Files -> FileRow], NEW f \in Files
    PROVE  Recorded(f) \in [Files -> FileRow]
  BY DEF Recorded, FileRow
-----------------------------------------------------------------------------
\* A new job knows its message.
LEMMA StartMoves ==
    ASSUME TypeInv, NEW w \in Workers, StartUpsert(w) \/ StartDelete(w)
    PROVE  \E j \in Job : /\ Moves(w, j) /\ Informed(j)
                          /\ j.gc = {} /\ j.pc # "store"
<1>0. Idle \in Job /\ Idle.gc = {}
  BY DEF Idle, Job
<1>1. CASE StartUpsert(w)
  <2>1. PICK m \in Messages, refs \in SUBSET Files : \E fl \in SUBSET refs :
          job' = [job EXCEPT ![w] = [Idle EXCEPT !.pc = "upsert",
                      !.kind = "upsert", !.msg = m, !.refs = refs,
                      !.filtered = fl, !.todo = refs]]
    BY <1>1 DEF StartUpsert
  <2>2. PICK fl \in SUBSET refs :
          job' = [job EXCEPT ![w] = [Idle EXCEPT !.pc = "upsert",
                      !.kind = "upsert", !.msg = m, !.refs = refs,
                      !.filtered = fl, !.todo = refs]]
    BY <2>1
  <2> DEFINE j == [Idle EXCEPT !.pc = "upsert", !.kind = "upsert", !.msg = m,
                               !.refs = refs, !.filtered = fl, !.todo = refs]
  <2>3. Moves(w, j)
    BY <2>2 DEF Moves
  <2>4. fl \in SUBSET Files
    OBVIOUS
  <2>5. j \in Job /\ j.pc = "upsert" /\ j.msg = m /\ j.gc = Idle.gc
    BY <1>0, <2>4 DEF Job
  <2> HIDE DEF j
  <2>6. QED
    BY <1>0, <2>3, <2>5 DEF Informed, AtFile
<1>2. CASE StartDelete(w)
  <2>1. PICK m \in Messages :
          job' = [job EXCEPT ![w] = [Idle EXCEPT !.pc = "delete",
                      !.kind = "delete", !.msg = m]]
    BY <1>2 DEF StartDelete
  <2> DEFINE j == [Idle EXCEPT !.pc = "delete", !.kind = "delete", !.msg = m]
  <2>2. Moves(w, j)
    BY <2>1 DEF Moves
  <2>3. j \in Job /\ j.pc = "delete" /\ j.msg = m /\ j.gc = Idle.gc
    BY <1>0 DEF Job
  <2> HIDE DEF j
  <2>4. QED
    BY <1>0, <2>2, <2>3 DEF Informed, AtFile
<1>3. QED
  BY <1>1, <1>2

\* Deleting a blob takes it off the list of the worker.
LEMMA DeleteBlobMoves ==
    ASSUME TypeInv, NEW w \in Workers, DeleteBlob(w)
    PROVE  \E f \in job[w].gc, j \in Job :
             /\ Moves(w, j) /\ Informed(j)
             /\ blobs' = [blobs EXCEPT ![f] = "none"]
             /\ j.pc \in {"next", "gc"}
             /\ j.gc = job[w].gc \ {f}
             /\ j.pc = "next" => j.gc = {}
<1>1. PICK f \in job[w].gc :
         /\ blobs' = [blobs EXCEPT ![f] = "none"]
         /\ job' = [job EXCEPT ![w].gc = @ \ {f},
                               ![w].pc = IF job[w].gc = {f} THEN "next" ELSE @]
  BY DEF DeleteBlob
<1> DEFINE pc == IF job[w].gc = {f} THEN "next" ELSE job[w].pc
           j  == [job[w] EXCEPT !.gc = @ \ {f}, !.pc = pc]
<1>2. job[w] \in Job /\ Informed(job[w]) /\ job \in [Workers -> Job]
  BY DEF TypeInv, TypeOK
<1>3. Moves(w, j)
  BY <1>1, <1>2 DEF Moves, Job
<1>4. job[w].pc = "gc"
  BY DEF DeleteBlob, Pc
<1>5. j \in Job /\ j.pc = pc /\ j.gc = job[w].gc \ {f} /\ j.msg = job[w].msg
  BY <1>2, <1>4 DEF Job
<1> HIDE DEF j
<1>6. Informed(j)
  BY <1>2, <1>4, <1>5 DEF Informed, AtFile
<1>7. QED
  BY <1>1, <1>3, <1>4, <1>5, <1>6

\* Recording an attachment makes it the current one.
LEMMA UpsertFileMoves ==
    ASSUME TypeInv, NEW w \in Workers, UpsertFile(w)
    PROVE  \E f \in Files, j \in Job :
             /\ Moves(w, j) /\ Informed(j)
             /\ files' = Recorded(f)
             /\ j.pc = "link" /\ j.gc = job[w].gc
<1>1. PICK f \in job[w].todo :
         /\ files' = Recorded(f)
         /\ job' = [job EXCEPT ![w].pc = "link", ![w].cur = f]
  BY DEF UpsertFile
<1> DEFINE j == [job[w] EXCEPT !.pc = "link", !.cur = f]
<1>2. job[w] \in Job /\ Informed(job[w]) /\ f \in Files
  BY DEF TypeInv, TypeOK, Job
<1>3. Moves(w, j)
  BY <1>1 DEF Moves
<1>4. job[w].pc = "next"
  BY DEF UpsertFile, Pc
<1>5. /\ j \in Job
      /\ j.pc = "link" /\ j.cur = f /\ j.gc = job[w].gc /\ j.msg = job[w].msg
  BY <1>2 DEF Job
<1> HIDE DEF j
<1>6. Informed(j)
  BY <1>2, <1>4, <1>5 DEF Informed, AtFile
<1>7. QED
  BY <1>1, <1>2, <1>3, <1>5, <1>6

\* The rows of a file after a transaction or a statement on the files table.
Rows(f) == {files[f], NoRow, [state |-> "pending", uri |-> FALSE]}

\* A statement or transaction whose reply was lost stops the worker, and leaves
\* tables behind.
LEMMA ReplyLost ==
    ASSUME TypeInv, NEW w \in Workers, DbReplyLost(w)
    PROVE  /\ Stop(w) /\ blobs' = blobs
           /\ messages' \subseteq Messages /\ edges' \subseteq Messages \X Files
           /\ files' \in [Files -> FileRow]
           /\ \A f \in Files : files'[f] \in Rows(f)
<1>1. Stop(w) /\ blobs' = blobs /\ TypeOK
  BY DEF DbReplyLost, TypeInv
<1>2. job[w].pc # "idle" => job[w].msg \in Messages
  BY DEF TypeInv, Informed
<1>3. CASE Pc(w) = "upsert"
  BY <1>1, <1>2, <1>3 DEF DbReplyLost, Pc, TypeOK, Rows
<1>4. CASE Pc(w) \in {"delete", "reconcile"}
  <2>1. PICK keep : /\ Collect({e[2] : e \in Gone(w, keep)}, edges \ Gone(w, keep))
                    /\ messages' \subseteq messages
    BY <1>4 DEF DbReplyLost
  <2>2. files' \in [Files -> FileRow] /\ edges' \subseteq Messages \X Files
    BY <1>1, <2>1, GoneFiles, CollectType DEF TypeOK
  <2>3. \A f \in Files : files'[f] \in Rows(f)
    BY <2>1 DEF Collect, Rows
  <2>4. QED
    BY <1>1, <2>1, <2>2, <2>3 DEF TypeOK
<1>5. CASE Pc(w) = "next"
  <2>1. PICK f \in job[w].todo : files' = Recorded(f)
    BY <1>5 DEF DbReplyLost
  <2>2. messages' = messages /\ edges' = edges
    BY <1>5 DEF DbReplyLost
  <2>3. f \in Files
    BY <1>1 DEF TypeOK, Job
  <2>4. \A g \in Files : files'[g] \in Rows(g)
    BY <1>1, <2>1, <2>3 DEF Recorded, Rows, TypeOK
  <2>5. QED
    BY <1>1, <2>1, <2>2, <2>3, <2>4, RecordedType DEF TypeOK
<1>6. CASE Pc(w) = "link"
  <2>1. job[w].msg \in Messages /\ Cur(w) \in Files
    BY <1>6 DEF TypeInv, Informed, Pc, Cur, AtFile
  <2>2. /\ messages' = messages /\ files' = files
        /\ edges' = edges \cup {<<job[w].msg, Cur(w)>>}
    BY <1>6 DEF DbReplyLost
  <2>3. QED
    BY <1>1, <2>1, <2>2 DEF TypeOK, Rows
<1>7. QED
  BY <1>3, <1>4, <1>5, <1>6 DEF DbReplyLost
-----------------------------------------------------------------------------
\* Every step of a job, and every failure, keeps the types.
LEMMA TypeStep == TypeInv /\ [Next]_vars => TypeInv'
<1> SUFFICES ASSUME TypeInv, [Next]_vars PROVE TypeInv'
  OBVIOUS
<1>0. TypeOK
  BY DEF TypeInv
<1>1. ASSUME NEW w \in Workers, StartUpsert(w) \/ StartDelete(w) PROVE TypeInv'
  <2>1. \E j \in Job : Moves(w, j) /\ Informed(j)
    BY <1>1, StartMoves
  <2>2. QED
    BY <1>0, <1>1, <2>1, MoveType DEF StartUpsert, StartDelete, TypeInv, TypeOK
<1>2. ASSUME NEW w \in Workers, UpsertMessage(w) PROVE TypeInv'
  <2>1. \E j \in Job : Moves(w, j) /\ Informed(j)
    BY <1>2, GotoMoves DEF UpsertMessage, AtFile
  <2>2. job[w].msg \in Messages
    BY <1>2 DEF UpsertMessage, TypeInv, Informed, Pc
  <2>3. QED
    BY <1>0, <1>2, <2>1, <2>2, MoveType DEF UpsertMessage, TypeInv, TypeOK
<1>3. ASSUME NEW w \in Workers, DeleteMessage(w) PROVE TypeInv'
  <2> DEFINE gone == Gone(w, {})
  <2>1. {e[2] : e \in gone} \in SUBSET Files /\ edges \ gone \in SUBSET edges
    BY <1>0, GoneFiles DEF TypeOK
  <2>2. gcOrphans(w, {e[2] : e \in gone}, edges \ gone) /\ Pc(w) # "idle"
    BY <1>3 DEF DeleteMessage
  <2> HIDE DEF gone
  <2>3. \E j \in Job : Moves(w, j) /\ Informed(j)
    BY <2>1, <2>2, OrphansMove
  <2>4. files' \in [Files -> FileRow] /\ edges' \subseteq Messages \X Files
    BY <2>1, <2>2, CollectType DEF gcOrphans
  <2>5. messages' = messages \ {job[w].msg} /\ blobs' = blobs
    BY <1>3 DEF DeleteMessage
  <2>6. QED
    BY <1>0, <2>3, <2>4, <2>5, MoveType DEF TypeInv, TypeOK
<1>4. ASSUME NEW w \in Workers, ReconcileMessageFiles(w) PROVE TypeInv'
  <2> DEFINE gone == Gone(w, job[w].refs)
  <2>1. {e[2] : e \in gone} \in SUBSET Files /\ edges \ gone \in SUBSET edges
    BY <1>0, GoneFiles DEF TypeOK
  <2>2. gcOrphans(w, {e[2] : e \in gone}, edges \ gone) /\ Pc(w) # "idle"
    BY <1>4 DEF ReconcileMessageFiles
  <2> HIDE DEF gone
  <2>3. \E j \in Job : Moves(w, j) /\ Informed(j)
    BY <2>1, <2>2, OrphansMove
  <2>4. files' \in [Files -> FileRow] /\ edges' \subseteq Messages \X Files
    BY <2>1, <2>2, CollectType DEF gcOrphans
  <2>5. messages' = messages /\ blobs' = blobs
    BY <1>4 DEF ReconcileMessageFiles
  <2>6. QED
    BY <1>0, <2>3, <2>4, <2>5, MoveType DEF TypeInv, TypeOK
<1>5. ASSUME NEW w \in Workers, DeleteBlob(w) PROVE TypeInv'
  <2>1. PICK f \in job[w].gc, j \in Job :
          Moves(w, j) /\ Informed(j) /\ blobs' = [blobs EXCEPT ![f] = "none"]
    BY <1>5, DeleteBlobMoves
  <2>2. blobs' \in [Files -> BlobState]
    BY <1>0, <2>1 DEF TypeOK, BlobState
  <2>3. messages' = messages /\ files' = files /\ edges' = edges
    BY <1>5 DEF DeleteBlob
  <2>4. QED
    BY <1>0, <2>1, <2>2, <2>3, MoveType DEF TypeInv, TypeOK
<1>6. ASSUME NEW w \in Workers, UpsertFile(w) PROVE TypeInv'
  <2>1. PICK f \in Files, j \in Job :
          Moves(w, j) /\ Informed(j) /\ files' = Recorded(f)
    BY <1>6, UpsertFileMoves
  <2>2. files' \in [Files -> FileRow]
    BY <1>0, <2>1, RecordedType DEF TypeOK
  <2>3. messages' = messages /\ edges' = edges /\ blobs' = blobs
    BY <1>6 DEF UpsertFile
  <2>4. QED
    BY <1>0, <2>1, <2>2, <2>3, MoveType DEF TypeInv, TypeOK
<1>7. ASSUME NEW w \in Workers, LinkFile(w) PROVE TypeInv'
  <2>1. \E j \in Job : Moves(w, j) /\ Informed(j)
    BY <1>7, GotoMoves DEF LinkFile, AtFile
  <2>2. job[w].msg \in Messages /\ Cur(w) \in Files
    BY <1>7 DEF LinkFile, TypeInv, Informed, Pc, Cur, AtFile
  <2>3. QED
    BY <1>0, <1>7, <2>1, <2>2, MoveType DEF LinkFile, TypeInv, TypeOK
<1>8. ASSUME NEW w \in Workers, Skip(w) \/ Fail(w) PROVE TypeInv'
  <2>1. Cur(w) \in Files
    BY <1>8 DEF Skip, Fail, TypeInv, Informed, Pc, Cur, AtFile
  <2>2. PICK s \in {"skipped", "failed"} : SetFileState(w, s) /\ Pc(w) # "idle"
    BY <1>8 DEF Skip, Fail
  <2>3. files' \in [Files -> FileRow]
    BY <1>0, <2>1, <2>2, UpdatedType, StateRow DEF SetFileState, TypeOK
  <2>4. \E j \in Job : Moves(w, j) /\ Informed(j)
    BY <2>2, DoneMoves DEF SetFileState
  <2>5. QED
    BY <1>0, <2>2, <2>3, <2>4, MoveType DEF SetFileState, TypeInv, TypeOK
<1>9. ASSUME NEW w \in Workers, Get(w) \/ Put(w) \/ GetFails(w) \/ PutFails(w)
      PROVE  TypeInv'
  <2>1. \E j \in Job : Moves(w, j) /\ Informed(j)
    BY <1>9, GotoMoves DEF Get, Put, GetFails, PutFails, AtFile
  <2>2. blobs' \in [Files -> BlobState]
    BY <1>0, <1>9 DEF Get, Put, GetFails, PutFails, TypeOK, BlobState
  <2>3. QED
    BY <1>0, <1>9, <2>1, <2>2, MoveType DEF Get, Put, GetFails, PutFails, TypeInv, TypeOK
<1>10. ASSUME NEW w \in Workers, SetFileStored(w) \/ DbStoreFails(w) PROVE TypeInv'
  <2>1. \E j \in Job : Moves(w, j) /\ Informed(j)
    <3>1. CASE SetFileStored(w)
      BY <3>1, DoneMoves DEF SetFileStored
    <3>2. CASE DbStoreFails(w)
      BY <3>2, GotoMoves DEF DbStoreFails, AtFile
    <3>3. QED
      BY <1>10, <3>1, <3>2
  <2>2. Stored(w) \in [Files -> FileRow]
    BY <1>0, UpdatedType DEF Stored, FileRow, TypeOK
  <2>3. QED
    BY <1>0, <1>10, <2>1, <2>2, MoveType DEF SetFileStored, DbStoreFails, TypeInv, TypeOK
<1>11. ASSUME NEW w \in Workers,
              \/ LinkFails(w) \/ Finish(w) \/ DbAborts(w)
              \/ DeleteBlobFails(w) \/ Crash(w)
       PROVE  TypeInv'
  BY <1>0, <1>11, StopMoves, MoveType
  DEF LinkFails, Finish, DbAborts, DeleteBlobFails, Crash, TypeInv, TypeOK
<1>12. ASSUME NEW w \in Workers, DbIgnored(w) PROVE TypeInv'
  <2>1. \E j \in Job : Moves(w, j) /\ Informed(j)
    BY <1>12, DoneMoves DEF DbIgnored
  <2>2. QED
    BY <1>0, <1>12, <2>1, MoveType DEF DbIgnored, TypeInv, TypeOK
<1>13. ASSUME NEW w \in Workers, DbReplyLost(w) PROVE TypeInv'
  <2>1. /\ Stop(w) /\ blobs' = blobs
        /\ messages' \subseteq Messages /\ edges' \subseteq Messages \X Files
        /\ files' \in [Files -> FileRow]
    BY <1>13, ReplyLost
  <2>2. QED
    BY <1>0, <2>1, StopMoves, MoveType DEF TypeInv, TypeOK
<1>14. CASE UNCHANGED vars
  BY <1>14 DEF vars, TypeInv, TypeOK, Informed
<1>15. QED
  BY <1>1, <1>2, <1>3, <1>4, <1>5, <1>6, <1>7, <1>8, <1>9, <1>10, <1>11, <1>12,
     <1>13, <1>14 DEF Next, Work, Fault

\* So they hold from the empty tables on.
LEMMA TypeInvariant == Spec => []TypeInv
<1>1. Init => TypeInv
  BY DEF Init, TypeInv, TypeOK, Informed, Idle, Job, FileRow, NoRow, BlobState, AtFile
<1>2. QED
  BY <1>1, TypeStep, PTL DEF Spec

\* Every table, the blob store and every job always hold values of their kind.
THEOREM TypeCorrect == Spec => []TypeOK
  BY TypeInvariant, PTL DEF TypeInv
-----------------------------------------------------------------------------
\* A transaction takes no file row to which an edge it leaves points.
LEMMA CollectKeeps ==
    ASSUME TypeOK, NEW candidates \in SUBSET Files, NEW left \in SUBSET edges,
           Collect(candidates, left)
    PROVE  \A e \in left : files'[e[2]] = files[e[2]]
<1> SUFFICES ASSUME NEW e \in left PROVE files'[e[2]] = files[e[2]]
  OBVIOUS
<1>1. PICK m \in Messages, f \in Files : e = <<m, f>>
  BY DEF TypeOK
<1>2. f \notin Orphans(candidates, left)
  BY <1>1 DEF Orphans
<1>3. e[2] = f
  BY <1>1
<1>4. files'[f] = files[f]
  BY <1>2 DEF Collect
<1>5. QED
  BY <1>3, <1>4

\* So the edges it leaves still join two rows.
LEMMA CollectRefs ==
    ASSUME TypeOK, RefIntegrity,
           NEW candidates \in SUBSET Files, NEW left \in SUBSET edges,
           Collect(candidates, left), \A e \in left : e[1] \in messages'
    PROVE  RefIntegrity'
<1>1. \A e \in left : files'[e[2]] = files[e[2]]
  BY CollectKeeps
<1>2. edges' = left
  BY DEF Collect
<1>3. QED
  BY <1>1, <1>2 DEF RefIntegrity, HasRow

\* Recording a file takes no row.
LEMMA RecordedRefs ==
    ASSUME TypeOK, RefIntegrity, NEW f \in Files, files' = Recorded(f),
           UNCHANGED <<messages, edges>>
    PROVE  RefIntegrity'
<1>1. \A e \in edges : e[2] \in Files
  BY DEF TypeOK
<1>2. \A g \in Files : HasRow(g) => files'[g].state # "absent"
  BY DEF HasRow, Recorded, TypeOK
<1>3. QED
  BY <1>1, <1>2 DEF RefIntegrity, HasRow

\* An UPDATE leaves every row where it was.
LEMMA UpdatedKeeps ==
    ASSUME files \in [Files -> FileRow], NEW f \in Files, NEW row \in FileRow,
           row.state # "absent"
    PROVE  \A g \in Files :
             (Updated(f, row)[g].state # "absent") <=> files[g].state # "absent"
  BY DEF Updated, HasRow

\* A row goes only with its last edge, and an edge is only added to a row.
LEMMA RefStep == TypeInv /\ RefIntegrity /\ [Next]_vars => RefIntegrity'
<1> SUFFICES ASSUME TypeInv, RefIntegrity, [Next]_vars PROVE RefIntegrity'
  OBVIOUS
<1> USE DEF TypeInv
<1>0. TypeOK /\ \A e \in edges : e[2] \in Files
  BY DEF TypeOK
<1>1. ASSUME NEW w \in Workers,
             \/ Pc(w) = "upsert" /\ DbReplyLost(w)
             \/ UpsertMessage(w)
      PROVE  RefIntegrity'
  BY <1>1 DEF UpsertMessage, DbReplyLost, RefIntegrity, HasRow
<1>2. ASSUME NEW w \in Workers,
             \/ Pc(w) = "delete" /\ DbReplyLost(w)
             \/ DeleteMessage(w)
      PROVE  RefIntegrity'
  <2> DEFINE gone == Gone(w, {})
  <2>1. {e[2] : e \in gone} \in SUBSET Files /\ edges \ gone \in SUBSET edges
    BY <1>0, GoneFiles DEF TypeOK
  <2>2. /\ Collect({e[2] : e \in gone}, edges \ gone)
        /\ messages' = messages \ {job[w].msg}
    BY <1>2 DEF DeleteMessage, DbReplyLost, gcOrphans
  <2>3. \A e \in edges \ gone : e[1] \in messages'
    BY <2>2 DEF RefIntegrity, Gone
  <2> HIDE DEF gone
  <2>4. QED
    BY <1>0, <2>1, <2>2, <2>3, CollectRefs
<1>3. ASSUME NEW w \in Workers,
             \/ Pc(w) = "reconcile" /\ DbReplyLost(w)
             \/ ReconcileMessageFiles(w)
      PROVE  RefIntegrity'
  <2> DEFINE gone == Gone(w, job[w].refs)
  <2>1. {e[2] : e \in gone} \in SUBSET Files /\ edges \ gone \in SUBSET edges
    BY <1>0, GoneFiles DEF TypeOK
  <2>2. Collect({e[2] : e \in gone}, edges \ gone) /\ messages' = messages
    BY <1>3 DEF ReconcileMessageFiles, DbReplyLost, gcOrphans
  <2>3. \A e \in edges \ gone : e[1] \in messages'
    BY <2>2 DEF RefIntegrity
  <2> HIDE DEF gone
  <2>4. QED
    BY <1>0, <2>1, <2>2, <2>3, CollectRefs
<1>4. ASSUME NEW w \in Workers,
             \/ Pc(w) = "next" /\ DbReplyLost(w)
             \/ UpsertFile(w)
      PROVE  RefIntegrity'
  <2>1. PICK f \in job[w].todo : files' = Recorded(f)
    BY <1>4 DEF UpsertFile, DbReplyLost
  <2>2. f \in Files
    BY <1>0 DEF TypeOK, Job
  <2>3. QED
    BY <1>0, <1>4, <2>1, <2>2, RecordedRefs DEF UpsertFile, DbReplyLost
<1>5. ASSUME NEW w \in Workers,
             \/ Pc(w) = "link" /\ DbReplyLost(w)
             \/ LinkFile(w)
      PROVE  RefIntegrity'
  BY <1>5 DEF LinkFile, DbReplyLost, CanLink, RefIntegrity, HasRow
<1>6. ASSUME NEW w \in Workers, Skip(w) \/ Fail(w) PROVE RefIntegrity'
  <2>1. Cur(w) \in Files
    BY <1>6 DEF Skip, Fail, Informed, Pc, Cur, AtFile
  <2>2. PICK s \in {"skipped", "failed"} : SetFileState(w, s)
    BY <1>6 DEF Skip, Fail
  <2> DEFINE row == [files[Cur(w)] EXCEPT !.state = s]
  <2>3. row \in FileRow /\ row.state # "absent"
    BY <1>0, <2>1 DEF FileRow, TypeOK
  <2>4. files' = Updated(Cur(w), row) /\ messages' = messages /\ edges' = edges
    BY <2>2 DEF SetFileState
  <2> HIDE DEF row
  <2>5. \A g \in Files : HasRow(g) => files'[g].state # "absent"
    BY <1>0, <2>1, <2>3, <2>4, UpdatedKeeps DEF HasRow, TypeOK
  <2>6. QED
    BY <1>0, <2>4, <2>5 DEF RefIntegrity, HasRow
<1>7. ASSUME NEW w \in Workers, SetFileStored(w) \/ DbStoreFails(w)
      PROVE  RefIntegrity'
  <2>1. Cur(w) \in Files
    BY <1>7 DEF SetFileStored, DbStoreFails, Informed, Pc, Cur, AtFile
  <2>2. \A g \in Files : HasRow(g) => Stored(w)[g].state # "absent"
    BY <1>0, <2>1, UpdatedKeeps DEF Stored, HasRow, TypeOK, FileRow
  <2>3. \A g \in Files : HasRow(g) => files'[g].state # "absent"
    BY <1>7, <2>2 DEF SetFileStored, DbStoreFails, HasRow
  <2>4. QED
    BY <1>0, <1>7, <2>3 DEF SetFileStored, DbStoreFails, RefIntegrity, HasRow
<1>8. ASSUME UNCHANGED <<messages, files, edges>> PROVE RefIntegrity'
  BY <1>8 DEF RefIntegrity, HasRow
<1>9. ASSUME NEW w \in Workers,
             \/ StartUpsert(w) \/ StartDelete(w) \/ DeleteBlob(w) \/ LinkFails(w)
             \/ Get(w) \/ Put(w) \/ Finish(w) \/ DbAborts(w) \/ DbIgnored(w)
             \/ GetFails(w) \/ PutFails(w) \/ DeleteBlobFails(w) \/ Crash(w)
      PROVE  UNCHANGED <<messages, files, edges>>
  BY <1>9 DEF StartUpsert, StartDelete, DeleteBlob, LinkFails, Get, Put, Finish,
     DbAborts, DbIgnored, GetFails, PutFails, DeleteBlobFails, Crash
<1>10. ASSUME NEW w \in Workers, DbReplyLost(w) PROVE RefIntegrity'
  <2>1. Pc(w) \in {"upsert", "delete", "reconcile", "next", "link"}
    BY <1>10 DEF DbReplyLost
  <2>2. QED
    BY <1>1, <1>2, <1>3, <1>4, <1>5, <1>10, <2>1
<1>11. CASE UNCHANGED vars
  BY <1>8, <1>11 DEF vars
<1>12. QED
  BY <1>1, <1>2, <1>3, <1>4, <1>5, <1>6, <1>7, <1>8, <1>9, <1>10, <1>11
  DEF Next, Work, Fault

\* However many workers write, and whatever fails, an edge joins two rows.
THEOREM EdgesJoinRows == Spec => []RefIntegrity
<1>1. Init => RefIntegrity
  BY DEF Init, RefIntegrity
<1>2. QED
  BY <1>1, RefStep, TypeInvariant, PTL DEF Spec

\* With transactions that are one step, the step that takes the last edge of a
\* file takes its row: only the two transactions remove edges, and their
\* candidates are the files of the edges they remove.
LEMMA CollectTakesLast ==
    ASSUME TypeOK, NEW w, NEW keep,
           Collect({e[2] : e \in Gone(w, keep)}, edges \ Gone(w, keep)),
           NEW f \in Files, NEW m \in Messages, <<m, f>> \in edges,
           \A n \in Messages : <<n, f>> \notin edges'
    PROVE  ~HasRow(f)'
<1>1. edges' = edges \ Gone(w, keep)
  BY DEF Collect
<1>2. <<m, f>> \in Gone(w, keep)
  BY <1>1
<1>3. f \in {e[2] : e \in Gone(w, keep)}
  BY <1>2
<1>4. f \in Orphans({e[2] : e \in Gone(w, keep)}, edges \ Gone(w, keep))
  BY <1>1, <1>3 DEF Orphans
<1>5. files'[f] = NoRow
  BY <1>4 DEF Collect
<1>6. QED
  BY <1>5 DEF HasRow, NoRow

\* Whatever takes the last edge of a file, a drop or a reconciliation, takes the
\* file's row in the same step.
THEOREM LastEdgeTakesRow == Spec => LastEdgeCollects
<1> DEFINE Last == \A f \in Files :
              (\E m \in Messages : <<m, f>> \in edges)
                /\ (\A m \in Messages : <<m, f>> \notin edges')
              => ~HasRow(f)'
<1>1. ASSUME TypeInv, [Next]_vars PROVE Last
  <2> SUFFICES ASSUME NEW f \in Files, NEW m \in Messages, <<m, f>> \in edges,
                      \A n \in Messages : <<n, f>> \notin edges'
               PROVE  ~HasRow(f)'
    OBVIOUS
  <2>1. TypeOK /\ ~ (edges \subseteq edges')
    BY <1>1 DEF TypeInv
  <2>2. PICK w \in Workers : \/ DeleteMessage(w) \/ ReconcileMessageFiles(w)
                             \/ DbReplyLost(w)
    <3>1. CASE UNCHANGED vars
      BY <2>1, <3>1 DEF vars
    <3>2. ASSUME NEW w \in Workers,
                 \/ StartUpsert(w) \/ StartDelete(w) \/ UpsertMessage(w)
                 \/ DeleteBlob(w) \/ UpsertFile(w) \/ LinkFile(w) \/ LinkFails(w)
                 \/ Skip(w) \/ Fail(w) \/ Get(w) \/ Put(w) \/ SetFileStored(w)
                 \/ Finish(w) \/ DbAborts(w) \/ DbIgnored(w) \/ DbStoreFails(w)
                 \/ GetFails(w) \/ PutFails(w) \/ DeleteBlobFails(w) \/ Crash(w)
          PROVE  edges \subseteq edges'
      BY <3>2 DEF StartUpsert, StartDelete, UpsertMessage, DeleteBlob, UpsertFile,
         LinkFile, LinkFails, Skip, Fail, SetFileState, Get, Put, SetFileStored,
         Finish, DbAborts, DbIgnored, DbStoreFails, GetFails, PutFails,
         DeleteBlobFails, Crash
    <3>3. QED
      BY <1>1, <2>1, <3>1, <3>2 DEF Next, Work, Fault
  <2>3. PICK keep : Collect({e[2] : e \in Gone(w, keep)}, edges \ Gone(w, keep))
    BY <2>1, <2>2 DEF DeleteMessage, ReconcileMessageFiles, DbReplyLost, gcOrphans
  <2>4. QED
    BY <2>1, <2>3, CollectTakesLast
<1>2. TypeInv /\ [Next]_vars => [Last]_vars
  BY <1>1
<1>3. QED
  BY <1>2, TypeInvariant, PTL DEF Spec, LastEdgeCollects
-----------------------------------------------------------------------------
(***************************************************************************)
(* The rest holds while one process writes, and only then: two of them can *)
(* delete the blob of a row that has come back (run file_shared_blob).     *)
(***************************************************************************)
SingleWriter == \A v, w \in Workers : v = w

\* The blobs a job has still to delete belong to rows that are gone.
ListedAreGone(j) == /\ \A f \in j.gc : ~HasRow(f)
                    /\ j.pc # "gc" => j.gc = {}

\* The URI of an attachment is recorded when its object has been written.
WrittenBefore(j) == j.pc = "store" => blobs[j.cur] # "none"

BlobInv ==
    /\ TypeInv
    /\ \A f \in Files : ~HasRow(f) => ~files[f].uri
    /\ UriHasBlob
    /\ \A w \in Workers : ListedAreGone(job[w]) /\ WrittenBefore(job[w])

\* What a step owes to the invariant: its rows, its blobs and its new job.
LEMMA BlobMove ==
    ASSUME SingleWriter, TypeInv', NEW w \in Workers, job'[w].pc # "store",
           \A f \in Files : files'[f].state = "absent" => ~files'[f].uri,
           \A f \in Files : files'[f].uri => blobs'[f] # "none",
           \A f \in job'[w].gc : files'[f].state = "absent",
           job'[w].pc # "gc" => job'[w].gc = {}
    PROVE  BlobInv'
<1>1. ASSUME NEW v \in Workers PROVE v = w
  BY DEF SingleWriter
<1>2. \A v \in Workers : ListedAreGone(job[v])' /\ WrittenBefore(job[v])'
  BY <1>1 DEF ListedAreGone, WrittenBefore, HasRow
<1>3. QED
  BY <1>2 DEF BlobInv, UriHasBlob, HasRow

\* What a move does to the fields the invariant reads.
LEMMA GotoFields ==
    ASSUME TypeOK, NEW w \in Workers, NEW pc, Goto(w, pc)
    PROVE  /\ job'[w].pc = pc /\ job'[w].gc = job[w].gc
           /\ job'[w].cur = job[w].cur
  BY DEF Goto, TypeOK, Job

\* What the end of a file changes of a job, and what it does not.
LEMMA DoneFields ==
    ASSUME TypeOK, NEW w \in Workers, NEW ok \in BOOLEAN, Done(w, ok)
    PROVE  job'[w].pc = "next" /\ job'[w].gc = job[w].gc
  BY DEF Done, TypeOK, Job

\* A new job has nothing to collect, and stores nothing yet.
LEMMA StartFields ==
    ASSUME TypeInv, NEW w \in Workers, StartUpsert(w) \/ StartDelete(w)
    PROVE  job'[w].gc = {} /\ job'[w].pc # "store"
<1>1. PICK j \in Job : Moves(w, j) /\ j.gc = {} /\ j.pc # "store"
  BY StartMoves
<1>2. QED
  BY <1>1 DEF Moves, TypeInv, TypeOK

\* The end of a transaction lists for deletion only blobs of rows it took.
LEMMA GcBlobs ==
    ASSUME SingleWriter, BlobInv, TypeInv', NEW w \in Workers,
           NEW candidates \in SUBSET Files, NEW left,
           gcOrphans(w, candidates, left), blobs' = blobs, Pc(w) # "idle"
    PROVE  BlobInv'
<1>1. PICK j \in Job :
        /\ Moves(w, j) /\ j.pc \in {"next", "gc"}
        /\ j.pc = "next" => j.gc = {}
        /\ \A f \in j.gc : files[f].uri /\ files'[f] = NoRow
  BY OrphansMove DEF BlobInv
<1>2. job'[w] = j
  BY <1>1 DEF Moves, BlobInv, TypeInv, TypeOK
<1>3. \A f \in Files : files'[f] \in {files[f], NoRow}
  BY DEF gcOrphans, Collect
<1>4. NoRow.state = "absent" /\ ~NoRow.uri
  BY DEF NoRow
<1>5. /\ \A f \in Files : files'[f].state = "absent" => ~files'[f].uri
      /\ \A f \in Files : files'[f].uri => blobs'[f] # "none"
  BY <1>3, <1>4 DEF BlobInv, UriHasBlob, HasRow
<1>6. \A f \in j.gc : files'[f].state = "absent"
  BY <1>1, <1>4
<1>7. QED
  BY <1>1, <1>2, <1>5, <1>6, BlobMove

\* Every step of the one writer, and every failure, keeps the blobs of the rows.
LEMMA BlobStep ==
    ASSUME SingleWriter PROVE BlobInv /\ [Next]_vars => BlobInv'
<1> SUFFICES ASSUME BlobInv, [Next]_vars PROVE BlobInv'
  OBVIOUS
<1>0. /\ TypeInv /\ TypeOK /\ TypeInv'
      /\ \A f \in Files : files[f].state = "absent" => ~files[f].uri
      /\ \A f \in Files : files[f].uri => blobs[f] # "none"
      /\ \A w \in Workers : /\ job[w] \in Job
                            /\ \A f \in job[w].gc : files[f].state = "absent"
                            /\ job[w].pc # "gc" => job[w].gc = {}
                            /\ job[w].pc = "store" => blobs[job[w].cur] # "none"
  BY TypeStep DEF BlobInv, TypeInv, TypeOK, UriHasBlob, ListedAreGone, WrittenBefore,
     HasRow
<1>1. ASSUME NEW w \in Workers, StartUpsert(w) \/ StartDelete(w) PROVE BlobInv'
  <2>1. job'[w].gc = {} /\ job'[w].pc # "store"
    BY <1>0, <1>1, StartFields
  <2>2. files' = files /\ blobs' = blobs
    BY <1>1 DEF StartUpsert, StartDelete
  <2>3. QED
    BY <1>0, <2>1, <2>2, BlobMove
<1>2. ASSUME NEW w \in Workers, UpsertMessage(w) \/ LinkFile(w) PROVE BlobInv'
  <2>1. PICK pc \in {"reconcile", "skip", "get"} : Goto(w, pc)
    BY <1>2 DEF UpsertMessage, LinkFile
  <2>2. /\ job[w].pc \notin {"gc", "store"}
        /\ files' = files /\ blobs' = blobs
    BY <1>2 DEF UpsertMessage, LinkFile, Pc
  <2>3. QED
    BY <1>0, <2>1, <2>2, GotoFields, BlobMove
<1>3. ASSUME NEW w \in Workers, DeleteMessage(w) PROVE BlobInv'
  <2> DEFINE gone == Gone(w, {})
  <2>1. {e[2] : e \in gone} \in SUBSET Files /\ edges \ gone \in SUBSET edges
    BY <1>0, GoneFiles DEF TypeOK
  <2>2. gcOrphans(w, {e[2] : e \in gone}, edges \ gone) /\ blobs' = blobs
    BY <1>3 DEF DeleteMessage
  <2> HIDE DEF gone
  <2>3. QED
    BY <1>0, <1>3, <2>1, <2>2, GcBlobs DEF DeleteMessage
<1>4. ASSUME NEW w \in Workers, ReconcileMessageFiles(w) PROVE BlobInv'
  <2> DEFINE gone == Gone(w, job[w].refs)
  <2>1. {e[2] : e \in gone} \in SUBSET Files /\ edges \ gone \in SUBSET edges
    BY <1>0, GoneFiles DEF TypeOK
  <2>2. gcOrphans(w, {e[2] : e \in gone}, edges \ gone) /\ blobs' = blobs
    BY <1>4 DEF ReconcileMessageFiles
  <2> HIDE DEF gone
  <2>3. QED
    BY <1>0, <1>4, <2>1, <2>2, GcBlobs DEF ReconcileMessageFiles
<1>5. ASSUME NEW w \in Workers, DeleteBlob(w) PROVE BlobInv'
  <2>1. PICK f \in job[w].gc, j \in Job :
          /\ Moves(w, j) /\ blobs' = [blobs EXCEPT ![f] = "none"]
          /\ j.pc \in {"next", "gc"} /\ j.gc = job[w].gc \ {f}
          /\ j.pc = "next" => j.gc = {}
    BY <1>0, <1>5, DeleteBlobMoves
  <2>2. job'[w] = j /\ files' = files
    BY <1>0, <1>5, <2>1 DEF Moves, TypeOK, DeleteBlob
  <2>3. ~files[f].uri
    BY <1>0 DEF Job
  <2>4. \A g \in Files : files[g].uri => blobs'[g] # "none"
    BY <1>0, <2>1, <2>3 DEF TypeOK
  <2>5. QED
    BY <1>0, <2>1, <2>2, <2>4, BlobMove
<1>6. ASSUME NEW w \in Workers, UpsertFile(w) PROVE BlobInv'
  <2>1. PICK f \in Files, j \in Job :
          /\ Moves(w, j) /\ j.pc = "link" /\ j.gc = job[w].gc
          /\ files' = Recorded(f)
    BY <1>0, <1>6, UpsertFileMoves
  <2>2. job'[w] = j /\ blobs' = blobs /\ job[w].gc = {}
    BY <1>0, <1>6, <2>1 DEF Moves, TypeOK, UpsertFile, Pc
  <2>3. \A g \in Files : /\ files'[g].state = "absent" => ~files'[g].uri
                         /\ files'[g].uri => files[g].uri
    BY <1>0, <2>1 DEF TypeOK, FileRow, Recorded
  <2>4. QED
    BY <1>0, <2>1, <2>2, <2>3, BlobMove
<1>7. ASSUME NEW w \in Workers, Skip(w) \/ Fail(w) PROVE BlobInv'
  <2>1. Cur(w) \in Files /\ job[w].gc = {} /\ blobs' = blobs
    BY <1>0, <1>7 DEF Skip, Fail, TypeInv, Informed, Pc, Cur, AtFile, SetFileState
  <2>2. PICK s \in {"skipped", "failed"} : SetFileState(w, s)
    BY <1>7 DEF Skip, Fail
  <2> DEFINE row == [files[Cur(w)] EXCEPT !.state = s]
  <2>3. row.state # "absent" /\ row.uri = files[Cur(w)].uri
    BY <1>0, <2>1 DEF FileRow, TypeOK
  <2>4. files' = Updated(Cur(w), row)
    BY <2>2 DEF SetFileState
  <2>5. \A g \in Files : /\ files'[g].state = "absent" => ~files'[g].uri
                         /\ files'[g].uri => files[g].uri
    <3> HIDE DEF row
    <3>1. QED
      BY <1>0, <2>1, <2>3, <2>4 DEF Updated, TypeOK
  <2>6. job'[w].pc = "next" /\ job'[w].gc = {}
    BY <1>0, <2>1, <2>2, DoneFields DEF SetFileState
  <2>7. QED
    BY <1>0, <2>1, <2>5, <2>6, BlobMove
<1>8. ASSUME NEW w \in Workers, DbIgnored(w) PROVE BlobInv'
  <2>1. job[w].gc = {} /\ files' = files /\ blobs' = blobs
    BY <1>0, <1>8 DEF DbIgnored, Pc
  <2>2. job'[w].pc = "next" /\ job'[w].gc = {}
    BY <1>0, <1>8, <2>1, DoneFields DEF DbIgnored
  <2>3. QED
    BY <1>0, <2>1, <2>2, BlobMove
<1>9. ASSUME NEW w \in Workers, Get(w) \/ Put(w) \/ GetFails(w) \/ PutFails(w)
      PROVE  BlobInv'
  <2>1. job[w].pc \in {"get", "copy"} /\ job[w].gc = {} /\ files' = files
    BY <1>0, <1>9 DEF Get, Put, GetFails, PutFails, Pc
  <2>2. \A f \in Files : blobs[f] # "none" => blobs'[f] # "none"
    BY <1>0, <1>9 DEF Get, Put, GetFails, PutFails, TypeOK
  <2>3. CASE Put(w)
    <3>1. /\ job'[w].gc = {} /\ job'[w].pc = "store"
          /\ job'[w].cur = job[w].cur
      BY <1>0, <2>1, <2>3, GotoFields DEF Put
    <3>2. job[w].cur \in Files /\ blobs'[job[w].cur] = "whole"
      BY <1>0, <2>3 DEF Put, TypeInv, TypeOK, Informed, AtFile, Pc, Cur
    <3>3. \A v \in Workers : v = w
      BY DEF SingleWriter
    <3>4. \A v \in Workers : ListedAreGone(job[v])' /\ WrittenBefore(job[v])'
      BY <3>1, <3>2, <3>3 DEF ListedAreGone, WrittenBefore
    <3>5. QED
      BY <1>0, <2>1, <2>2, <3>4 DEF BlobInv, UriHasBlob, HasRow
  <2>4. CASE ~Put(w)
    <3>1. PICK pc \in {"copy", "failed"} : Goto(w, pc)
      BY <1>9, <2>4 DEF Get, GetFails, PutFails
    <3>2. QED
      BY <1>0, <2>1, <2>2, <3>1, GotoFields, BlobMove
  <2>5. QED
    BY <2>3, <2>4
<1>10. ASSUME NEW w \in Workers, SetFileStored(w) \/ DbStoreFails(w) PROVE BlobInv'
  <2>1. /\ Cur(w) \in Files /\ job[w].gc = {} /\ blobs' = blobs
        /\ blobs[Cur(w)] # "none"
    BY <1>0, <1>10
    DEF SetFileStored, DbStoreFails, TypeInv, Informed, Pc, Cur, AtFile
  <2>2. \A g \in Files : /\ Stored(w)[g].state = "absent" => ~Stored(w)[g].uri
                         /\ Stored(w)[g].uri => files[g].uri \/ g = Cur(w)
    BY <1>0, <2>1 DEF Stored, Updated, TypeOK
  <2>3. /\ \A g \in Files : files'[g].state = "absent" => ~files'[g].uri
        /\ \A g \in Files : files'[g].uri => blobs'[g] # "none"
    BY <1>0, <1>10, <2>1, <2>2 DEF SetFileStored, DbStoreFails
  <2>4. job'[w].pc \in {"next", "failed"} /\ job'[w].gc = {}
    BY <1>0, <1>10, <2>1, DoneFields, GotoFields DEF SetFileStored, DbStoreFails
  <2>5. QED
    BY <1>0, <2>3, <2>4, BlobMove
<1>11. ASSUME NEW w \in Workers,
              \/ LinkFails(w) \/ Finish(w) \/ DbAborts(w)
              \/ DeleteBlobFails(w) \/ Crash(w)
       PROVE  BlobInv'
  <2>1. Stop(w) /\ files' = files /\ blobs' = blobs
    BY <1>11 DEF LinkFails, Finish, DbAborts, DeleteBlobFails, Crash
  <2>2. job'[w].pc = "idle" /\ job'[w].gc = {}
    BY <1>0, <2>1 DEF Stop, Idle, TypeOK
  <2>3. QED
    BY <1>0, <2>1, <2>2, BlobMove
<1>12. ASSUME NEW w \in Workers, DbReplyLost(w) PROVE BlobInv'
  <2>1. /\ Stop(w) /\ blobs' = blobs
        /\ \A f \in Files : files'[f] \in Rows(f)
    BY <1>0, <1>12, ReplyLost
  <2>2. job'[w].pc = "idle" /\ job'[w].gc = {}
    BY <1>0, <2>1 DEF Stop, Idle, TypeOK
  <2>3. \A g \in Files : /\ files'[g].state = "absent" => ~files'[g].uri
                         /\ files'[g].uri => files[g].uri
    BY <1>0, <2>1 DEF Rows, NoRow
  <2>4. QED
    BY <1>0, <2>1, <2>2, <2>3, BlobMove
<1>13. CASE UNCHANGED vars
  BY <1>0, <1>13
  DEF vars, BlobInv, UriHasBlob, ListedAreGone, WrittenBefore, HasRow
<1>14. QED
  BY <1>1, <1>2, <1>3, <1>4, <1>5, <1>6, <1>7, <1>8, <1>9, <1>10, <1>11, <1>12,
     <1>13 DEF Next, Work, Fault

\* So they are kept from the empty tables on.
LEMMA BlobInvariant == ASSUME SingleWriter PROVE Spec => []BlobInv
<1>1. Init => BlobInv
  <2>1. ASSUME Init PROVE TypeInv
    BY <2>1 DEF Init, TypeInv, TypeOK, Informed, Idle, Job, FileRow, NoRow,
       BlobState, AtFile
  <2>2. QED
    BY <2>1 DEF Init, BlobInv, UriHasBlob, ListedAreGone, WrittenBefore, Idle, NoRow
<1>2. BlobInv /\ [Next]_vars => BlobInv'
  BY BlobStep
<1>3. QED
  BY <1>1, <1>2, PTL DEF Spec

\* One process never leaves a row whose storage URI leads nowhere, whatever
\* calls fail and wherever it crashes.
THEOREM UrisHaveBlobs == ASSUME SingleWriter PROVE Spec => []UriHasBlob
<1>1. BlobInv => UriHasBlob
  BY DEF BlobInv
<1>2. QED
  BY <1>1, BlobInvariant, PTL

\* One process deletes only objects that no row claims and no edge needs.
THEOREM OnlyUnclaimedGo == ASSUME SingleWriter PROVE Spec => CollectsOnlyUnclaimed
<1> DEFINE Unclaimed(f) == /\ ~HasRow(f)
                           /\ \A m \in Messages : <<m, f>> \notin edges
           Collects == \A f \in Files :
                         blobs[f] # "none" /\ blobs'[f] = "none" => Unclaimed(f)
<1>1. ASSUME BlobInv, RefIntegrity, [Next]_vars PROVE Collects
  <2> SUFFICES ASSUME NEW f \in Files, blobs[f] # "none", blobs'[f] = "none"
               PROVE  Unclaimed(f)
    OBVIOUS
  <2>1. blobs \in [Files -> BlobState]
    BY <1>1 DEF BlobInv, TypeInv, TypeOK
  <2>2. PICK w \in Workers : DeleteBlob(w)
    <3>1. CASE UNCHANGED vars
      BY <3>1 DEF vars
    <3>2. ASSUME NEW w \in Workers, Get(w) \/ Put(w) \/ PutFails(w) PROVE FALSE
      BY <2>1, <3>2 DEF Get, Put, PutFails, BlobState
    <3>3. ASSUME NEW w \in Workers, blobs' = blobs PROVE FALSE
      BY <3>3
    <3>4. ASSUME NEW w \in Workers,
                 \/ StartUpsert(w) \/ StartDelete(w) \/ UpsertMessage(w)
                 \/ DeleteMessage(w) \/ ReconcileMessageFiles(w) \/ UpsertFile(w)
                 \/ LinkFile(w) \/ LinkFails(w) \/ Skip(w) \/ Fail(w)
                 \/ SetFileStored(w) \/ Finish(w) \/ DbAborts(w) \/ DbIgnored(w)
                 \/ DbReplyLost(w) \/ DbStoreFails(w) \/ GetFails(w)
                 \/ DeleteBlobFails(w) \/ Crash(w)
          PROVE  blobs' = blobs
      BY <3>4 DEF StartUpsert, StartDelete, UpsertMessage, DeleteMessage,
         ReconcileMessageFiles, UpsertFile, LinkFile, LinkFails, Skip, Fail,
         SetFileState, SetFileStored, Finish, DbAborts, DbIgnored, DbReplyLost,
         DbStoreFails, GetFails, DeleteBlobFails, Crash
    <3>5. QED
      BY <1>1, <3>1, <3>2, <3>3, <3>4 DEF Next, Work, Fault
  <2>3. f \in job[w].gc
    BY <2>1, <2>2 DEF DeleteBlob
  <2>4. ~HasRow(f)
    BY <1>1, <2>3 DEF BlobInv, ListedAreGone
  <2>5. QED
    BY <1>1, <2>4 DEF RefIntegrity
<1>2. BlobInv /\ RefIntegrity /\ [Next]_vars => [Collects]_vars
  BY <1>1
<1>3. QED
  BY <1>2, BlobInvariant, EdgesJoinRows, PTL
  DEF Spec, CollectsOnlyUnclaimed
-----------------------------------------------------------------------------
(***************************************************************************)
(* What a job leaves behind.  The invariant goes along with the job of the *)
(* one writer: what it was asked for (Asked), which of it has its edge     *)
(* (Filed), and what state those files are in (Kept).                      *)
(***************************************************************************)
Attached(m) == {f \in Files : <<m, f>> \in edges}

\* The steps that follow the transaction of the job.
Filing == {"gc", "next"} \cup AtFile

Asked(j) ==
    /\ j.todo \subseteq j.refs
    /\ j.pc # "idle" => j.kind \in {"upsert", "delete"}
    /\ j.pc = "delete" => j.kind = "delete"
    /\ j.pc \in {"upsert", "reconcile"} \cup AtFile => j.kind = "upsert"
    /\ j.kind = "delete" => j.refs = {}
    /\ j.pc \in {"upsert", "reconcile", "gc"} => j.todo = j.refs
    /\ j.pc \in AtFile => j.cur \in j.todo
    /\ j.pc = "skip" => j.cur \in j.filtered
    /\ j.pc \in {"get", "copy", "store", "failed"} => j.cur \notin j.filtered

Filed(j) ==
    /\ j.pc = "reconcile" => j.msg \in messages
    /\ j.pc \in Filing =>
         /\ j.msg \in messages <=> j.kind = "upsert"
         /\ j.refs \ j.todo \subseteq Attached(j.msg)
         /\ Attached(j.msg) \subseteq j.refs
         /\ j.pc \in AtFile \ {"link"} => j.cur \in Attached(j.msg)

\* The file is as the policy wants it: skipped, or there in full.
Settled(j, f) == IF f \in j.filtered THEN files[f].state = "skipped"
                 ELSE /\ files[f] = [state |-> "stored", uri |-> TRUE]
                      /\ blobs[f] = "whole"

Kept(j) ==
    /\ j.pc = "store" => blobs[j.cur] = "whole"
    /\ j.clean /\ j.pc \in Filing => \A f \in j.refs \ j.todo : Settled(j, f)

JobInv == /\ TypeInv /\ RefIntegrity
          /\ \A w \in Workers : Asked(job[w]) /\ Filed(job[w]) /\ Kept(job[w])

(* A job that moves on leaves what it was asked for as it is.              *)
LEMMA GotoAsks ==
    ASSUME TypeOK, NEW w \in Workers, NEW pc, Goto(w, pc)
    PROVE  /\ job'[w].pc = pc /\ job'[w].cur = job[w].cur
           /\ job'[w].todo = job[w].todo /\ job'[w].refs = job[w].refs
           /\ job'[w].kind = job[w].kind /\ job'[w].msg = job[w].msg
           /\ job'[w].filtered = job[w].filtered /\ job'[w].clean = job[w].clean
           /\ job[w].refs \in SUBSET Files
  BY DEF Goto, TypeOK, Job

LEMMA DoneAsks ==
    ASSUME TypeOK, NEW w \in Workers, NEW ok \in BOOLEAN, Done(w, ok)
    PROVE  /\ job'[w].pc = "next"
           /\ job'[w].todo = job[w].todo \ {Cur(w)} /\ job'[w].refs = job[w].refs
           /\ job'[w].kind = job[w].kind /\ job'[w].msg = job[w].msg
           /\ job'[w].filtered = job[w].filtered
           /\ job'[w].clean => job[w].clean /\ ok
           /\ job[w].refs \in SUBSET Files
<1>1. job'[w] = [job[w] EXCEPT !.pc = "next", !.cur = None,
                     !.todo = @ \ {Cur(w)}, !.clean = @ /\ ok]
  BY DEF Done, TypeOK
<1> QED BY <1>1 DEF TypeOK, Job

(* A worker without a job owes nothing.                                    *)
LEMMA StopAsks ==
    ASSUME TypeOK, NEW w \in Workers, Stop(w)
    PROVE  Asked(job[w])' /\ Filed(job[w])' /\ Kept(job[w])'
<1>1. job'[w] = Idle
  BY DEF Stop, TypeOK
<1> QED BY <1>1 DEF Idle, Asked, Filed, Kept, Filing, AtFile

(* The job after its transaction: the edges of its message lead to what it *)
(* keeps, and nothing is recorded yet.                                     *)
LEMMA GcAsks ==
    ASSUME TypeInv, NEW w \in Workers, Asked(job[w]),
           job[w].pc \in {"delete", "reconcile"}, job[w].todo = job[w].refs,
           NEW keep, keep = job[w].refs,
           gcOrphans(w, {e[2] : e \in Gone(w, keep)}, edges \ Gone(w, keep)),
           job[w].msg \in messages' <=> job[w].kind = "upsert"
    PROVE  Asked(job[w])' /\ Filed(job[w])' /\ Kept(job[w])'
<1>0. job[w] \in Job /\ job \in [Workers -> Job] /\ job[w].msg \in Messages
  BY DEF TypeInv, TypeOK, Informed
<1>1. PICK uris \in SUBSET Files, pc \in {"next", "gc"} :
         job'[w] = [job[w] EXCEPT !.pc = pc, !.gc = uris]
  <2> DEFINE uris == {f \in Orphans({e[2] : e \in Gone(w, keep)}, edges \ Gone(w, keep)) : files[f].uri}
  <2>1. uris \in SUBSET Files
    <3>1. {e[2] : e \in Gone(w, keep)} \in SUBSET Files
      BY GoneFiles DEF TypeInv, TypeOK
    <3> QED BY <3>1 DEF Orphans
  <2>2. job' = [job EXCEPT ![w].pc = IF uris = {} THEN "next" ELSE "gc",
                           ![w].gc = uris]
    BY DEF gcOrphans
  <2> HIDE DEF uris
  <2> QED BY <1>0, <2>1, <2>2
<1>2. /\ job'[w].pc \in {"next", "gc"}
      /\ job'[w].todo = job[w].todo /\ job'[w].refs = job[w].refs
      /\ job'[w].kind = job[w].kind /\ job'[w].msg = job[w].msg
      /\ job'[w].filtered = job[w].filtered
  BY <1>0, <1>1 DEF Job
<1>3. Attached(job[w].msg)' \subseteq job[w].refs
  <2>1. edges' = edges \ Gone(w, keep)
    BY DEF gcOrphans, Collect
  <2> SUFFICES ASSUME NEW f \in Files, <<job'[w].msg, f>> \in edges' PROVE f \in keep
    BY <1>2 DEF Attached
  <2>2. <<job[w].msg, f>> \in edges /\ <<job[w].msg, f>> \notin Gone(w, keep)
    BY <1>2, <2>1
  <2> QED BY <2>2 DEF Gone
<1>4. Asked(job[w])'
  BY <1>2 DEF Asked, AtFile
<1>5. Filed(job[w])'
  BY <1>2, <1>3 DEF Filed, Filing, AtFile
<1> QED BY <1>2, <1>4, <1>5 DEF Kept

(* What happens at an attachment touches no other file, and the end of it   *)
(* leaves it settled unless the job is no longer clean.                    *)
LEMMA DoneKeeps ==
    ASSUME TypeInv, NEW w \in Workers, NEW ok \in BOOLEAN, Done(w, ok),
           Asked(job[w]), Filed(job[w]), Kept(job[w]),
           job[w].pc \in AtFile \ {"link"},
           UNCHANGED <<messages, edges>>,
           \A f \in Files : f # Cur(w) => files'[f] = files[f] /\ blobs'[f] = blobs[f],
           ok => IF Cur(w) \in job[w].filtered THEN files'[Cur(w)].state = "skipped"
                 ELSE /\ files'[Cur(w)] = [state |-> "stored", uri |-> TRUE]
                      /\ blobs'[Cur(w)] = "whole"
    PROVE  Asked(job[w])' /\ Filed(job[w])' /\ Kept(job[w])'
<1>1. /\ job'[w].pc = "next"
      /\ job'[w].todo = job[w].todo \ {Cur(w)} /\ job'[w].refs = job[w].refs
      /\ job'[w].kind = job[w].kind /\ job'[w].msg = job[w].msg
      /\ job'[w].filtered = job[w].filtered
      /\ job'[w].clean => job[w].clean /\ ok
      /\ job[w].refs \in SUBSET Files
  BY DoneAsks DEF TypeInv
<1>2. Asked(job[w])'
  BY <1>1 DEF Asked, AtFile
<1>3. Attached(job[w].msg)' = Attached(job[w].msg)
  BY <1>1 DEF Attached
<1>4. Filed(job[w])'
  BY <1>1, <1>3 DEF Filed, Filing, AtFile, Cur
<1>5. ASSUME job'[w].clean, NEW f \in job'[w].refs \ job'[w].todo
      PROVE  Settled(job[w], f)'
  <2>1. CASE f = Cur(w)
    BY <1>1, <1>5, <2>1 DEF Settled
  <2>2. CASE f # Cur(w)
    <3>1. Settled(job[w], f) /\ f \in Files
      BY <1>1, <1>5, <2>2 DEF Kept, Filing
    <3> QED BY <1>1, <2>2, <3>1 DEF Settled
  <2> QED BY <2>1, <2>2
<1>6. Kept(job[w])'
  BY <1>1, <1>5 DEF Kept
<1> QED BY <1>2, <1>4, <1>6

LEMMA GotoKeeps ==
    ASSUME TypeInv, NEW w \in Workers, NEW pc \in {"copy", "store", "failed"}, Goto(w, pc),
           Asked(job[w]), Filed(job[w]), Kept(job[w]),
           job[w].pc \in {"get", "copy", "store"},
           UNCHANGED <<messages, edges>>,
           \A f \in Files : f # Cur(w) => files'[f] = files[f] /\ blobs'[f] = blobs[f],
           pc = "store" => blobs'[Cur(w)] = "whole"
    PROVE  Asked(job[w])' /\ Filed(job[w])' /\ Kept(job[w])'
<1>1. /\ job'[w].pc = pc /\ job'[w].cur = job[w].cur
      /\ job'[w].todo = job[w].todo /\ job'[w].refs = job[w].refs
      /\ job'[w].kind = job[w].kind /\ job'[w].msg = job[w].msg
      /\ job'[w].filtered = job[w].filtered /\ job'[w].clean = job[w].clean
      /\ job[w].refs \in SUBSET Files
  BY GotoAsks DEF TypeInv
<1>2. Asked(job[w])'
  BY <1>1 DEF Asked, AtFile
<1>3. Attached(job[w].msg)' = Attached(job[w].msg)
  BY <1>1 DEF Attached
<1>4. Filed(job[w])'
  BY <1>1, <1>3 DEF Filed, Filing, AtFile
<1>5. ASSUME job'[w].clean, NEW f \in job'[w].refs \ job'[w].todo
      PROVE  Settled(job[w], f)'
  <2>1. Settled(job[w], f) /\ f \in Files
    BY <1>1, <1>5 DEF Kept, Filing, AtFile
  <2>2. f # Cur(w)
    BY <1>1, <1>5 DEF Asked, AtFile, Cur
  <2> QED BY <1>1, <2>1, <2>2 DEF Settled
<1>6. Kept(job[w])'
  BY <1>1, <1>5 DEF Kept, Cur
<1> QED BY <1>2, <1>4, <1>6

(* Every step of the one writer, and every failure, keeps account.         *)
LEMMA JobStep ==
    ASSUME SingleWriter PROVE JobInv /\ [Next]_vars => JobInv'
<1> SUFFICES ASSUME JobInv, [Next]_vars PROVE JobInv'
  OBVIOUS
<1>0. TypeInv /\ TypeOK /\ RefIntegrity /\ TypeInv' /\ RefIntegrity'
  BY TypeStep, RefStep DEF JobInv, TypeInv
<1> DEFINE OK(w) == Asked(job[w]) /\ Filed(job[w]) /\ Kept(job[w])
<1>a. ASSUME NEW w \in Workers, OK(w)' PROVE JobInv'
  BY <1>0, <1>a DEF JobInv, SingleWriter
<1>b. ASSUME NEW w \in Workers
      PROVE  /\ Asked(job[w]) /\ Filed(job[w]) /\ Kept(job[w])
             /\ job[w] \in Job /\ Informed(job[w])
             /\ Pc(w) = job[w].pc /\ Cur(w) = job[w].cur
  BY <1>0 DEF JobInv, TypeInv, TypeOK, Pc, Cur
<1>1. ASSUME NEW w \in Workers, StartUpsert(w) PROVE OK(w)'
  <2>1. PICK m \in Messages, refs \in SUBSET Files : \E fl \in SUBSET refs :
          job' = [job EXCEPT ![w] = [Idle EXCEPT !.pc = "upsert",
                      !.kind = "upsert", !.msg = m, !.refs = refs,
                      !.filtered = fl, !.todo = refs]]
    BY <1>1 DEF StartUpsert
  <2>2. PICK fl \in SUBSET refs :
          job' = [job EXCEPT ![w] = [Idle EXCEPT !.pc = "upsert",
                      !.kind = "upsert", !.msg = m, !.refs = refs,
                      !.filtered = fl, !.todo = refs]]
    BY <2>1
  <2>3. /\ job'[w].pc = "upsert" /\ job'[w].kind = "upsert"
        /\ job'[w].refs = refs /\ job'[w].todo = refs
    BY <1>0, <2>2 DEF TypeOK, Idle
  <2> QED BY <2>3 DEF Asked, Filed, Kept, Filing, AtFile
<1>2. ASSUME NEW w \in Workers, StartDelete(w) PROVE OK(w)'
  <2>1. /\ job'[w].pc = "delete" /\ job'[w].kind = "delete"
        /\ job'[w].refs = {} /\ job'[w].todo = {}
    BY <1>0, <1>2 DEF StartDelete, TypeOK, Idle
  <2> QED BY <2>1 DEF Asked, Filed, Kept, Filing, AtFile
<1>3. ASSUME NEW w \in Workers, UpsertMessage(w) PROVE OK(w)'
  <2>1. /\ job'[w].pc = "reconcile" /\ job'[w].cur = job[w].cur
        /\ job'[w].todo = job[w].todo /\ job'[w].refs = job[w].refs
        /\ job'[w].kind = job[w].kind /\ job'[w].msg = job[w].msg
    BY <1>0, <1>3, GotoAsks DEF UpsertMessage
  <2>2. job[w].pc = "upsert" /\ job[w].msg \in messages'
    BY <1>b, <1>3 DEF UpsertMessage
  <2> QED BY <1>b, <2>1, <2>2 DEF Asked, Filed, Kept, Filing, AtFile
<1>4. ASSUME NEW w \in Workers, DeleteMessage(w) PROVE OK(w)'
  <2>1. job[w].pc = "delete" /\ job[w].refs = {} /\ job[w].todo = {}
        /\ job[w].kind = "delete"
    BY <1>b, <1>4 DEF DeleteMessage, Asked
  <2>2. job[w].msg \notin messages'
    BY <1>4 DEF DeleteMessage
  <2>3. gcOrphans(w, {e[2] : e \in Gone(w, {})}, edges \ Gone(w, {}))
    BY <1>4 DEF DeleteMessage
  <2> QED BY <1>0, <1>b, <2>1, <2>2, <2>3, GcAsks
<1>5. ASSUME NEW w \in Workers, ReconcileMessageFiles(w) PROVE OK(w)'
  <2>1. /\ job[w].pc = "reconcile" /\ job[w].todo = job[w].refs
        /\ job[w].kind = "upsert" /\ job[w].msg \in messages'
    BY <1>b, <1>5 DEF ReconcileMessageFiles, Asked, Filed
  <2> DEFINE keep == job[w].refs
  <2>2. gcOrphans(w, {e[2] : e \in Gone(w, keep)}, edges \ Gone(w, keep))
    BY <1>5 DEF ReconcileMessageFiles
  <2> QED BY <1>0, <1>b, <2>1, <2>2, GcAsks
<1>6. ASSUME NEW w \in Workers, DeleteBlob(w) PROVE OK(w)'
  <2>1. PICK f \in job[w].gc :
         /\ blobs' = [blobs EXCEPT ![f] = "none"]
         /\ job' = [job EXCEPT ![w].gc = @ \ {f},
                               ![w].pc = IF job[w].gc = {f} THEN "next" ELSE @]
    BY <1>6 DEF DeleteBlob
  <2>2. job[w].pc = "gc" /\ UNCHANGED <<messages, files, edges>>
    BY <1>b, <1>6 DEF DeleteBlob
  <2>3. /\ job'[w].pc \in {"next", "gc"}
        /\ job'[w].todo = job[w].todo /\ job'[w].refs = job[w].refs
        /\ job'[w].kind = job[w].kind /\ job'[w].msg = job[w].msg
    BY <1>0, <1>b, <2>1, <2>2 DEF Job, TypeOK
  <2>4. job[w].todo = job[w].refs
    BY <1>b, <2>2 DEF Asked
  <2>5. Attached(job[w].msg)' = Attached(job[w].msg)
    BY <2>2, <2>3 DEF Attached
  <2> QED BY <1>b, <2>2, <2>3, <2>4, <2>5 DEF Asked, Filed, Kept, Filing, AtFile
<1>7. ASSUME NEW w \in Workers, UpsertFile(w) PROVE OK(w)'
  <2>1. PICK g \in job[w].todo :
         /\ files' = Recorded(g)
         /\ job' = [job EXCEPT ![w].pc = "link", ![w].cur = g]
    BY <1>7 DEF UpsertFile
  <2>2. job[w].pc = "next" /\ UNCHANGED <<messages, edges, blobs>>
    BY <1>b, <1>7 DEF UpsertFile
  <2>3. /\ job'[w].pc = "link" /\ job'[w].cur = g
        /\ job'[w].todo = job[w].todo /\ job'[w].refs = job[w].refs
        /\ job'[w].kind = job[w].kind /\ job'[w].msg = job[w].msg
        /\ job'[w].filtered = job[w].filtered /\ job'[w].clean = job[w].clean
        /\ job[w].refs \in SUBSET Files
    BY <1>0, <1>b, <2>1 DEF Job, TypeOK
  <2>4. \A f \in Files : f # g => files'[f] = files[f]
    BY <1>0, <2>1 DEF Recorded, TypeOK
  <2>5. Attached(job[w].msg)' = Attached(job[w].msg)
    BY <2>2, <2>3 DEF Attached
  <2>6. job[w].kind = "upsert"
    BY <1>b, <2>1, <2>2 DEF Asked
  <2>7. Asked(job[w])'
    BY <1>b, <2>1, <2>2, <2>3, <2>6 DEF Asked, AtFile
  <2>8. Filed(job[w])'
    BY <1>b, <2>2, <2>3, <2>5 DEF Filed, Filing, AtFile
  <2>9. ASSUME job'[w].clean, NEW f \in job'[w].refs \ job'[w].todo
        PROVE  Settled(job[w], f)'
    <3>1. Settled(job[w], f) /\ f \in Files /\ f # g
      BY <1>b, <2>1, <2>2, <2>3, <2>9 DEF Kept, Filing
    <3> QED BY <2>2, <2>3, <2>4, <3>1 DEF Settled
  <2> QED BY <2>2, <2>3, <2>7, <2>9, <2>8 DEF Kept
<1>8. ASSUME NEW w \in Workers, LinkFile(w) PROVE OK(w)'
  <2>1. /\ job[w].pc = "link" /\ UNCHANGED <<messages, files, blobs>>
        /\ edges' = edges \cup {<<job[w].msg, job[w].cur>>}
        /\ Goto(w, IF job[w].cur \in job[w].filtered THEN "skip" ELSE "get")
    BY <1>b, <1>8 DEF LinkFile
  <2>2. /\ job'[w].pc = IF job[w].cur \in job[w].filtered THEN "skip" ELSE "get"
        /\ job'[w].cur = job[w].cur
        /\ job'[w].todo = job[w].todo /\ job'[w].refs = job[w].refs
        /\ job'[w].kind = job[w].kind /\ job'[w].msg = job[w].msg
        /\ job'[w].filtered = job[w].filtered /\ job'[w].clean = job[w].clean
    BY <1>0, <2>1, GotoAsks
  <2>3. job[w].cur \in Files /\ job[w].cur \in job[w].todo
    BY <1>b, <2>1 DEF Informed, Asked, AtFile
  <2>4. Attached(job[w].msg)' = Attached(job[w].msg) \cup {job[w].cur}
    BY <2>1, <2>2, <2>3 DEF Attached
  <2>5. Asked(job[w])' /\ Filed(job[w])'
    BY <1>b, <2>1, <2>2, <2>3, <2>4 DEF Asked, Filed, Filing, AtFile
  <2>6. Kept(job[w])'
    <3>1. ASSUME job'[w].clean, NEW f \in job'[w].refs \ job'[w].todo
          PROVE  Settled(job[w], f)'
      <4>1. Settled(job[w], f)
        BY <1>b, <2>1, <2>2, <3>1 DEF Kept, Filing, AtFile
      <4> QED BY <2>1, <2>2, <4>1 DEF Settled
    <3> QED BY <2>2, <3>1 DEF Kept
  <2> QED BY <2>5, <2>6
<1>9. ASSUME NEW w \in Workers, Skip(w) \/ Fail(w) \/ SetFileStored(w) PROVE OK(w)'
  <2>0. /\ job[w].pc \in AtFile \ {"link"} /\ UNCHANGED <<messages, edges, blobs>>
        /\ job[w].cur \in Files
    BY <1>b, <1>9 DEF Skip, Fail, SetFileStored, SetFileState, AtFile, Informed
  <2>1. HasRow(Cur(w))
    <3>1. job[w].cur \in Attached(job[w].msg)
      BY <1>b, <2>0 DEF Filed, Filing
    <3>2. <<job[w].msg, job[w].cur>> \in edges
      BY <3>1 DEF Attached
    <3> QED BY <1>0, <1>b, <3>2 DEF RefIntegrity
  <2>2. CASE Skip(w)
    <3>1. /\ files' = [files EXCEPT ![Cur(w)] = [files[Cur(w)] EXCEPT !.state = "skipped"]]
          /\ Done(w, TRUE) /\ job[w].pc = "skip"
      BY <1>b, <2>1, <2>2 DEF Skip, SetFileState, Updated
    <3>2. files'[Cur(w)].state = "skipped" /\ \A f \in Files : f # Cur(w) => files'[f] = files[f]
      BY <1>0, <1>b, <2>0, <3>1 DEF TypeOK, FileRow
    <3>3. Cur(w) \in job[w].filtered
      BY <1>b, <3>1 DEF Asked
    <3> QED BY <1>0, <1>b, <2>0, <3>1, <3>2, <3>3, DoneKeeps
  <2>3. CASE Fail(w)
    <3>1. /\ files' = [files EXCEPT ![Cur(w)] = [files[Cur(w)] EXCEPT !.state = "failed"]]
          /\ Done(w, FALSE)
      BY <1>b, <2>1, <2>3 DEF Fail, SetFileState, Updated
    <3>2. \A f \in Files : f # Cur(w) => files'[f] = files[f]
      BY <1>0, <3>1 DEF TypeOK
    <3> QED BY <1>0, <1>b, <2>0, <3>1, <3>2, DoneKeeps
  <2>4. CASE SetFileStored(w)
    <3>1. /\ files' = [files EXCEPT ![Cur(w)] = [state |-> "stored", uri |-> TRUE]]
          /\ Done(w, TRUE) /\ job[w].pc = "store"
      BY <1>b, <2>1, <2>4 DEF SetFileStored, Stored, Updated
    <3>2. /\ files'[Cur(w)] = [state |-> "stored", uri |-> TRUE]
          /\ \A f \in Files : f # Cur(w) => files'[f] = files[f]
      BY <1>0, <1>b, <2>0, <3>1 DEF TypeOK
    <3>3. Cur(w) \notin job[w].filtered /\ blobs'[Cur(w)] = "whole"
      BY <1>b, <2>0, <3>1 DEF Asked, Kept
    <3> QED BY <1>0, <1>b, <2>0, <3>1, <3>2, <3>3, DoneKeeps
  <2> QED BY <1>9, <2>2, <2>3, <2>4
<1>10. ASSUME NEW w \in Workers, DbIgnored(w) PROVE OK(w)'
  <2>1. job[w].pc \in AtFile \ {"link"} /\ UNCHANGED <<messages, edges, files, blobs>>
    BY <1>b, <1>10 DEF DbIgnored, AtFile
  <2>2. Done(w, FALSE)
    BY <1>10 DEF DbIgnored
  <2> QED BY <1>0, <1>b, <2>1, <2>2, DoneKeeps
<1>11. ASSUME NEW w \in Workers, Get(w) \/ Put(w) \/ GetFails(w) \/ PutFails(w)
       PROVE  OK(w)'
  <2>1. /\ job[w].pc \in {"get", "copy", "store"}
        /\ UNCHANGED <<messages, edges, files>>
        /\ job[w].cur \in Files
    BY <1>b, <1>11 DEF Get, Put, GetFails, PutFails, AtFile, Informed
  <2>2. PICK pc \in {"copy", "store", "failed"} :
           Goto(w, pc) /\ (pc = "store" => Put(w))
    BY <1>11 DEF Get, Put, GetFails, PutFails
  <2>3. \A f \in Files : f # Cur(w) => files'[f] = files[f] /\ blobs'[f] = blobs[f]
    BY <1>0, <1>11, <2>1 DEF Get, Put, GetFails, PutFails, TypeOK
  <2>4. pc = "store" => blobs'[Cur(w)] = "whole"
    BY <1>0, <1>b, <2>1, <2>2 DEF Put, TypeOK
  <2> QED BY <1>0, <1>b, <2>1, <2>2, <2>3, <2>4, GotoKeeps
<1>12. ASSUME NEW w \in Workers, DbStoreFails(w) PROVE OK(w)'
  <2>1. job[w].pc = "store" /\ UNCHANGED <<messages, edges, blobs>> /\ Goto(w, "failed")
    BY <1>b, <1>12 DEF DbStoreFails
  <2>2. \A f \in Files : f # Cur(w) => files'[f] = files[f]
    BY <1>0, <1>12 DEF DbStoreFails, Stored, Updated, TypeOK
  <2> QED BY <1>0, <1>b, <2>1, <2>2, GotoKeeps
<1>13. ASSUME NEW w \in Workers,
              \/ LinkFails(w) \/ Finish(w) \/ DbAborts(w) \/ DbReplyLost(w)
              \/ DeleteBlobFails(w) \/ Crash(w)
       PROVE  OK(w)'
  BY <1>0, <1>13, StopAsks
  DEF LinkFails, Finish, DbAborts, DbReplyLost, DeleteBlobFails, Crash
<1>14. CASE UNCHANGED vars
  BY <1>0, <1>14
  DEF vars, JobInv, Asked, Filed, Kept, Settled, Attached
<1> QED
  BY <1>a, <1>1, <1>2, <1>3, <1>4, <1>5, <1>6, <1>7, <1>8, <1>9, <1>10, <1>11,
     <1>12, <1>13, <1>14 DEF Next, Work, Fault

(* At first there is no job.                                               *)
LEMMA JobInit == Init => JobInv
<1> SUFFICES ASSUME Init PROVE JobInv
  OBVIOUS
<1>1. TypeInv
  BY DEF Init, TypeInv, TypeOK, Informed, Idle, Job, FileRow, NoRow,
     BlobState, AtFile
<1>2. RefIntegrity
  BY DEF Init, RefIntegrity
<1>3. \A w \in Workers : job[w] = Idle
  BY DEF Init
<1>4. Asked(Idle) /\ Filed(Idle) /\ Kept(Idle)
  BY DEF Idle, Asked, Filed, Kept, Filing, AtFile
<1> QED BY <1>1, <1>2, <1>3, <1>4 DEF JobInv

\* A job of the one writer none of whose calls failed leaves exactly what it was
\* asked for, whatever the jobs before it left behind: the edges of its message
\* are its attachments, each skipped or stored in full, or the message is gone.
THEOREM CleanJobsMirror == ASSUME SingleWriter PROVE Spec => CleanJobMirrors
<1> DEFINE Clean == \A w \in Workers : Finish(w) /\ job[w].clean => Mirrored(w)
<1>1. Init => JobInv
  BY JobInit
<1>2. JobInv /\ [Next]_vars => JobInv'
  BY JobStep
<1>3. JobInv => Clean
  <2> SUFFICES ASSUME JobInv, NEW w \in Workers, Finish(w), job[w].clean
               PROVE  Mirrored(w)
    OBVIOUS
  <2>1. /\ job[w].pc = "next" /\ job[w].todo = {}
        /\ Filed(job[w]) /\ Kept(job[w])
    BY DEF JobInv, Finish, Pc
  <2>2. /\ job[w].msg \in messages <=> job[w].kind = "upsert"
        /\ Attached(job[w].msg) = job[w].refs
        /\ \A f \in job[w].refs : Settled(job[w], f)
    BY <2>1 DEF Filed, Kept, Filing
  <2> QED BY <2>2 DEF Mirrored, Attached, Settled
<1>4. JobInv /\ [Next]_vars => [Clean]_vars
  BY <1>3
<1> QED BY <1>1, <1>2, <1>4, PTL DEF Spec, CleanJobMirrors
-----------------------------------------------------------------------------
(***************************************************************************)
(* How long a job can last.  CallsLeft bounds the calls that remain, those *)
(* of a run in which every step fails as late as it can: six for each      *)
(* attachment, one for each blob to delete, and those before and after.    *)
(***************************************************************************)
CallsAround(pc) ==
    CASE pc = "upsert"                 -> Cardinality(Files) + 3
      [] pc \in {"delete", "reconcile"} -> Cardinality(Files) + 2
      [] pc \in {"gc", "next"}         -> 1
      [] pc \in {"idle", "link"}       -> 0
      [] pc = "get"                    -> -1
      [] pc = "copy"                   -> -2
      [] pc = "store"                  -> -3
      [] pc \in {"skip", "failed"}     -> -4

CallsLeft(j) == 6 * Cardinality(j.todo) + Cardinality(j.gc) + CallsAround(j.pc)

StepsLeft(w) == CallsLeft(job[w])

\* The longest job: a message that has every file and drops every file.
Longest == 7 * Cardinality(Files) + 3

\* An attachment that is worked on is one still to be recorded, a job that
\* collects has a blob to collect, and one that does not has none.
Counted(j) == /\ j.pc \in AtFile => j.cur \in j.todo
              /\ j.pc = "gc" <=> j.gc # {}
              /\ j.pc = "idle" => j.todo = {}

CountInv == TypeInv /\ \A w \in Workers : Counted(job[w])

\* The steps on which a job keeps its lists.
Forward == {<<"upsert", "reconcile">>, <<"link", "skip">>, <<"link", "get">>,
            <<"get", "copy">>, <<"get", "failed">>, <<"copy", "store">>,
            <<"copy", "failed">>, <<"store", "failed">>}

(***************************************************************************)
(* What a step does to the job j of its worker: it ends, goes forward, is  *)
(* done with an attachment, has committed its transaction, has deleted a   *)
(* blob or begins with an attachment.                                      *)
(***************************************************************************)
Ends(j, k)     == j.pc # "idle" /\ k = Idle
Goes(j, k)     == /\ <<j.pc, k.pc>> \in Forward
                  /\ k.todo = j.todo /\ k.gc = j.gc /\ k.cur = j.cur
Records(j, k)  == /\ j.pc \in {"skip", "failed", "store"} /\ k.pc = "next"
                  /\ k.todo = j.todo \ {j.cur} /\ k.gc = j.gc
Commits(j, k)  == /\ j.pc \in {"delete", "reconcile"}
                  /\ k.gc \subseteq Files /\ k.todo = j.todo
                  /\ k.pc = IF k.gc = {} THEN "next" ELSE "gc"
Collects(j, k) == /\ j.pc = "gc"
                  /\ \E f \in j.gc : k.gc = j.gc \ {f}
                  /\ k.pc = IF k.gc = {} THEN "next" ELSE "gc"
                  /\ k.todo = j.todo
Begins(j, k)   == /\ j.pc = "next" /\ k.pc = "link" /\ k.cur \in j.todo
                  /\ k.todo = j.todo /\ k.gc = j.gc

Nears(j, k) == \/ Ends(j, k) \/ Goes(j, k) \/ Records(j, k)
               \/ Commits(j, k) \/ Collects(j, k) \/ Begins(j, k)

\* Every step of a job, and every failure, is one of these for its own worker.
LEMMA StepNears ==
    ASSUME TypeInv, NEW w \in Workers, Work(w) \/ Fault(w)
    PROVE  /\ Nears(job[w], job'[w])
           /\ \A v \in Workers : v # w => job'[v] = job[v]
<1>0. /\ job \in [Workers -> Job] /\ job[w] \in Job
      /\ edges \subseteq Messages \X Files
  BY DEF TypeInv, TypeOK
<1> DEFINE Others == \A v \in Workers : v # w => job'[v] = job[v]
<1>1. ASSUME NEW pc, Goto(w, pc), <<Pc(w), pc>> \in Forward
      PROVE  Goes(job[w], job'[w]) /\ Others
  BY <1>0, <1>1 DEF Goto, Goes, Pc, Job
<1>2. ASSUME NEW ok, Done(w, ok), Pc(w) \in {"skip", "failed", "store"}
      PROVE  Records(job[w], job'[w]) /\ Others
  BY <1>0, <1>2 DEF Done, Records, Pc, Cur, Job
<1>3. ASSUME Stop(w), Pc(w) # "idle"
      PROVE  Ends(job[w], job'[w]) /\ Others
  BY <1>0, <1>3 DEF Stop, Ends, Pc
<1>4. ASSUME NEW candidates \in SUBSET Files, NEW left,
             gcOrphans(w, candidates, left), Pc(w) \in {"delete", "reconcile"}
      PROVE  Commits(job[w], job'[w]) /\ Others
  <2> DEFINE uris == {f \in Orphans(candidates, left) : files[f].uri}
  <2>1. job' = [job EXCEPT ![w].pc = IF uris = {} THEN "next" ELSE "gc",
                           ![w].gc = uris]
    BY <1>4 DEF gcOrphans
  <2>2. uris \subseteq Files
    BY DEF Orphans
  <2> HIDE DEF uris
  <2>3. QED
    BY <1>0, <1>4, <2>1, <2>2 DEF Commits, Pc, Job
<1>5. CASE DeleteMessage(w) \/ ReconcileMessageFiles(w)
  <2>1. PICK keep : gcOrphans(w, {e[2] : e \in Gone(w, keep)},
                              edges \ Gone(w, keep))
    BY <1>5 DEF DeleteMessage, ReconcileMessageFiles
  <2>2. {e[2] : e \in Gone(w, keep)} \in SUBSET Files
    BY <1>0, GoneFiles
  <2>3. Pc(w) \in {"delete", "reconcile"}
    BY <1>5 DEF DeleteMessage, ReconcileMessageFiles
  <2>4. QED
    BY <1>4, <2>1, <2>2, <2>3 DEF Nears
<1>6. CASE DeleteBlob(w)
  <2>1. PICK f \in job[w].gc :
          job' = [job EXCEPT ![w].gc = @ \ {f},
                             ![w].pc = IF job[w].gc = {f} THEN "next" ELSE @]
    BY <1>6 DEF DeleteBlob
  <2>2. job[w].pc = "gc"
    BY <1>6 DEF DeleteBlob, Pc
  <2>3. /\ job'[w].gc = job[w].gc \ {f} /\ job'[w].todo = job[w].todo
        /\ job'[w].pc = IF job[w].gc = {f} THEN "next" ELSE "gc"
        /\ Others
    BY <1>0, <2>1, <2>2 DEF Job
  <2>4. job[w].gc = {f} <=> job'[w].gc = {}
    BY <2>3
  <2>5. QED
    BY <2>2, <2>3, <2>4 DEF Nears, Collects
<1>7. CASE UpsertFile(w)
  <2>1. PICK f \in job[w].todo : job' = [job EXCEPT ![w].pc = "link", ![w].cur = f]
    BY <1>7 DEF UpsertFile
  <2>2. job[w].pc = "next"
    BY <1>7 DEF UpsertFile, Pc
  <2>3. QED
    BY <1>0, <2>1, <2>2 DEF Nears, Begins, Job
<1>8. CASE \/ UpsertMessage(w) \/ LinkFile(w) \/ Get(w) \/ Put(w)
           \/ DbStoreFails(w) \/ GetFails(w) \/ PutFails(w)
  <2>1. \E pc : Goto(w, pc) /\ <<Pc(w), pc>> \in Forward
    BY <1>8 DEF UpsertMessage, LinkFile, Get, Put, DbStoreFails, GetFails,
       PutFails, Forward
  <2>2. QED
    BY <1>1, <2>1 DEF Nears
<1>9. CASE Skip(w) \/ Fail(w) \/ SetFileStored(w) \/ DbIgnored(w)
  <2>1. \E ok : Done(w, ok)
    BY <1>9 DEF Skip, Fail, SetFileStored, DbIgnored, SetFileState
  <2>2. Pc(w) \in {"skip", "failed", "store"}
    BY <1>9 DEF Skip, Fail, SetFileStored, DbIgnored
  <2>3. QED
    BY <1>2, <2>1, <2>2 DEF Nears
<1>10. CASE \/ LinkFails(w) \/ Finish(w) \/ DbAborts(w) \/ DbReplyLost(w)
            \/ DeleteBlobFails(w) \/ Crash(w)
  <2>1. Stop(w) /\ Pc(w) # "idle"
    BY <1>10 DEF LinkFails, Finish, DbAborts, DbReplyLost, DeleteBlobFails, Crash
  <2>2. QED
    BY <1>3, <2>1 DEF Nears
<1>11. QED
  BY <1>5, <1>6, <1>7, <1>8, <1>9, <1>10 DEF Work, Fault

\* Such a step keeps the lists counted and leaves fewer calls.
LEMMA NearsLeaves ==
    ASSUME IsFiniteSet(Files), NEW j \in Job, NEW k \in Job, Counted(j), Nears(j, k)
    PROVE  Counted(k) /\ CallsLeft(k) < CallsLeft(j)
<1> DEFINE N == Cardinality(Files)
           t == Cardinality(j.todo)
           u == Cardinality(k.todo)
           g == Cardinality(j.gc)
           h == Cardinality(k.gc)
<1>1. /\ j.todo \subseteq Files /\ j.gc \subseteq Files
      /\ k.todo \subseteq Files /\ k.gc \subseteq Files
  BY DEF Job
<1>2. ASSUME NEW S \in SUBSET Files
      PROVE  /\ IsFiniteSet(S) /\ Cardinality(S) \in Nat /\ Cardinality(S) <= N
             /\ S = {} <=> Cardinality(S) = 0
  BY FS_Subset, FS_CardinalityType, FS_EmptySet
<1>3. /\ t \in Nat /\ u \in Nat /\ g \in Nat /\ h \in Nat /\ N \in Nat
      /\ t <= N /\ u <= N /\ g <= N /\ h <= N
  BY <1>1, <1>2, FS_CardinalityType
<1>4. /\ j.todo = {} <=> t = 0
      /\ k.todo = {} <=> u = 0
      /\ j.gc = {} <=> g = 0
      /\ k.gc = {} <=> h = 0
  BY <1>1, <1>2
<1>5. /\ CallsLeft(j) = 6 * t + g + CallsAround(j.pc)
      /\ CallsLeft(k) = 6 * u + h + CallsAround(k.pc)
  BY DEF CallsLeft
<1>6. CASE Ends(j, k)
  <2>1. k.pc = "idle" /\ k.todo = {} /\ k.gc = {}
    BY <1>6 DEF Ends, Idle
  <2>2. CallsAround(k.pc) = 0
    BY <2>1 DEF CallsAround
  <2>3. CallsLeft(j) > 0
    <3>1. CASE j.pc \in AtFile
      <4>1. t >= 1
        BY <1>3, <1>4, <3>1 DEF Counted
      <4>2. CallsAround(j.pc) \in Int /\ CallsAround(j.pc) >= -4
        BY <3>1 DEF CallsAround, AtFile
      <4>3. QED
        BY <1>3, <1>5, <4>1, <4>2
    <3>2. CASE j.pc \notin AtFile
      <4>1. j.pc \in {"upsert", "delete", "reconcile", "gc", "next"}
        BY <1>6, <3>2 DEF Ends, Job, AtFile
      <4>2. CallsAround(j.pc) \in Int /\ CallsAround(j.pc) >= 1
        BY <1>3, <4>1 DEF CallsAround
      <4>3. QED
        BY <1>3, <1>5, <4>2
    <3>3. QED
      BY <3>1, <3>2
  <2>4. QED
    BY <1>3, <1>4, <1>5, <2>1, <2>2, <2>3 DEF Counted, AtFile
<1>7. CASE Goes(j, k)
  <2>1. u = t /\ h = g
    BY <1>7 DEF Goes
  <2>2. /\ CallsAround(j.pc) \in Int /\ CallsAround(k.pc) \in Int
        /\ CallsAround(k.pc) < CallsAround(j.pc)
    BY <1>3, <1>7 DEF Goes, Forward, CallsAround
  <2>3. /\ k.pc \in AtFile => j.pc \in AtFile
        /\ k.pc # "gc" /\ j.pc # "gc" /\ k.pc # "idle"
    BY <1>7 DEF Goes, Forward, AtFile
  <2>4. Counted(k)
    BY <1>7, <2>3 DEF Goes, Counted
  <2> HIDE DEF t, u, g, h
  <2>5. QED
    BY <1>3, <1>5, <2>1, <2>2, <2>4
<1>8. CASE Records(j, k)
  <2>1. j.cur \in j.todo
    BY <1>8 DEF Records, Counted, AtFile
  <2>2. u = t - 1 /\ h = g
    BY <1>1, <1>2, <1>8, <2>1, FS_RemoveElement DEF Records
  <2>3. CallsAround(k.pc) = 1 /\ CallsAround(j.pc) \in {-3, -4}
    BY <1>8 DEF Records, CallsAround
  <2>4. Counted(k)
    BY <1>8 DEF Records, Counted, AtFile
  <2> HIDE DEF t, u, g, h
  <2>5. QED
    BY <1>3, <1>5, <2>2, <2>3, <2>4
<1>9. CASE Commits(j, k)
  <2>1. u = t /\ g = 0
    BY <1>4, <1>9 DEF Commits, Counted
  <2>2. CallsAround(k.pc) = 1 /\ CallsAround(j.pc) = N + 2
    BY <1>9 DEF Commits, CallsAround
  <2>3. Counted(k)
    BY <1>9 DEF Commits, Counted, AtFile
  <2> HIDE DEF t, u, g, h, N
  <2>4. QED
    BY <1>3, <1>5, <2>1, <2>2, <2>3
<1>10. CASE Collects(j, k)
  <2>1. u = t /\ h = g - 1
    BY <1>1, <1>2, <1>10, FS_RemoveElement DEF Collects
  <2>2. CallsAround(k.pc) = 1 /\ CallsAround(j.pc) = 1
    BY <1>10 DEF Collects, CallsAround
  <2>3. Counted(k)
    BY <1>10 DEF Collects, Counted, AtFile
  <2> HIDE DEF t, u, g, h
  <2>4. QED
    BY <1>3, <1>5, <2>1, <2>2, <2>3
<1>11. CASE Begins(j, k)
  <2>1. u = t /\ h = g
    BY <1>11 DEF Begins
  <2>2. CallsAround(k.pc) = 0 /\ CallsAround(j.pc) = 1
    BY <1>11 DEF Begins, CallsAround
  <2>3. Counted(k)
    BY <1>11 DEF Begins, Counted, AtFile
  <2> HIDE DEF t, u, g, h
  <2>4. QED
    BY <1>3, <1>5, <2>1, <2>2, <2>3
<1>12. QED
  BY <1>6, <1>7, <1>8, <1>9, <1>10, <1>11 DEF Nears

\* The calls of a job are counted: none are left when it is idle, and Longest
\* at most.
LEMMA LeftBounds ==
    ASSUME IsFiniteSet(Files), NEW j \in Job, Counted(j)
    PROVE  /\ CallsLeft(j) \in 0..Longest
           /\ CallsLeft(j) = 0 <=> j.pc = "idle"
<1> DEFINE N == Cardinality(Files)
           t == Cardinality(j.todo)
           g == Cardinality(j.gc)
<1>1. j.todo \subseteq Files /\ j.gc \subseteq Files
  BY DEF Job
<1>2. ASSUME NEW S \in SUBSET Files
      PROVE  /\ Cardinality(S) \in Nat /\ Cardinality(S) <= N
             /\ S = {} <=> Cardinality(S) = 0
  BY FS_Subset, FS_CardinalityType, FS_EmptySet
<1>3. t \in Nat /\ g \in Nat /\ N \in Nat /\ t <= N /\ g <= N
  BY <1>1, <1>2, FS_CardinalityType
<1>4. /\ j.todo = {} <=> t = 0
      /\ j.gc = {} <=> g = 0
  BY <1>1, <1>2
<1>5. CallsLeft(j) = 6 * t + g + CallsAround(j.pc) /\ Longest = 7 * N + 3
  BY DEF CallsLeft, Longest
<1>6. /\ j.pc \in AtFile => t >= 1
      /\ j.pc # "gc" => g = 0
      /\ j.pc = "idle" => t = 0
  BY <1>1, <1>3, <1>4 DEF Counted
<1>7. CASE j.pc \in AtFile
  <2>1. CallsAround(j.pc) \in -4..0 /\ j.pc \notin {"gc", "idle"}
    BY <1>7 DEF CallsAround, AtFile
  <2> HIDE DEF t, g, N
  <2>2. QED
    BY <1>3, <1>5, <1>6, <1>7, <2>1
<1>8. CASE j.pc \in {"upsert", "delete", "reconcile"}
  <2>1. CallsAround(j.pc) \in {N + 2, N + 3}
    BY <1>8 DEF CallsAround
  <2> HIDE DEF t, g, N
  <2>2. QED
    BY <1>3, <1>5, <1>6, <1>8, <2>1
<1>9. CASE j.pc \in {"gc", "next"}
  <2>1. CallsAround(j.pc) = 1
    BY <1>9 DEF CallsAround
  <2> HIDE DEF t, g, N
  <2>2. QED
    BY <1>3, <1>5, <1>9, <2>1
<1>10. CASE j.pc = "idle"
  <2>1. CallsAround(j.pc) = 0
    BY <1>10 DEF CallsAround
  <2> HIDE DEF t, g, N
  <2>2. QED
    BY <1>3, <1>5, <1>6, <1>10, <2>1
<1>11. QED
  BY <1>7, <1>8, <1>9, <1>10 DEF Job, AtFile

\* Whatever the workers do, the lists of their jobs are counted.
LEMMA CountStep ==
    ASSUME IsFiniteSet(Files), CountInv, [Next]_vars
    PROVE  CountInv'
<1> USE DEF CountInv
<1>0. TypeInv' /\ job \in [Workers -> Job] /\ job' \in [Workers -> Job]
  BY TypeStep DEF TypeInv, TypeOK
<1>1. ASSUME NEW w \in Workers, StartUpsert(w) \/ StartDelete(w) PROVE CountInv'
  <2>1. /\ job'[w].pc \in {"upsert", "delete"} /\ job'[w].gc = {}
        /\ \A v \in Workers : v # w => job'[v] = job[v]
    BY <1>0, <1>1 DEF StartUpsert, StartDelete, Idle
  <2>2. Counted(job'[w])
    BY <2>1 DEF Counted, AtFile
  <2>3. \A v \in Workers : Counted(job'[v])
    BY <2>1, <2>2
  <2>4. QED
    BY <1>0, <2>3 DEF Counted
<1>2. ASSUME NEW w \in Workers, Work(w) \/ Fault(w) PROVE CountInv'
  <2>1. /\ Nears(job[w], job'[w])
        /\ \A v \in Workers : v # w => job'[v] = job[v]
    BY <1>2, StepNears
  <2>2. Counted(job'[w])
    BY <1>0, <2>1, NearsLeaves
  <2>3. \A v \in Workers : Counted(job'[v])
    BY <2>1, <2>2
  <2>4. QED
    BY <1>0, <2>3 DEF Counted
<1>3. CASE UNCHANGED vars
  BY <1>0, <1>3 DEF vars, Counted
<1>4. QED
  BY <1>1, <1>2, <1>3 DEF Next

(* At first there is nothing to count.                                     *)
LEMMA CountInit == Init => CountInv
<1> SUFFICES ASSUME Init PROVE CountInv
  OBVIOUS
<1>1. TypeInv
  BY DEF Init, TypeInv, TypeOK, Informed, Idle, Job, FileRow, NoRow,
     BlobState, AtFile
<1>2. \A w \in Workers : Counted(job[w])
  BY DEF Init, Counted, Idle, AtFile
<1>3. QED
  BY <1>1, <1>2 DEF CountInv

\* A bounded number of calls is left to every job, none only to an idle worker,
\* and a worker that collects has a blob to collect: it is never stuck.
EndInSight ==
    \A w \in Workers : /\ StepsLeft(w) \in 0..Longest
                       /\ StepsLeft(w) = 0 <=> Pc(w) = "idle"
                       /\ Pc(w) = "gc" => job[w].gc # {}

\* Each call of a job, and each failure, takes at least one from what is left
\* to that job, and nothing from another's: no attachment is tried again, and
\* no worker is set back by what the others write.
EveryCallCounts ==
    [][\A w \in Workers : Work(w) \/ Fault(w) =>
         /\ StepsLeft(w)' < StepsLeft(w)
         /\ \A v \in Workers \ {w} : StepsLeft(v)' = StepsLeft(v)]_vars

(* The count holds what it promises.                                       *)
LEMMA CountsInSight ==
    ASSUME IsFiniteSet(Files), CountInv
    PROVE  EndInSight
<1> SUFFICES ASSUME NEW w \in Workers
             PROVE  /\ StepsLeft(w) \in 0..Longest
                    /\ StepsLeft(w) = 0 <=> Pc(w) = "idle"
                    /\ Pc(w) = "gc" => job[w].gc # {}
  BY DEF EndInSight
<1>1. job[w] \in Job /\ Counted(job[w])
  BY DEF CountInv, TypeInv, TypeOK
<1> QED BY <1>1, LeftBounds DEF StepsLeft, Pc, Counted

(* Each call counts.                                                       *)
LEMMA CallsCount ==
    ASSUME IsFiniteSet(Files), CountInv, [Next]_vars,
           NEW w \in Workers, Work(w) \/ Fault(w)
    PROVE  /\ StepsLeft(w)' < StepsLeft(w)
           /\ \A v \in Workers \ {w} : StepsLeft(v)' = StepsLeft(v)
<1>1. /\ Nears(job[w], job'[w])
      /\ \A v \in Workers : v # w => job'[v] = job[v]
  BY StepNears DEF CountInv
<1>2. job[w] \in Job /\ job'[w] \in Job /\ Counted(job[w])
  BY TypeStep DEF CountInv, TypeInv, TypeOK
<1>3. CallsLeft(job'[w]) < CallsLeft(job[w])
  BY <1>1, <1>2, NearsLeaves
<1>4. \A v \in Workers : StepsLeft(v)' = CallsLeft(job'[v])
  BY DEF StepsLeft, CallsLeft, CallsAround, Pc
<1> QED BY <1>1, <1>3, <1>4 DEF StepsLeft

\* A job of n files makes at most 7n + 3 calls, over any number of workers and
\* whatever fails: what remains for JobsEnd is that the process goes on.
THEOREM JobsRunOut ==
    ASSUME IsFiniteSet(Files) PROVE Spec => []EndInSight /\ EveryCallCounts
<1> DEFINE Counts == \A w \in Workers : Work(w) \/ Fault(w) =>
              /\ StepsLeft(w)' < StepsLeft(w)
              /\ \A v \in Workers \ {w} : StepsLeft(v)' = StepsLeft(v)
<1>1. Init => CountInv
  BY CountInit
<1>2. CountInv /\ [Next]_vars => CountInv'
  BY CountStep
<1>3. CountInv => EndInSight
  BY CountsInSight
<1>4. CountInv /\ [Next]_vars => [Counts]_vars
  BY CallsCount
<1> QED BY <1>1, <1>2, <1>3, <1>4, PTL DEF Spec, EveryCallCounts
=============================================================================
