---------------------------- MODULE PgStoreProofs ----------------------------
(***************************************************************************)
(* Over Postgres, with any number of processes whose transactions and      *)
(* statements interleave, every edge still joins a message and a file, a   *)
(* job ends within a bounded number of statements, and the processes never *)
(* all wait.  With one process PgStore implements FileMirror.              *)
(***************************************************************************)
EXTENDS PgStore, FileMirrorProofs

\* A transaction is one of a worker that deletes or reconciles.
TxJob == \A w \in Workers : ~At(w, "none") => Pc(w) \in {"delete", "reconcile"}

(***************************************************************************)
(* What keeps the edges sound: no edge but those a transaction takes is    *)
(* left to a message it takes, and none to a file it takes once the check  *)
(* of the foreign key is done.  Its locks keep new ones away until it ends.*)
(***************************************************************************)
TxTakes ==
    \A w \in Workers :
       /\ tx[w].pc \in {"none", "delete"} => tx[w].messages = {}
       /\ tx[w].pc \notin {"check", "commit"} => tx[w].files = {}
       /\ \A e \in edges : e[1] \in tx[w].messages => e \in tx[w].edges
       /\ tx[w].pc = "commit" =>
             \A e \in edges : e[2] \in tx[w].files => e \in tx[w].edges

PgInv == /\ TypeInv
         /\ RefIntegrity
         /\ tx \in [Workers -> Tx]
         /\ TxJob
         /\ TxTakes
-----------------------------------------------------------------------------
\* A statement outside of a transaction that links a file waits for those
\* that delete its message or the file.
LEMMA LinkNeeds ==
    ASSUME NEW w \in Workers, At(w, "none"), Pc(w) = "link", Free(w)
    PROVE  \A v \in Workers \ {w} : /\ job[w].msg \notin tx[v].messages
                                    /\ Cur(w) \notin tx[v].files
<1>1. Needs(w) = [messages |-> {job[w].msg}, files |-> {Cur(w)},
                  edges |-> {<<job[w].msg, Cur(w)>>}]
  BY SMT DEF Needs, At
<1>2. ASSUME NEW v \in Workers \ {w}
      PROVE  /\ Needs(w).messages \cap tx[v].messages = {}
             /\ Needs(w).files \cap tx[v].files = {}
  BY DEF Free, WaitsFor
<1>3. Needs(w).messages = {job[w].msg} /\ Needs(w).files = {Cur(w)}
  BY <1>1
<1>4. QED
  BY <1>2, <1>3

\* What a statement of FileMirror, outside of transactions, does to the edges.
LEMMA OutsideEdges ==
    ASSUME NEW w \in Workers, Outside(w) \/ OutsideFails(w) \/ Crash(w)
    PROVE  \/ edges' = edges
           \/ /\ Pc(w) = "link"
              /\ edges' = edges \cup {<<job[w].msg, Cur(w)>>}
  BY DEF Outside, OutsideFails, Crash, UpsertMessage, DeleteBlob, LinkFile, LinkFails,
     Skip, Fail, Get, Put, SetFileStored, Finish, UpsertFile, SetFileState,
     DbAborts, DbIgnored, DbStoreFails, GetFails, PutFails, DeleteBlobFails,
     DbReplyLost

\* It moves its worker only.
LEMMA OutsideJobs ==
    ASSUME NEW w \in Workers, Outside(w) \/ OutsideFails(w) \/ Crash(w),
           NEW v \in Workers, v # w, job \in [Workers -> Job]
    PROVE  job'[v] = job[v]
<1>1. ASSUME NEW j, job' = [job EXCEPT ![w] = j] PROVE job'[v] = job[v]
  BY <1>1
<1>2. ASSUME NEW pc, Goto(w, pc) PROVE job'[v] = job[v]
  BY <1>2 DEF Goto
<1>3. ASSUME NEW ok, Done(w, ok) PROVE job'[v] = job[v]
  BY <1>3 DEF Done
<1>4. ASSUME Stop(w) PROVE job'[v] = job[v]
  BY <1>4 DEF Stop
<1>5. ASSUME UpsertFile(w) PROVE job'[v] = job[v]
  BY <1>5 DEF UpsertFile
<1>6. ASSUME DeleteBlob(w) PROVE job'[v] = job[v]
  BY <1>6 DEF DeleteBlob
<1>7. ASSUME OutsideFails(w) PROVE job'[v] = job[v]
  BY <1>2, <1>3, <1>4, <1>7 DEF OutsideFails, DbAborts, DbIgnored, DbStoreFails,
     GetFails, PutFails, DeleteBlobFails, DbReplyLost
<1>8. ASSUME Outside(w) PROVE job'[v] = job[v]
  BY <1>2, <1>3, <1>4, <1>5, <1>6, <1>8 DEF Outside, UpsertMessage, LinkFile,
     LinkFails, Skip, Fail, Get, Put, SetFileStored, Finish, SetFileState
<1>9. QED
  BY <1>4, <1>7, <1>8 DEF Crash

\* What a job does outside of a transaction is a step of FileMirror.
LEMMA OutsideNext ==
    ASSUME NEW w \in Workers, Outside(w) \/ OutsideFails(w) \/ Crash(w)
    PROVE  Next
  BY DEF Next, Work, Fault, Outside, OutsideFails

\* Steps of one worker that has no transaction open keep the invariant.
LEMMA OutsideKeeps ==
    ASSUME PgInv, NEW w \in Workers, At(w, "none"), tx' = tx,
           \/ (Outside(w) \/ OutsideFails(w)) /\ Free(w)
           \/ Crash(w)
    PROVE  PgInv'
<1> USE DEF PgInv
<1>1. Outside(w) \/ OutsideFails(w) \/ Crash(w)
  OBVIOUS
<1>2. TypeInv' /\ RefIntegrity'
  BY <1>1, OutsideNext, TypeStep, RefStep
<1>3. TxJob'
  <2> SUFFICES ASSUME NEW v \in Workers, ~At(v, "none")
               PROVE  Pc(v)' \in {"delete", "reconcile"}
    BY DEF TxJob, At
  <2>1. job'[v] = job[v]
    BY <1>1, OutsideJobs DEF TypeInv, TypeOK
  <2>2. QED
    BY <2>1 DEF TxJob, Pc
<1>4. TxTakes'
  <2>1. CASE edges' = edges
    BY <2>1 DEF TxTakes
  <2>2. CASE edges' # edges
    <3>1. Pc(w) = "link" /\ edges' = edges \cup {<<job[w].msg, Cur(w)>>}
      BY <1>1, <2>2, OutsideEdges
    <3>2. Free(w)
      BY <3>1, <2>2 DEF Crash
    <3>3. \A v \in Workers \ {w} : /\ job[w].msg \notin tx[v].messages
                                   /\ Cur(w) \notin tx[v].files
      BY <3>1, <3>2, LinkNeeds
    <3>4. tx[w].messages = {} /\ tx[w].files = {}
      BY DEF TxTakes, At
    <3>5. QED
      BY <3>1, <3>3, <3>4, SMT DEF TxTakes
  <2>3. QED
    BY <2>1, <2>2
<1>5. QED
  BY <1>2, <1>3, <1>4
-----------------------------------------------------------------------------
\* A transaction that ends without effect leaves the rows as they were.
LEMMA RollbackKeeps ==
    ASSUME PgInv, NEW w \in Workers, Rollback(w)
    PROVE  PgInv'
<1> USE DEF PgInv
<1>1. /\ Idle \in Job /\ Moves(w, Idle) /\ Informed(Idle)
      /\ UNCHANGED <<messages, files, edges, blobs>>
      /\ tx' = [tx EXCEPT ![w] = NoTx]
  BY StopMoves DEF Rollback
<1>2. /\ job' \in [Workers -> Job]
      /\ \A v \in Workers : v # w => job'[v] = job[v]
      /\ \A v \in Workers : Informed(job[v])'
  BY <1>1, MoveType
<1>3. TypeInv' /\ RefIntegrity'
  BY <1>1, <1>2 DEF TypeInv, TypeOK, RefIntegrity, HasRow
<1>4. /\ NoTx \in Tx /\ NoTx.pc = "none" /\ NoTx.messages = {} /\ NoTx.files = {}
  BY DEF NoTx, Tx
<1>5. tx' \in [Workers -> Tx] /\ tx'[w] = NoTx
      /\ \A v \in Workers : v # w => tx'[v] = tx[v]
  BY <1>1, <1>4
<1>6. TxJob'
  BY <1>2, <1>4, <1>5 DEF TxJob, At, Pc
<1>7. TxTakes'
  BY <1>1, <1>4, <1>5 DEF TxTakes
<1>8. QED
  BY <1>3, <1>5, <1>6, <1>7

\* Deleted rows take effect together: the edges that remain join rows that
\* remain, for the transaction has taken all edges of what it has taken.
LEMMA EffectKeeps ==
    ASSUME PgInv, NEW w \in Workers, At(w, "commit"), TakesEffect(w),
           NEW j \in Job, Moves(w, j), Informed(j)
    PROVE  PgInv'
<1> USE DEF PgInv
<1>1. /\ messages' = messages \ tx[w].messages
      /\ edges' = edges \ tx[w].edges
      /\ files' = [f \in Files |-> IF f \in tx[w].files THEN NoRow ELSE files[f]]
      /\ tx' = [tx EXCEPT ![w] = NoTx]
      /\ blobs' = blobs
  BY DEF TakesEffect
<1>2. /\ job' \in [Workers -> Job]
      /\ \A v \in Workers : v # w => job'[v] = job[v]
      /\ \A v \in Workers : Informed(job[v])'
  BY MoveType
<1>3. NoRow \in FileRow
  BY DEF NoRow, FileRow
<1>4. TypeInv'
  BY <1>1, <1>2, <1>3 DEF TypeInv, TypeOK
<1>5. RefIntegrity'
  <2> SUFFICES ASSUME NEW e \in edges, e \notin tx[w].edges
               PROVE  e[1] \in messages' /\ HasRow(e[2])'
    BY <1>1 DEF RefIntegrity
  <2>1. e[1] \in messages /\ HasRow(e[2]) /\ e[2] \in Files
    BY DEF RefIntegrity, TypeInv, TypeOK
  <2>2. e[1] \notin tx[w].messages /\ e[2] \notin tx[w].files
    BY DEF TxTakes, At
  <2>3. QED
    BY <1>1, <2>1, <2>2 DEF HasRow
<1>6. /\ NoTx \in Tx /\ NoTx.pc = "none" /\ NoTx.messages = {} /\ NoTx.files = {}
  BY DEF NoTx, Tx
<1>7. tx' \in [Workers -> Tx] /\ tx'[w] = NoTx
      /\ \A v \in Workers : v # w => tx'[v] = tx[v]
  BY <1>1, <1>6
<1>8. TxJob'
  BY <1>2, <1>6, <1>7 DEF TxJob, At, Pc
<1>9. TxTakes'
  BY <1>1, <1>6, <1>7 DEF TxTakes
<1>10. QED
  BY <1>4, <1>5, <1>7, <1>8, <1>9

\* A commit installs what the transaction has decided, known or not.
LEMMA CommitKeeps ==
    ASSUME PgInv, NEW w \in Workers, Commit(w) \/ CommitReplyLost(w)
    PROVE  PgInv'
<1> USE DEF PgInv
<1>1. CASE Commit(w)
  <2> DEFINE pc == IF tx[w].uris = {} THEN "next" ELSE "gc"
             j  == [job[w] EXCEPT !.pc = pc, !.gc = tx[w].uris]
  <2>1. job[w] \in Job /\ Informed(job[w]) /\ tx[w].uris \in SUBSET Files
    BY DEF TypeInv, TypeOK, Tx
  <2>2. j \in Job /\ j.pc \in {"next", "gc"} /\ j.msg = job[w].msg
    BY <2>1 DEF Job
  <2>3. Moves(w, j)
    BY <1>1 DEF Commit, Moves
  <2>4. Pc(w) \in {"delete", "reconcile"}
    BY <1>1 DEF Commit, TxJob, At
  <2> HIDE DEF j
  <2>5. Informed(j)
    BY <2>1, <2>2, <2>4 DEF Informed, Pc, AtFile
  <2>6. QED
    BY <1>1, <2>2, <2>3, <2>5, EffectKeeps DEF Commit
<1>2. CASE CommitReplyLost(w)
  BY <1>2, StopMoves, EffectKeeps DEF CommitReplyLost
<1>3. QED
  BY <1>1, <1>2
-----------------------------------------------------------------------------
\* Inside a transaction nothing that others see changes; t is its new state.
LEMMA InsideKeeps ==
    ASSUME PgInv, UNCHANGED vars, NEW w \in Workers, NEW t \in Tx,
           tx' = [tx EXCEPT ![w] = t], Pc(w) \in {"delete", "reconcile"},
           t.pc \in {"none", "delete"} => t.messages = {},
           t.pc \notin {"check", "commit"} => t.files = {},
           \A e \in edges : e[1] \in t.messages => e \in t.edges,
           t.pc = "commit" => \A e \in edges : e[2] \in t.files => e \in t.edges
    PROVE  PgInv'
<1> USE DEF PgInv
<1>1. tx' \in [Workers -> Tx] /\ tx'[w] = t
      /\ \A v \in Workers : v # w => tx'[v] = tx[v]
  OBVIOUS
<1>2. UNCHANGED <<messages, files, edges, blobs, job>>
  BY DEF vars
<1>3. TypeInv' /\ RefIntegrity'
  BY <1>2 DEF TypeInv, TypeOK, RefIntegrity, HasRow
<1>4. TxJob'
  BY <1>1, <1>2 DEF TxJob, At, Pc
<1>5. TxTakes'
  BY <1>1, <1>2 DEF TxTakes
<1>6. QED
  BY <1>1, <1>3, <1>4, <1>5

\* Each statement of a transaction, and its rollback.
LEMMA TransactionKeeps ==
    ASSUME PgInv, NEW w \in Workers, Transaction(w)
    PROVE  PgInv'
<1> USE DEF PgInv
<1>1. tx[w] \in Tx /\ edges \subseteq Messages \X Files
  BY DEF TypeInv, TypeOK
<1>2. CASE SelectCandidates(w)
  <2> DEFINE found == {e[2] : e \in Gone(w, Keep(w))}
             pc == IF Pc(w) = "reconcile" /\ found = {} THEN "commit" ELSE "delete"
             t  == [tx[w] EXCEPT !.candidates = found, !.pc = pc]
  <2>1. found \in SUBSET Files
    BY <1>1, GoneFiles
  <2>2. /\ t \in Tx /\ t.pc = pc /\ t.messages = tx[w].messages
        /\ t.files = tx[w].files
    BY <1>1, <2>1 DEF Tx
  <2>3. tx' = [tx EXCEPT ![w] = t] /\ UNCHANGED vars
        /\ Pc(w) \in {"delete", "reconcile"}
    BY <1>2 DEF SelectCandidates
  <2>4. tx[w].messages = {} /\ tx[w].files = {}
    BY <1>2 DEF SelectCandidates, TxTakes, At
  <2> HIDE DEF t
  <2>5. QED
    BY <2>2, <2>3, <2>4, InsideKeeps
<1>3. CASE DeleteRows(w)
  <2> DEFINE pc == IF tx[w].candidates = {} THEN "commit" ELSE "find"
             gone == Gone(w, Keep(w))
             msgs == Needs(w).messages \cap messages
             t == [tx[w] EXCEPT !.messages = msgs, !.edges = Needs(w).edges, !.pc = pc]
  <2>0. Pc(w) \in {"delete", "reconcile"} /\ tx[w].pc = "delete"
    BY <1>3 DEF DeleteRows, TxJob, At
  <2>1. Needs(w) = [NoRows EXCEPT
            !.messages = IF job[w].kind = "delete" THEN {job[w].msg} ELSE {},
            !.edges = gone]
    BY <2>0 DEF Needs, At
  <2>2. /\ Needs(w).messages = IF job[w].kind = "delete" THEN {job[w].msg} ELSE {}
        /\ Needs(w).edges = gone
    BY <2>1 DEF NoRows
  <2>3. msgs \in SUBSET Messages /\ gone \in SUBSET (Messages \X Files)
    BY <1>1 DEF Gone, TypeInv, TypeOK
  <2>4. \A e \in edges : e[1] \in msgs => e \in gone
    <3> SUFFICES ASSUME NEW e \in edges, e[1] \in msgs PROVE e \in gone
      OBVIOUS
    <3>1. job[w].kind = "delete" /\ e[1] = job[w].msg
      BY <2>2
    <3>2. QED
      BY <3>1 DEF Gone, Keep
  <2>5. tx' = [tx EXCEPT ![w] = t] /\ UNCHANGED vars
    BY <1>3 DEF DeleteRows
  <2>6. Pc(w) \in {"delete", "reconcile"} /\ tx[w].files = {}
    BY <1>3 DEF DeleteRows, TxJob, TxTakes, At
  <2> HIDE DEF msgs, gone
  <2>7. /\ t \in Tx /\ t.pc = pc /\ t.messages = msgs
        /\ t.edges = gone /\ t.files = tx[w].files
    BY <1>1, <2>2, <2>3 DEF Tx
  <2> HIDE DEF t
  <2>8. QED
    BY <2>4, <2>5, <2>6, <2>7, InsideKeeps
<1>4. CASE SelectOrphans(w)
  <2> DEFINE found == {f \in tx[w].candidates : HasRow(f) /\ References(w, f) = {}}
             us == {f \in found : files[f].uri}
             pc == IF found = {} THEN "commit" ELSE "remove"
             t == [tx[w] EXCEPT !.orphans = found, !.uris = us, !.pc = pc]
  <2>1. found \in SUBSET Files /\ us \in SUBSET Files
    BY <1>1 DEF Tx
  <2>2. tx' = [tx EXCEPT ![w] = t] /\ UNCHANGED vars
    BY <1>4 DEF SelectOrphans
  <2>3. Pc(w) \in {"delete", "reconcile"} /\ tx[w].files = {}
    BY <1>4 DEF SelectOrphans, TxJob, TxTakes, At
  <2> HIDE DEF found, us
  <2>4. /\ t \in Tx /\ t.pc = pc /\ t.messages = tx[w].messages
        /\ t.edges = tx[w].edges /\ t.files = tx[w].files
    BY <1>1, <2>1 DEF Tx
  <2> HIDE DEF t
  <2>5. /\ t.pc \in {"commit", "remove"} /\ t.files = {}
        /\ \A e \in edges : e[1] \in t.messages => e \in t.edges
    BY <2>3, <2>4 DEF TxTakes
  <2> HIDE DEF pc
  <2>6. QED
    BY <2>2, <2>3, <2>4, <2>5, InsideKeeps
<1>5. CASE DeleteFiles(w)
  <2> DEFINE fs == {f \in tx[w].orphans : HasRow(f)}
             t == [tx[w] EXCEPT !.files = fs, !.pc = "check"]
  <2>1. fs \in SUBSET Files
    BY <1>1 DEF Tx
  <2>2. tx' = [tx EXCEPT ![w] = t] /\ UNCHANGED vars
    BY <1>5 DEF DeleteFiles
  <2>3. Pc(w) \in {"delete", "reconcile"}
    BY <1>5 DEF DeleteFiles, TxJob, At
  <2> HIDE DEF fs
  <2>4. /\ t \in Tx /\ t.pc = "check" /\ t.messages = tx[w].messages
        /\ t.edges = tx[w].edges
    BY <1>1, <2>1 DEF Tx
  <2> HIDE DEF t
  <2>5. QED
    BY <2>2, <2>3, <2>4, InsideKeeps DEF TxTakes
<1>6. CASE CheckReferences(w)
  <2> DEFINE t == [tx[w] EXCEPT !.pc = "commit"]
  <2>1. \A f \in tx[w].files : References(w, f) = {}
    BY <1>6 DEF CheckReferences
  <2>2. \A e \in edges : e[2] \in tx[w].files => e \in tx[w].edges
    BY <2>1 DEF References
  <2>3. tx' = [tx EXCEPT ![w] = t] /\ UNCHANGED vars
    BY <1>6 DEF CheckReferences, Continue
  <2>4. Pc(w) \in {"delete", "reconcile"}
    BY <1>6 DEF CheckReferences, TxJob, At
  <2>5. /\ t \in Tx /\ t.pc = "commit" /\ t.messages = tx[w].messages
        /\ t.edges = tx[w].edges /\ t.files = tx[w].files
    BY <1>1 DEF Tx
  <2> HIDE DEF t
  <2>6. QED
    BY <2>2, <2>3, <2>4, <2>5, InsideKeeps DEF TxTakes
<1>7. QED
  BY <1>2, <1>3, <1>4, <1>5, <1>6, CommitKeeps DEF Transaction
-----------------------------------------------------------------------------
\* Every step of every worker keeps the invariant.
LEMMA PgStep == PgInv /\ [PgNext]_pgVars => PgInv'
<1> SUFFICES ASSUME PgInv, [PgNext]_pgVars PROVE PgInv'
  OBVIOUS
<1>1. ASSUME NEW w \in Workers, StartUpsert(w) \/ StartDelete(w), tx' = tx
      PROVE  PgInv'
  <2>1. Next
    BY <1>1 DEF Next
  <2>2. TypeInv' /\ RefIntegrity'
    BY <2>1, TypeStep, RefStep DEF PgInv
  <2>3. Pc(w) = "idle" /\ edges' = edges /\ \E j \in Job : Moves(w, j)
    BY <1>1, StartMoves DEF StartUpsert, StartDelete, PgInv
  <2>4. \A v \in Workers : v # w => job'[v] = job[v]
    BY <2>3 DEF Moves, PgInv, TypeInv, TypeOK
  <2>5. At(w, "none")
    BY <2>3 DEF PgInv, TxJob
  <2>6. TxJob' /\ TxTakes'
    BY <1>1, <2>3, <2>4, <2>5 DEF PgInv, TxJob, TxTakes, At, Pc
  <2>7. QED
    BY <1>1, <2>2, <2>6 DEF PgInv
<1>2. ASSUME NEW w \in Workers, PgWork(w) PROVE PgInv'
  <2>1. CASE Transaction(w)
    BY <2>1, TransactionKeeps
  <2>2. CASE Free(w) /\ Outside(w) /\ tx' = tx
    <3>1. Pc(w) \notin {"delete", "reconcile"}
      BY <2>2 DEF Outside, UpsertMessage, DeleteBlob, LinkFile, LinkFails, Skip, Fail,
         Get, Put, SetFileStored, Finish, UpsertFile
    <3>2. At(w, "none")
      BY <3>1 DEF PgInv, TxJob
    <3>3. QED
      BY <2>2, <3>2, OutsideKeeps
  <2>3. QED
    BY <1>2, <2>1, <2>2 DEF PgWork
<1>3. ASSUME NEW w \in Workers, PgErrors(w) PROVE PgInv'
  BY <1>3, RollbackKeeps DEF PgErrors, ForeignKeyFails, DeadlockDetected
<1>4. ASSUME NEW w \in Workers, PgFault(w) PROVE PgInv'
  BY <1>4, RollbackKeeps, CommitKeeps, OutsideKeeps
  DEF PgFault, TxFails, CrashInTx
<1>5. CASE UNCHANGED pgVars
  <2>1. UNCHANGED vars /\ tx' = tx
    BY <1>5 DEF pgVars, vars
  <2>2. TypeInv' /\ RefIntegrity'
    BY <2>1, TypeStep, RefStep DEF PgInv
  <2>3. TxJob' /\ TxTakes'
    BY <2>1 DEF vars, PgInv, TxJob, TxTakes, At, Pc
  <2>4. QED
    BY <2>1, <2>2, <2>3 DEF PgInv
<1>6. QED
  BY <1>1, <1>2, <1>3, <1>4, <1>5 DEF PgNext

(* At first no transaction is open.                                        *)
LEMMA PgInvInit == PgInit => PgInv
<1> SUFFICES ASSUME PgInit PROVE PgInv
  OBVIOUS
<1>1. TypeInv
  BY DEF PgInit, Init, TypeInv, TypeOK, Informed, Idle, Job, FileRow, NoRow,
     BlobState, AtFile
<1>2. RefIntegrity
  BY DEF PgInit, Init, RefIntegrity
<1>3. /\ NoTx \in Tx /\ NoTx.pc = "none" /\ NoTx.messages = {} /\ NoTx.files = {}
  BY DEF NoTx, Tx
<1> QED BY <1>1, <1>2, <1>3 DEF PgInit, PgInv, TxJob, TxTakes, At

\* However the transactions of store.go interleave, over whatever number of
\* processes, and whichever call fails, an edge joins a message and a file.
THEOREM PgEdgesJoinRows == PgSpec => []RefIntegrity
<1>1. PgInit => PgInv
  BY PgInvInit
<1>2. PgInv => RefIntegrity
  BY DEF PgInv
<1>3. QED
  BY <1>1, <1>2, PgStep, PTL DEF PgSpec
-----------------------------------------------------------------------------
(***************************************************************************)
(* With one process nothing changes under an open transaction, and what it *)
(* has decided when it commits is what the transaction of FileMirror does  *)
(* in one step.                                                            *)
(***************************************************************************)
Taken(w)      == Gone(w, Keep(w))
Candidates(w) == {e[2] : e \in Taken(w)}
Decided(w)    == Orphans(Candidates(w), edges \ Taken(w))

\* The local variables of a transaction, at each of its statements.
Exact(w, t) ==
    /\ t.pc = "none" => t = NoTx
    /\ t.pc # "none" => t.candidates = Candidates(w)
    /\ t.pc \in {"find", "remove", "check", "commit"} =>
          /\ t.edges = Taken(w)
          /\ t.messages = IF job[w].kind = "delete" THEN {job[w].msg} \cap messages
                          ELSE {}
    /\ t.pc = "delete" => t.edges = {}
    /\ t.pc \in {"delete", "find"} => t.uris = {}
    /\ t.pc = "remove" => t.orphans = Decided(w)
    /\ t.pc \in {"remove", "check", "commit"} =>
          t.uris = {f \in Decided(w) : files[f].uri}
    /\ t.pc \in {"check", "commit"} => t.files = Decided(w)

TxExact == \A w \in Workers : Exact(w, tx[w])

\* A candidate has its row, since an edge leads to it.
LEMMA DecidedRows ==
    ASSUME PgInv, NEW w \in Workers
    PROVE  /\ Taken(w) \subseteq edges
           /\ Candidates(w) \in SUBSET Files
           /\ \A f \in Candidates(w) : HasRow(f)
           /\ Decided(w) \subseteq Candidates(w)
<1>1. edges \subseteq Messages \X Files /\ RefIntegrity
  BY DEF PgInv, TypeInv, TypeOK
<1>2. Taken(w) \subseteq edges
  BY DEF Taken, Gone
<1>3. \A f \in Candidates(w) : \E e \in edges : f = e[2]
  BY <1>2 DEF Candidates
<1>4. \A e \in edges : e[2] \in Files /\ HasRow(e[2])
  BY <1>1 DEF RefIntegrity
<1> QED BY <1>2, <1>3, <1>4 DEF Decided, Orphans

\* What the search for orphans finds: candidates without another edge.
LEMMA FoundIsDecided ==
    ASSUME PgInv, NEW w \in Workers, tx[w].edges = Taken(w),
           tx[w].candidates = Candidates(w)
    PROVE  {f \in tx[w].candidates : HasRow(f) /\ References(w, f) = {}} = Decided(w)
<1>1. edges \subseteq Messages \X Files
  BY DEF PgInv, TypeInv, TypeOK
<1>2. ASSUME NEW f \in Candidates(w)
      PROVE  References(w, f) = {} <=>
                 \A m \in Messages : <<m, f>> \notin edges \ Taken(w)
  <2>1. ASSUME NEW m \in Messages, <<m, f>> \in edges \ Taken(w)
        PROVE  References(w, f) # {}
    BY <2>1 DEF References
  <2>2. ASSUME NEW e \in References(w, f)
        PROVE  \E m \in Messages : <<m, f>> \in edges \ Taken(w)
    <3>1. e \in edges \ Taken(w) /\ e[2] = f
      BY DEF References
    <3>2. e = <<e[1], f>> /\ e[1] \in Messages
      BY <1>1, <3>1
    <3> QED BY <3>1, <3>2
  <2> QED BY <2>1, <2>2
<1> QED BY <1>2, DecidedRows DEF Decided, Orphans

\* A statement inside of a transaction sees no change but its own.
LEMMA InsideExact ==
    ASSUME SingleWriter, UNCHANGED vars, tx \in [Workers -> Tx], NEW w \in Workers,
           NEW t, tx' = [tx EXCEPT ![w] = t], Exact(w, t)
    PROVE  TxExact'
<1>1. UNCHANGED <<messages, files, edges, job>>
  BY DEF vars
<1>2. Taken(w)' = Taken(w)
  BY <1>1 DEF Taken, Gone, Keep
<1>3. Candidates(w)' = Candidates(w)
  BY <1>2 DEF Candidates
<1>4. Decided(w)' = Decided(w)
  BY <1>1, <1>2, <1>3 DEF Decided, Orphans
<1>5. tx'[w] = t
  OBVIOUS
<1>6. Exact(w, tx[w])'
  BY <1>1, <1>2, <1>3, <1>4, <1>5 DEF Exact
<1> QED BY <1>6 DEF TxExact, SingleWriter

LEMMA TransactionExact ==
    ASSUME SingleWriter, PgInv, JobInv, TxExact, NEW w \in Workers,
           \/ SelectCandidates(w) \/ DeleteRows(w) \/ SelectOrphans(w)
           \/ DeleteFiles(w) \/ CheckReferences(w)
    PROVE  TxExact' /\ UNCHANGED vars
<1>0. /\ tx \in [Workers -> Tx] /\ tx[w] \in Tx
      /\ Exact(w, tx[w]) /\ Asked(job[w]) /\ Pc(w) = job[w].pc
      /\ UNCHANGED vars
  BY DEF PgInv, TxExact, JobInv, Pc, SelectCandidates, DeleteRows, SelectOrphans,
         DeleteFiles, CheckReferences
<1>1. CASE SelectCandidates(w)
  <2> DEFINE pc == IF Pc(w) = "reconcile" /\ Candidates(w) = {} THEN "commit" ELSE "delete"
             t  == [tx[w] EXCEPT !.candidates = Candidates(w), !.pc = pc]
  <2>1. tx' = [tx EXCEPT ![w] = t]
    BY <1>1 DEF SelectCandidates, Candidates, Taken
  <2>2. /\ t.pc = pc /\ t.candidates = Candidates(w)
        /\ t.edges = tx[w].edges /\ t.messages = tx[w].messages
        /\ t.uris = tx[w].uris /\ t.files = tx[w].files
    BY <1>0 DEF Tx
  <2>3. tx[w] = NoTx
    BY <1>0, <1>1 DEF SelectCandidates, At, Exact
  <2>4. /\ t.edges = {} /\ t.messages = {} /\ t.uris = {} /\ t.files = {}
    BY <2>2, <2>3 DEF NoTx
  <2>5. CASE pc = "delete"
    <3> HIDE DEF t
    <3> QED BY <1>0, <2>1, <2>2, <2>4, <2>5, InsideExact DEF Exact
  <2>6. CASE Pc(w) = "reconcile" /\ Candidates(w) = {}
    <3>1. Taken(w) = {} /\ Decided(w) = {} /\ pc = "commit"
      BY <2>6 DEF Candidates, Decided, Orphans
    <3>2. job[w].kind = "upsert"
      BY <1>0, <2>6 DEF Asked
    <3> HIDE DEF t
    <3>3. Exact(w, t)
      BY <2>2, <2>4, <3>1, <3>2 DEF Exact
    <3> QED BY <1>0, <2>1, <3>3, InsideExact
  <2> QED BY <2>5, <2>6
<1>2. CASE DeleteRows(w)
  <2> DEFINE pc == IF tx[w].candidates = {} THEN "commit" ELSE "find"
             msgs == Needs(w).messages \cap messages
             t == [tx[w] EXCEPT !.messages = msgs, !.edges = Needs(w).edges, !.pc = pc]
  <2>0. tx[w].pc = "delete" /\ Pc(w) \in {"delete", "reconcile"}
    BY <1>2 DEF DeleteRows, PgInv, TxJob, At
  <2>1. Needs(w) = [NoRows EXCEPT
            !.messages = IF job[w].kind = "delete" THEN {job[w].msg} ELSE {},
            !.edges = Gone(w, Keep(w))]
    BY <2>0 DEF Needs, At
  <2>2. /\ Needs(w).messages = IF job[w].kind = "delete" THEN {job[w].msg} ELSE {}
        /\ Needs(w).edges = Taken(w)
    BY <2>1 DEF NoRows, Taken
  <2>3. tx' = [tx EXCEPT ![w] = t]
    BY <1>2 DEF DeleteRows
  <2>4. /\ t.pc = pc /\ t.candidates = tx[w].candidates
        /\ t.edges = Taken(w) /\ t.messages = msgs
        /\ t.uris = tx[w].uris /\ t.files = tx[w].files
    BY <1>0, <2>2 DEF Tx
  <2>5. msgs = IF job[w].kind = "delete" THEN {job[w].msg} \cap messages ELSE {}
    BY <2>2
  <2> HIDE DEF t, msgs
  <2>6. tx[w].candidates = Candidates(w) /\ tx[w].uris = {} /\ tx[w].files = {}
    BY <1>0, <2>0 DEF Exact, PgInv, TxTakes
  <2>7. Candidates(w) = {} => Decided(w) = {}
    BY DEF Decided, Orphans
  <2>8. Exact(w, t)
    <3>1. CASE tx[w].candidates = {}
      BY <2>4, <2>5, <2>6, <2>7, <3>1 DEF Exact
    <3>2. CASE tx[w].candidates # {}
      BY <2>4, <2>5, <2>6, <3>2 DEF Exact
    <3> QED BY <3>1, <3>2
  <2> QED BY <1>0, <2>3, <2>8, InsideExact
<1>3. CASE SelectOrphans(w)
  <2> DEFINE found == {f \in tx[w].candidates : HasRow(f) /\ References(w, f) = {}}
             us == {f \in found : files[f].uri}
             pc == IF found = {} THEN "commit" ELSE "remove"
             t == [tx[w] EXCEPT !.orphans = found, !.uris = us, !.pc = pc]
  <2>1. tx[w].pc = "find"
    BY <1>3 DEF SelectOrphans, At
  <2>2. /\ tx[w].candidates = Candidates(w) /\ tx[w].edges = Taken(w)
        /\ tx[w].messages = IF job[w].kind = "delete" THEN {job[w].msg} \cap messages
                            ELSE {}
        /\ tx[w].files = {}
    BY <1>0, <2>1 DEF Exact, PgInv, TxTakes
  <2>3. found = Decided(w)
    BY <2>2, FoundIsDecided
  <2>4. tx' = [tx EXCEPT ![w] = t]
    BY <1>3 DEF SelectOrphans
  <2> HIDE DEF found
  <2>5. /\ t.pc = pc /\ t.candidates = tx[w].candidates
        /\ t.edges = tx[w].edges /\ t.messages = tx[w].messages
        /\ t.orphans = found /\ t.uris = us /\ t.files = tx[w].files
    BY <1>0 DEF Tx
  <2> HIDE DEF t
  <2>6. Exact(w, t)
    <3>1. CASE found = {}
      BY <2>2, <2>3, <2>5, <3>1 DEF Exact
    <3>2. CASE found # {}
      BY <2>2, <2>3, <2>5, <3>2 DEF Exact
    <3> QED BY <3>1, <3>2
  <2> QED BY <1>0, <2>4, <2>6, InsideExact
<1>4. CASE DeleteFiles(w)
  <2> DEFINE fs == {f \in tx[w].orphans : HasRow(f)}
             t == [tx[w] EXCEPT !.files = fs, !.pc = "check"]
  <2>1. tx[w].pc = "remove" /\ tx' = [tx EXCEPT ![w] = t]
    BY <1>4 DEF DeleteFiles, At
  <2>2. fs = Decided(w)
    BY <1>0, <2>1, DecidedRows DEF Exact
  <2> HIDE DEF fs
  <2>3. /\ t.pc = "check" /\ t.candidates = tx[w].candidates
        /\ t.edges = tx[w].edges /\ t.messages = tx[w].messages
        /\ t.uris = tx[w].uris /\ t.files = fs
    BY <1>0 DEF Tx
  <2> HIDE DEF t
  <2>4. Exact(w, t)
    BY <1>0, <2>1, <2>2, <2>3 DEF Exact
  <2> QED BY <1>0, <2>1, <2>4, InsideExact
<1>5. CASE CheckReferences(w)
  <2> DEFINE t == [tx[w] EXCEPT !.pc = "commit"]
  <2>1. tx[w].pc = "check" /\ tx' = [tx EXCEPT ![w] = t]
    BY <1>5 DEF CheckReferences, Continue, At
  <2>2. /\ t.pc = "commit" /\ t.candidates = tx[w].candidates
        /\ t.edges = tx[w].edges /\ t.messages = tx[w].messages
        /\ t.uris = tx[w].uris /\ t.files = tx[w].files
    BY <1>0 DEF Tx
  <2> HIDE DEF t
  <2>3. Exact(w, t)
    BY <1>0, <2>1, <2>2 DEF Exact
  <2> QED BY <1>0, <2>1, <2>3, InsideExact
<1> QED BY <1>0, <1>1, <1>2, <1>3, <1>4, <1>5

\* The commit is the transaction of FileMirror.
LEMMA EffectIsCollect ==
    ASSUME PgInv, JobInv, TxExact, NEW w \in Workers, At(w, "commit"), TakesEffect(w)
    PROVE  /\ UNCHANGED blobs
           /\ tx[w].uris = {f \in Decided(w) : files[f].uri}
           /\ Collect(Candidates(w), edges \ Taken(w))
           /\ \/ /\ Pc(w) = "delete" /\ Taken(w) = Gone(w, {})
                 /\ messages' = messages \ {job[w].msg}
              \/ /\ Pc(w) = "reconcile" /\ Taken(w) = Gone(w, job[w].refs)
                 /\ UNCHANGED messages
<1>1. /\ tx[w].pc = "commit" /\ Exact(w, tx[w]) /\ Asked(job[w])
      /\ Pc(w) \in {"delete", "reconcile"} /\ Pc(w) = job[w].pc
  BY DEF At, TxExact, JobInv, PgInv, TxJob, Pc
<1>2. /\ tx[w].edges = Taken(w) /\ tx[w].files = Decided(w)
      /\ tx[w].uris = {f \in Decided(w) : files[f].uri}
      /\ tx[w].messages = IF job[w].kind = "delete" THEN {job[w].msg} \cap messages
                          ELSE {}
  BY <1>1 DEF Exact
<1>3. /\ messages' = messages \ tx[w].messages
      /\ edges' = edges \ tx[w].edges
      /\ files' = [f \in Files |-> IF f \in tx[w].files THEN NoRow ELSE files[f]]
      /\ UNCHANGED blobs
  BY DEF TakesEffect
<1>4. Collect(Candidates(w), edges \ Taken(w))
  BY <1>2, <1>3 DEF Collect, Decided
<1>5. CASE Pc(w) = "delete"
  BY <1>1, <1>2, <1>3, <1>4, <1>5 DEF Asked, Taken, Keep
<1>6. CASE Pc(w) = "reconcile"
  BY <1>1, <1>2, <1>3, <1>4, <1>6 DEF Asked, Taken, Keep
<1> QED BY <1>1, <1>5, <1>6

LEMMA CommitMirrors ==
    ASSUME PgInv, JobInv, TxExact, NEW w \in Workers, Commit(w) \/ CommitReplyLost(w)
    PROVE  DeleteMessage(w) \/ ReconcileMessageFiles(w) \/ DbReplyLost(w)
<1>1. At(w, "commit") /\ TakesEffect(w)
  BY DEF Commit, CommitReplyLost
<1>2. /\ UNCHANGED blobs
      /\ tx[w].uris = {f \in Decided(w) : files[f].uri}
      /\ Collect(Candidates(w), edges \ Taken(w))
      /\ \/ /\ Pc(w) = "delete" /\ Taken(w) = Gone(w, {})
            /\ messages' = messages \ {job[w].msg}
         \/ /\ Pc(w) = "reconcile" /\ Taken(w) = Gone(w, job[w].refs)
            /\ UNCHANGED messages
  BY <1>1, EffectIsCollect
<1>3. CASE Commit(w)
  <2>1. gcOrphans(w, Candidates(w), edges \ Taken(w))
    BY <1>2, <1>3 DEF Commit, gcOrphans, Decided
  <2> QED BY <1>2, <2>1 DEF DeleteMessage, ReconcileMessageFiles, Candidates
<1>4. CASE CommitReplyLost(w)
  BY <1>2, <1>4 DEF CommitReplyLost, DbReplyLost, Candidates
<1> QED BY <1>3, <1>4

\* Of one process no statement waits, and no reference comes to a file between
\* the search for orphans and their delete.
LEMMA NoErrors ==
    ASSUME SingleWriter, PgInv, TxExact, NEW w \in Workers
    PROVE  ~PgErrors(w)
<1>1. ASSUME DeadlockDetected(w) PROVE FALSE
  BY <1>1 DEF DeadlockDetected, MayWaitFor, WaitsFor, SingleWriter
<1>2. ASSUME ForeignKeyFails(w) PROVE FALSE
  <2>1. PICK f \in tx[w].files, e \in edges : e \in References(w, f)
    BY <1>2 DEF ForeignKeyFails
  <2>2. tx[w].files = Decided(w) /\ tx[w].edges = Taken(w)
    BY <1>2 DEF ForeignKeyFails, At, TxExact, Exact
  <2>3. e \in edges \ Taken(w) /\ e[2] = f /\ e = <<e[1], e[2]>> /\ e[1] \in Messages
    BY <2>1, <2>2 DEF References, PgInv, TypeInv, TypeOK
  <2> QED BY <2>1, <2>2, <2>3 DEF Decided, Orphans
<1> QED BY <1>1, <1>2 DEF PgErrors

\* A step of the one process is a step of FileMirror, or changes nothing there.
LEMMA PgStepMirrors ==
    ASSUME SingleWriter, PgInv, JobInv, TxExact, [PgNext]_pgVars
    PROVE  [Next]_vars /\ TxExact'
<1>a. ASSUME NEW w \in Workers, tx' = tx, At(w, "none") PROVE TxExact'
  <2>1. tx'[w] = NoTx
    BY <1>a DEF TxExact, Exact, At
  <2>2. Exact(w, tx[w])'
    BY <2>1 DEF Exact, NoTx
  <2> QED BY <2>2 DEF TxExact, SingleWriter
<1>b. ASSUME NEW w \in Workers, tx' = [tx EXCEPT ![w] = NoTx] PROVE TxExact'
  <2>1. tx'[w] = NoTx
    BY <1>b DEF PgInv
  <2>2. Exact(w, tx[w])'
    BY <2>1 DEF Exact, NoTx
  <2> QED BY <2>2 DEF TxExact, SingleWriter
<1>c. ASSUME NEW w \in Workers, Pc(w) \notin {"delete", "reconcile"} PROVE At(w, "none")
  BY <1>c DEF PgInv, TxJob
<1>1. ASSUME NEW w \in Workers, StartUpsert(w) \/ StartDelete(w), tx' = tx
      PROVE  Next /\ TxExact'
  <2>1. At(w, "none")
    BY <1>1, <1>c DEF StartUpsert, StartDelete
  <2> QED BY <1>1, <1>a, <2>1 DEF Next
<1>2. ASSUME NEW w \in Workers, Transaction(w) PROVE [Next]_vars /\ TxExact'
  <2>1. CASE Commit(w)
    <3>1. Next
      BY <2>1, CommitMirrors DEF Next, Work, Fault
    <3>2. TxExact'
      BY <2>1, <1>b DEF Commit, TakesEffect
    <3> QED BY <3>1, <3>2
  <2>2. CASE ~Commit(w)
    <3>1. \/ SelectCandidates(w) \/ DeleteRows(w) \/ SelectOrphans(w)
          \/ DeleteFiles(w) \/ CheckReferences(w)
      BY <1>2, <2>2 DEF Transaction
    <3> QED BY <3>1, TransactionExact
  <2> QED BY <2>1, <2>2
<1>3. ASSUME NEW w \in Workers, Outside(w), tx' = tx PROVE Next /\ TxExact'
  <2>1. Pc(w) \notin {"delete", "reconcile"}
    BY <1>3 DEF Outside, UpsertMessage, DeleteBlob, LinkFile, LinkFails, Skip, Fail,
       Get, Put, SetFileStored, Finish, UpsertFile
  <2> QED BY <1>3, <1>a, <1>c, <2>1, OutsideNext
<1>4. ASSUME NEW w \in Workers, TxFails(w) \/ CrashInTx(w) PROVE Next /\ TxExact'
  <2>1. Pc(w) \in {"delete", "reconcile"} /\ Rollback(w)
    BY <1>4 DEF TxFails, CrashInTx, PgInv, TxJob
  <2>2. DbAborts(w) \/ Crash(w)
    BY <1>4, <2>1 DEF TxFails, CrashInTx, DbAborts, Crash, Rollback
  <2> QED BY <1>b, <2>1, <2>2 DEF Rollback, Next, Fault
<1>5. ASSUME NEW w \in Workers, CommitReplyLost(w) PROVE Next /\ TxExact'
  <2>1. Next
    BY <1>5, CommitMirrors DEF Next, Work, Fault
  <2> QED BY <1>5, <1>b, <2>1 DEF CommitReplyLost, TakesEffect
<1>6. ASSUME NEW w \in Workers, At(w, "none"), Crash(w) \/ OutsideFails(w), tx' = tx
      PROVE  Next /\ TxExact'
  BY <1>6, <1>a, OutsideNext
<1>7. CASE UNCHANGED pgVars
  <2>1. UNCHANGED vars /\ tx' = tx
    BY <1>7 DEF pgVars, vars
  <2>2. ASSUME NEW w \in Workers PROVE TxExact'
    <3>1. tx' = [tx EXCEPT ![w] = tx[w]] /\ Exact(w, tx[w])
      BY <2>1 DEF PgInv, TxExact
    <3>2. PICK t : t = tx[w]
      OBVIOUS
    <3> QED BY <2>1, <3>1, <3>2, InsideExact DEF PgInv
  <2> QED BY <2>1, <2>2 DEF TxExact
<1>8. ASSUME NEW w \in Workers, PgWork(w) PROVE [Next]_vars /\ TxExact'
  BY <1>2, <1>3, <1>8 DEF PgWork
<1>9. ASSUME NEW w \in Workers, PgFault(w) PROVE Next /\ TxExact'
  BY <1>4, <1>5, <1>6, <1>9 DEF PgFault
<1> QED BY <1>1, <1>7, <1>8, <1>9, NoErrors DEF PgNext

\* Over Postgres one process does, statement by statement, what FileMirror does
\* in one step: so its theorems about a single writer hold over Postgres too.
THEOREM PgImplementsFileMirror == ASSUME SingleWriter PROVE PgSpec => Spec
<1>1. PgInit => Init /\ TxExact
  <2>1. NoTx.pc = "none"
    BY DEF NoTx
  <2> QED BY <2>1 DEF PgInit, TxExact, Exact
<1>2. PgInit => PgInv /\ JobInv
  BY PgInvInit, JobInit DEF PgInit
<1>3. PgInv /\ JobInv /\ TxExact /\ [PgNext]_pgVars =>
          PgInv' /\ JobInv' /\ TxExact' /\ [Next]_vars
  BY PgStep, JobStep, PgStepMirrors
<1> QED BY <1>1, <1>2, <1>3, PTL DEF PgSpec, Spec

\* A single process over Postgres loses no object that a row claims, leaves no
\* file without a message, and a job of its that met no failure is complete.
THEOREM PgSingleWriterMirrors ==
    ASSUME SingleWriter
    PROVE  PgSpec => /\ []UriHasBlob
                     /\ CollectsOnlyUnclaimed
                     /\ LastEdgeCollects
                     /\ CleanJobMirrors
BY PgImplementsFileMirror, UrisHaveBlobs, OnlyUnclaimedGo, LastEdgeTakesRow,
   CleanJobsMirror
-----------------------------------------------------------------------------
(***************************************************************************)
(* How long a job can last over Postgres, and who waits for whom.  The     *)
(* transaction adds its statements to the calls of FileMirror; that it     *)
(* ends rests on two facts about locks: only what lies between a delete    *)
(* and its commit holds one, and a circle of waits is always noticed.      *)
(***************************************************************************)
StatementsLeft(j, t) ==
    CASE j.pc = "upsert" -> 5
      [] j.pc \in {"delete", "reconcile"} ->
            (CASE t.pc = "none"   -> 5
               [] t.pc = "delete" -> 4
               [] t.pc = "find"   -> 3
               [] t.pc = "remove" -> 2
               [] t.pc = "check"  -> 1
               [] t.pc = "commit" -> 0)
      [] OTHER -> 0

PgStepsLeft(w) == StepsLeft(w) + StatementsLeft(job[w], tx[w])

\* Before its first delete a transaction holds no row.
TxHolds == \A w \in Workers : tx[w].pc \in {"none", "delete"} => tx[w].edges = {}

PgCountInv == PgInv /\ CountInv /\ TxHolds

\* The order of the statements of a transaction.
InOrder == {<<"none", "delete">>, <<"none", "commit">>, <<"delete", "find">>,
            <<"delete", "commit">>, <<"find", "remove">>, <<"find", "commit">>,
            <<"remove", "check">>, <<"check", "commit">>}

(***************************************************************************)
(* What a step does to its worker, whose job is j and becomes k and whose  *)
(* transaction is t and becomes u: the next statement, the end of the      *)
(* transaction, or a call outside of one.                                  *)
(***************************************************************************)
Inside(j, k, t, u)  == /\ k = j /\ j.pc \in {"delete", "reconcile"}
                       /\ <<t.pc, u.pc>> \in InOrder
                       /\ u.pc = "delete" => u.edges = {}
Closes(j, k, t, u)  == /\ u = NoTx
                       /\ \/ Ends(j, k)
                          \/ Commits(j, k) /\ t.pc = "commit"
Apart(j, k, t, u)   == u = t /\ t.pc = "none" /\ Nears(j, k)

PgNears(j, k, t, u) == Inside(j, k, t, u) \/ Closes(j, k, t, u) \/ Apart(j, k, t, u)

\* Who is waited for is in a transaction that has begun to delete.
LEMMA HoldersInside ==
    ASSUME PgInv, TxHolds, NEW v \in Workers, NEW w \in Workers, WaitsFor(v, w)
    PROVE  /\ tx[w].pc \in {"find", "remove", "check", "commit"}
           /\ Pc(w) \in {"delete", "reconcile"}
           /\ Needs(v).files \cap tx[w].files # {} => tx[w].pc \in {"check", "commit"}
<1>1. /\ tx[w].pc \in {"none", "delete"} => tx[w].messages = {}
      /\ tx[w].pc \notin {"check", "commit"} => tx[w].files = {}
      /\ tx[w].pc \in {"none", "delete"} => tx[w].edges = {}
  BY DEF PgInv, TxTakes, TxHolds
<1>2. \/ Needs(v).messages \cap tx[w].messages # {}
      \/ Needs(v).edges \cap tx[w].edges # {}
      \/ Needs(v).files \cap tx[w].files # {}
  BY DEF WaitsFor
<1>3. tx[w].pc \notin {"none", "delete"}
  BY <1>1, <1>2
<1>4. tx[w].pc \in {"none", "delete", "find", "remove", "check", "commit"}
  BY DEF PgInv, Tx
<1>5. Pc(w) \in {"delete", "reconcile"}
  BY <1>3 DEF PgInv, TxJob, At
<1>6. QED
  BY <1>1, <1>3, <1>4, <1>5

\* Every step of PgStore but the start of a job is one of these.
LEMMA PgStepNears ==
    ASSUME PgInv, TxHolds, NEW w \in Workers, PgWork(w) \/ PgErrors(w) \/ PgFault(w)
    PROVE  /\ PgNears(job[w], job'[w], tx[w], tx'[w])
           /\ \A v \in Workers : v # w => job'[v] = job[v] /\ tx'[v] = tx[v]
<1>0. /\ job \in [Workers -> Job] /\ job[w] \in Job /\ TypeInv
      /\ tx \in [Workers -> Tx] /\ tx[w] \in Tx
      /\ ~At(w, "none") => Pc(w) \in {"delete", "reconcile"}
  BY DEF PgInv, TypeInv, TypeOK, TxJob
<1> DEFINE Others == \A v \in Workers : v # w => job'[v] = job[v] /\ tx'[v] = tx[v]
<1>1. ASSUME Stop(w), Pc(w) # "idle", tx' = [tx EXCEPT ![w] = NoTx]
      PROVE  PgNears(job[w], job'[w], tx[w], tx'[w]) /\ Others
  BY <1>0, <1>1 DEF Stop, Pc, PgNears, Closes, Ends
<1>2. CASE \/ SelectCandidates(w) \/ DeleteRows(w) \/ SelectOrphans(w)
           \/ DeleteFiles(w) \/ CheckReferences(w)
  <2> DEFINE Statement == /\ <<tx[w].pc, tx'[w].pc>> \in InOrder
                          /\ tx'[w].pc = "delete" => tx'[w].edges = {}
                          /\ \A v \in Workers : v # w => tx'[v] = tx[v]
  <2>1. job' = job /\ Pc(w) \in {"delete", "reconcile"}
    BY <1>0, <1>2 DEF SelectCandidates, DeleteRows, SelectOrphans, DeleteFiles,
       CheckReferences, vars, At
  <2>2. ASSUME SelectCandidates(w) PROVE Statement
    <3>1. tx[w].pc = "none" /\ tx[w].edges = {}
      BY <2>2 DEF SelectCandidates, At, TxHolds
    <3>2. /\ tx'[w].pc \in {"commit", "delete"} /\ tx'[w].edges = tx[w].edges
          /\ \A v \in Workers : v # w => tx'[v] = tx[v]
      BY <1>0, <2>2 DEF SelectCandidates, Tx
    <3>3. QED
      BY <3>1, <3>2 DEF InOrder
  <2>3. ASSUME DeleteRows(w) PROVE Statement
    <3>1. tx[w].pc = "delete" /\ tx'[w].pc \in {"commit", "find"}
      BY <1>0, <2>3 DEF DeleteRows, At, Tx
    <3>2. \A v \in Workers : v # w => tx'[v] = tx[v]
      BY <1>0, <2>3 DEF DeleteRows
    <3>3. QED
      BY <3>1, <3>2 DEF InOrder
  <2>4. ASSUME SelectOrphans(w) PROVE Statement
    <3>1. tx[w].pc = "find" /\ tx'[w].pc \in {"commit", "remove"}
      BY <1>0, <2>4 DEF SelectOrphans, At, Tx
    <3>2. \A v \in Workers : v # w => tx'[v] = tx[v]
      BY <1>0, <2>4 DEF SelectOrphans
    <3>3. QED
      BY <3>1, <3>2 DEF InOrder
  <2>5. ASSUME DeleteFiles(w) PROVE Statement
    BY <1>0, <2>5 DEF DeleteFiles, At, InOrder, Tx
  <2>6. ASSUME CheckReferences(w) PROVE Statement
    BY <1>0, <2>6 DEF CheckReferences, Continue, At, InOrder, Tx
  <2>7. Statement
    BY <1>2, <2>2, <2>3, <2>4, <2>5, <2>6
  <2>8. QED
    BY <2>1, <2>7 DEF PgNears, Inside, Pc
<1>3. CASE Commit(w)
  <2>1. /\ job' = [job EXCEPT ![w].pc = IF tx[w].uris = {} THEN "next" ELSE "gc",
                              ![w].gc = tx[w].uris]
        /\ tx[w].pc = "commit" /\ tx' = [tx EXCEPT ![w] = NoTx]
    BY <1>3 DEF Commit, TakesEffect, At
  <2>2. tx[w].uris \subseteq Files /\ Pc(w) \in {"delete", "reconcile"}
    BY <1>0, <2>1 DEF Tx, At
  <2>3. Commits(job[w], job'[w])
    BY <1>0, <2>1, <2>2 DEF Commits, Pc, Job
  <2>4. QED
    BY <1>0, <2>1, <2>3 DEF PgNears, Closes
<1>4. CASE PgErrors(w) \/ TxFails(w) \/ CrashInTx(w)
  <2>1. ASSUME DeadlockDetected(w) PROVE Pc(w) # "idle"
    <3>1. PICK v \in Workers : MayWaitFor(v, w)
      BY <2>1 DEF DeadlockDetected
    <3>2. CASE WaitsFor(v, w)
      BY <3>2, HoldersInside
    <3>3. CASE \E f \in tx[v].orphans : Shares(w, f)
      BY <3>3 DEF Shares
    <3>4. QED
      BY <3>1, <3>2, <3>3 DEF MayWaitFor
  <2>2. Rollback(w) /\ Pc(w) # "idle"
    BY <1>0, <1>4, <2>1 DEF PgErrors, ForeignKeyFails, DeadlockDetected, TxFails,
       CrashInTx, At
  <2>3. QED
    BY <1>1, <2>2 DEF Rollback
<1>5. CASE CommitReplyLost(w)
  BY <1>0, <1>1, <1>5 DEF CommitReplyLost, TakesEffect, At
<1>6. CASE /\ Outside(w) \/ OutsideFails(w) \/ Crash(w)
           /\ tx' = tx /\ At(w, "none")
  <2>1. Work(w) \/ Fault(w)
    BY <1>6 DEF Outside, OutsideFails, Work, Fault
  <2>2. QED
    BY <1>0, <1>6, <2>1, StepNears DEF PgNears, Apart, At
<1>7. CASE Free(w) /\ Outside(w) /\ tx' = tx
  <2>1. Pc(w) \notin {"delete", "reconcile"}
    BY <1>7 DEF Outside, UpsertMessage, DeleteBlob, LinkFile, LinkFails, Skip, Fail,
       Get, Put, SetFileStored, Finish, UpsertFile
  <2>2. QED
    BY <1>0, <1>6, <1>7, <2>1
<1>8. QED
  BY <1>2, <1>3, <1>4, <1>5, <1>6, <1>7 DEF PgWork, Transaction, PgFault

\* Such a step leaves less of the job and its statements, and keeps what is
\* known of both.
LEMMA PgNearsLeaves ==
    ASSUME IsFiniteSet(Files), NEW j \in Job, NEW k \in Job, NEW t \in Tx, NEW u \in Tx,
           Counted(j), PgNears(j, k, t, u)
    PROVE  /\ Counted(k)
           /\ CallsLeft(k) + StatementsLeft(k, u) < CallsLeft(j) + StatementsLeft(j, t)
<1>1. CallsLeft(j) \in Nat /\ (Counted(k) => CallsLeft(k) \in Nat)
  <2>1. Longest \in Nat
    BY FS_CardinalityType DEF Longest
  <2>2. QED
    BY <2>1, LeftBounds
<1>2. t.pc \in {"none", "delete", "find", "remove", "check", "commit"}
  BY DEF Tx
<1>3. CASE Inside(j, k, t, u)
  <2>1. /\ StatementsLeft(j, t) \in Nat /\ StatementsLeft(j, u) \in Nat
        /\ StatementsLeft(j, u) < StatementsLeft(j, t)
    BY <1>3 DEF Inside, InOrder, StatementsLeft
  <2>2. QED
    BY <1>1, <1>3, <2>1 DEF Inside
<1>4. ASSUME Nears(j, k), StatementsLeft(k, u) \in Nat, StatementsLeft(j, t) \in Nat,
             StatementsLeft(k, u) <= StatementsLeft(j, t)
      PROVE  /\ Counted(k)
             /\ CallsLeft(k) + StatementsLeft(k, u) < CallsLeft(j) + StatementsLeft(j, t)
  <2>1. Counted(k) /\ CallsLeft(k) < CallsLeft(j)
    BY <1>4, NearsLeaves
  <2>2. QED
    BY <1>1, <1>4, <2>1
<1>5. StatementsLeft(j, t) \in Nat
  BY <1>2 DEF StatementsLeft
<1>6. CASE Closes(j, k, t, u)
  <2>1. k.pc \in {"idle", "next", "gc"} /\ Nears(j, k)
    BY <1>6 DEF Closes, Ends, Commits, Nears, Idle
  <2>2. StatementsLeft(k, u) = 0
    BY <2>1 DEF StatementsLeft
  <2>3. QED
    BY <1>4, <1>5, <2>1, <2>2
<1>7. CASE Apart(j, k, t, u)
  <2>1. CASE k.pc \in {"upsert", "delete", "reconcile"}
    <3>1. j.pc = "upsert" /\ k.pc = "reconcile"
      BY <1>7, <2>1 DEF Apart, Nears, Ends, Goes, Forward, Records, Commits,
         Collects, Begins, Idle
    <3>2. StatementsLeft(j, t) = 5 /\ StatementsLeft(k, u) = 5
      BY <1>7, <3>1 DEF Apart, StatementsLeft
    <3>3. QED
      BY <1>4, <1>7, <3>2 DEF Apart
  <2>2. CASE k.pc \notin {"upsert", "delete", "reconcile"}
    <3>1. StatementsLeft(k, u) = 0
      BY <2>2 DEF StatementsLeft
    <3>2. QED
      BY <1>4, <1>5, <1>7, <3>1 DEF Apart
  <2>3. QED
    BY <2>1, <2>2
<1>8. QED
  BY <1>3, <1>6, <1>7 DEF PgNears

\* Whatever the processes do, the lists are counted, and locks are held only
\* between a delete and its commit.
LEMMA PgCountStep ==
    ASSUME IsFiniteSet(Files), PgCountInv, [PgNext]_pgVars
    PROVE  PgCountInv'
<1> USE DEF PgCountInv
<1>0. /\ PgInv' /\ TypeInv' /\ job' \in [Workers -> Job] /\ tx' \in [Workers -> Tx]
      /\ job \in [Workers -> Job] /\ tx \in [Workers -> Tx]
  BY PgStep DEF PgInv, TypeInv, TypeOK
<1>1. ASSUME NEW w \in Workers, StartUpsert(w) \/ StartDelete(w), tx' = tx
      PROVE  PgCountInv'
  <2>1. Next
    BY <1>1 DEF Next
  <2>2. CountInv'
    BY <2>1, CountStep
  <2>3. QED
    BY <1>0, <1>1, <2>2 DEF TxHolds
<1>2. ASSUME NEW w \in Workers, PgWork(w) \/ PgErrors(w) \/ PgFault(w)
      PROVE  PgCountInv'
  <2>1. /\ PgNears(job[w], job'[w], tx[w], tx'[w])
        /\ \A v \in Workers : v # w => job'[v] = job[v] /\ tx'[v] = tx[v]
    BY <1>2, PgStepNears
  <2>2. Counted(job'[w])
    BY <1>0, <2>1, PgNearsLeaves DEF CountInv
  <2>3. \A v \in Workers : Counted(job'[v])
    BY <2>1, <2>2 DEF CountInv
  <2>4. CountInv'
    BY <1>0, <2>3 DEF CountInv, Counted
  <2>5. tx'[w].pc \in {"none", "delete"} => tx'[w].edges = {}
    <3>1. CASE Inside(job[w], job'[w], tx[w], tx'[w])
      BY <3>1 DEF Inside, InOrder
    <3>2. CASE tx'[w] = NoTx \/ tx'[w] = tx[w]
      BY <3>2 DEF NoTx, TxHolds
    <3>3. QED
      BY <2>1, <3>1, <3>2 DEF PgNears, Closes, Apart
  <2>6. TxHolds'
    BY <2>1, <2>5 DEF TxHolds
  <2>7. QED
    BY <1>0, <2>4, <2>6
<1>3. CASE UNCHANGED pgVars
  <2>1. UNCHANGED vars /\ tx' = tx
    BY <1>3 DEF pgVars, vars
  <2>2. CountInv'
    BY <2>1, CountStep
  <2>3. QED
    BY <1>0, <2>1, <2>2 DEF TxHolds
<1>4. QED
  BY <1>1, <1>2, <1>3 DEF PgNext

\* At first no transaction is open, and no call is counted.
LEMMA PgCountInit == PgInit => PgCountInv
<1> SUFFICES ASSUME PgInit PROVE PgCountInv
  OBVIOUS
<1>1. PgInv /\ CountInv
  BY PgInvInit, CountInit DEF PgInit
<1>2. TxHolds
  BY DEF PgInit, TxHolds, NoTx
<1>3. QED
  BY <1>1, <1>2 DEF PgCountInv

\* Over Postgres too every statement, failure and rollback takes from what is
\* left to its own job, and nothing from what is left to another's.
EveryStatementCounts ==
    [][\A w \in Workers : PgWork(w) \/ PgErrors(w) \/ PgFault(w) =>
         /\ PgStepsLeft(w)' < PgStepsLeft(w)
         /\ \A v \in Workers \ {w} : PgStepsLeft(v)' = PgStepsLeft(v)]_pgVars

\* What is left is bounded by 7n + 8 for n files.
PgEndInSight == \A w \in Workers : PgStepsLeft(w) \in 0..(Longest + 5)

\* However many processes write, a job of n files makes at most 7n + 8 calls
\* and statements: a rollback ends it, and is not tried again.
THEOREM PgJobsRunOut ==
    ASSUME IsFiniteSet(Files) PROVE PgSpec => []PgEndInSight /\ EveryStatementCounts
<1> DEFINE Counts == \A w \in Workers : PgWork(w) \/ PgErrors(w) \/ PgFault(w) =>
              /\ PgStepsLeft(w)' < PgStepsLeft(w)
              /\ \A v \in Workers \ {w} : PgStepsLeft(v)' = PgStepsLeft(v)
<1>1. PgInit => PgCountInv
  BY PgCountInit
<1>2. PgCountInv /\ [PgNext]_pgVars => PgCountInv'
  BY PgCountStep
<1>3. PgCountInv => PgEndInSight
  <2> SUFFICES ASSUME PgCountInv, NEW w \in Workers
               PROVE  PgStepsLeft(w) \in 0..(Longest + 5)
    BY DEF PgEndInSight
  <2>1. job[w] \in Job /\ Counted(job[w]) /\ tx[w] \in Tx
    BY DEF PgCountInv, PgInv, CountInv, TypeInv, TypeOK
  <2>2. Longest \in Nat
    BY FS_CardinalityType DEF Longest
  <2>3. StepsLeft(w) \in 0..Longest
    BY <2>1, LeftBounds DEF StepsLeft
  <2>4. StatementsLeft(job[w], tx[w]) \in 0..5
    BY <2>1 DEF StatementsLeft, Tx
  <2>5. QED
    BY <2>2, <2>3, <2>4 DEF PgStepsLeft
<1>4. ASSUME PgCountInv, [PgNext]_pgVars PROVE Counts
  <2> SUFFICES ASSUME NEW w \in Workers, PgWork(w) \/ PgErrors(w) \/ PgFault(w)
               PROVE  /\ PgStepsLeft(w)' < PgStepsLeft(w)
                      /\ \A v \in Workers \ {w} : PgStepsLeft(v)' = PgStepsLeft(v)
    OBVIOUS
  <2>1. /\ PgNears(job[w], job'[w], tx[w], tx'[w])
        /\ \A v \in Workers : v # w => job'[v] = job[v] /\ tx'[v] = tx[v]
    BY <1>4, PgStepNears DEF PgCountInv
  <2>2. /\ job[w] \in Job /\ job'[w] \in Job /\ Counted(job[w])
        /\ tx[w] \in Tx /\ tx'[w] \in Tx
    BY <1>4, PgStep DEF PgCountInv, PgInv, CountInv, TypeInv, TypeOK
  <2>3. CallsLeft(job'[w]) + StatementsLeft(job'[w], tx'[w])
          < CallsLeft(job[w]) + StatementsLeft(job[w], tx[w])
    BY <2>1, <2>2, PgNearsLeaves
  <2>4. \A v \in Workers : PgStepsLeft(v)' =
            CallsLeft(job'[v]) + StatementsLeft(job'[v], tx'[v])
    BY DEF PgStepsLeft, StatementsLeft, StepsLeft, CallsLeft, CallsAround, Pc
  <2>5. \A v \in Workers : PgStepsLeft(v) =
            CallsLeft(job[v]) + StatementsLeft(job[v], tx[v])
    BY DEF PgStepsLeft, StepsLeft
  <2>6. QED
    BY <2>1, <2>3, <2>4, <2>5
<1>5. PgCountInv /\ [PgNext]_pgVars => [Counts]_pgVars
  BY <1>4
<1> QED BY <1>1, <1>2, <1>3, <1>5, PTL DEF PgSpec, EveryStatementCounts
-----------------------------------------------------------------------------
(***************************************************************************)
(* That the processes never all stand still.  InCircle and CanGo are the   *)
(* guards of DeadlockDetected and of the other steps of PgWork and         *)
(* PgErrors, without what these change.                                    *)
(***************************************************************************)
InCircle(w) ==
    \E S \in SUBSET Workers : /\ w \in S /\ \E v \in S : MayWaitFor(v, w)
                              /\ \A v \in S : \E u \in S : MayWaitFor(v, u)

\* The references to the files that w deletes, and those of them that are
\* committed: without any the check succeeds, with one of the latter it fails.
Dangling(w)  == UNION {References(w, f) : f \in tx[w].files}
Committed(e) == \A v \in Workers : e \notin tx[v].edges

TxCanGo(w) ==
    \/ tx[w].pc \in {"none", "find", "commit"}
    \/ tx[w].pc \in {"delete", "remove"} /\ Free(w)
    \/ tx[w].pc = "check" /\ (Dangling(w) = {} \/ \E e \in Dangling(w) : Committed(e))

CanGo(w) ==
    IF Pc(w) \in {"delete", "reconcile"} THEN TxCanGo(w)
    ELSE /\ Free(w) /\ Pc(w) # "idle"
         /\ Pc(w) = "gc" => job[w].gc # {}
         /\ Pc(w) = "next" => job[w].todo = {} \/ \E f \in job[w].todo : Unlocked(w, f)

(* The check looks for the edges that it sees to lead to a deleted file.    *)
LEMMA CheckNeeds ==
    ASSUME PgInv, NEW w \in Workers, tx[w].pc = "check"
    PROVE  Needs(w) = [NoRows EXCEPT !.edges = Dangling(w)]
<1>1. Pc(w) \in {"delete", "reconcile"}
  BY DEF PgInv, TxJob, At
<1>2. QED
  BY <1>1, SMT DEF Needs, At, Dangling

\* A transaction that cannot go on waits for another one.
LEMMA StuckWaits ==
    ASSUME PgCountInv, NEW w \in Workers, ~TxCanGo(w)
    PROVE  \E v \in Workers : ~At(v, "none") /\ WaitsFor(w, v)
<1>1. /\ tx[w].pc \in {"none", "delete", "find", "remove", "check", "commit"}
      /\ PgInv /\ TxHolds
  BY DEF PgCountInv, PgInv, Tx
<1>2. ASSUME NEW v \in Workers, WaitsFor(w, v) PROVE ~At(v, "none")
  BY <1>1, <1>2, HoldersInside DEF At
<1>3. CASE tx[w].pc \in {"delete", "remove"}
  BY <1>2, <1>3 DEF TxCanGo, Free
<1>4. CASE tx[w].pc = "check"
  <2>1. PICK e \in Dangling(w) : ~Committed(e)
    BY <1>4 DEF TxCanGo
  <2>2. PICK v \in Workers : e \in tx[v].edges
    BY <2>1 DEF Committed
  <2>3. e \notin tx[w].edges
    BY <2>1 DEF Dangling, References
  <2>4. Needs(w) = [NoRows EXCEPT !.edges = Dangling(w)]
    BY <1>1, <1>4, CheckNeeds
  <2>5. Needs(w).edges = Dangling(w)
    BY <2>4 DEF NoRows
  <2>6. WaitsFor(w, v)
    BY <2>1, <2>2, <2>3, <2>5 DEF WaitsFor
  <2>7. QED
    BY <1>2, <2>6
<1>5. QED
  BY <1>1, <1>3, <1>4 DEF TxCanGo

\* As long as a process has a job, some process can take the next step of its
\* own, or the server finds a circle of waits and fails one of those in it.
GoesOn == (\E w \in Workers : Pc(w) # "idle") =>
              \E w \in Workers : Pc(w) # "idle" /\ (CanGo(w) \/ InCircle(w))

\* No interleaving of transactions and statements, and no failure, leaves jobs
\* that wait for nobody or for a process that is done.
THEOREM NeverStandsStill == ASSUME IsFiniteSet(Files) PROVE PgSpec => []GoesOn
<1>1. ASSUME PgCountInv PROVE GoesOn
  <2> SUFFICES ASSUME NEW w \in Workers, Pc(w) # "idle"
               PROVE  \E v \in Workers : Pc(v) # "idle" /\ (CanGo(v) \/ InCircle(v))
    BY DEF GoesOn
  <2> DEFINE Open == {v \in Workers : ~At(v, "none")}
  <2>0. PgInv /\ TxHolds /\ \A v \in Open : Pc(v) \in {"delete", "reconcile"}
    BY <1>1 DEF PgCountInv, PgInv, TxJob
  <2>1. CASE \E v \in Open : TxCanGo(v)
    BY <2>0, <2>1 DEF CanGo
  <2>2. CASE Open # {} /\ \A v \in Open : ~TxCanGo(v)
    <3>1. \A v \in Open : \E u \in Open : WaitsFor(v, u)
      BY <1>1, <2>2, StuckWaits
    <3>2. PICK v \in Open, u \in Open : WaitsFor(v, u)
      BY <2>2, <3>1
    <3>3. InCircle(u)
      BY <3>1, <3>2 DEF InCircle, MayWaitFor
    <3>4. QED
      BY <2>0, <3>3
  <2>3. CASE Open = {}
    <3>1. \A u, v \in Workers : ~WaitsFor(u, v)
      BY <2>0, <2>3, HoldersInside DEF At
    <3>2. Free(w) /\ At(w, "none")
      BY <2>3, <3>1 DEF Free
    <3>3. \A v \in Workers : tx[v].files = {}
      BY <2>0, <2>3 DEF PgInv, TxTakes, At
    <3>4. \A f : Unlocked(w, f)
      BY <3>3 DEF Unlocked
    <3>5. Pc(w) = "gc" => job[w].gc # {}
      BY <1>1 DEF PgCountInv, CountInv, Counted, Pc
    <3>6. CanGo(w)
      BY <3>2, <3>4, <3>5 DEF CanGo, TxCanGo, At
    <3>7. QED
      BY <3>6
  <2>4. QED
    BY <2>1, <2>2, <2>3
<1>2. QED
  BY <1>1, PgCountInit, PgCountStep, PTL DEF PgSpec
=============================================================================
