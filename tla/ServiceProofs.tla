--------------------------- MODULE ServiceProofs ---------------------------
(***************************************************************************)
(* What `serve` does with attachments, for any messages, attachments and   *)
(* faults: its file side implements FileMirror, its message side runs as   *)
(* EventPipeline, and the two agree.  Between turns a message has the      *)
(* attachments of the version in its row; once every delivery was handled, *)
(* rows, edges, file rows and objects are what Slack shows; and the loop   *)
(* gets through whatever it was sent.                                      *)
(***************************************************************************)
EXTENDS Service, DeliveryProofs

(* A step that leaves the message rows and the file side alone.            *)
LEMMA Stutters ==
    ASSUME UNCHANGED messages, UNCHANGED fileVars PROVE UNCHANGED F!vars
BY DEF fileVars, Rows, F!vars

\* Every step of serve is a step of a file job, or none of its business.
LEMMA StepMirrors == [ServiceNext]_serviceVars => [F!Next]_(F!vars)
<1> SUFFICES ASSUME [ServiceNext]_serviceVars PROVE F!Next \/ UNCHANGED F!vars
  OBVIOUS
<1>a. ASSUME \/ F!StartUpsert(Consumer) \/ F!StartDelete(Consumer)
             \/ F!Work(Consumer) \/ F!Fault(Consumer)
      PROVE  F!Next
  BY <1>a DEF F!Next
<1>1. CASE TakeEvent
  BY <1>1, <1>a, Stutters DEF TakeEvent, Take, store
<1>2. CASE Ensures
  <2>1. UNCHANGED messages
    BY <1>2 DEF Ensures, Step, Apply, EnsureChannel, EnsureUser, UpsertMessage,
                DeleteMessage, WriteChannel, WriteUser, store
  <2> QED BY <1>2, <2>1, Stutters DEF Ensures
<1>3. CASE Upserts
  BY <1>3, <1>a DEF Upserts, F!Work
<1>4. CASE Deletes
  BY <1>4, <1>a DEF Deletes, F!Work
<1>5. CASE Handles
  BY <1>5, <1>a DEF Handles
<1>6. CASE Returns
  BY <1>6, Stutters DEF Returns, Return, store
<1>7. CASE ApplyFails
  BY <1>7, <1>a DEF ApplyFails, F!Fault
<1>8. CASE HandleFails
  BY <1>8, <1>a DEF HandleFails, F!Fault
<1>9. CASE TransferFails
  BY <1>9, <1>a DEF TransferFails, F!Fault
<1>10. CASE Ends
  BY <1>10, <1>a, Stutters DEF Ends, Exit, store, F!Fault
<1>11. CASE Outside
  BY <1>11, Stutters DEF Outside, Deliver, PublishWrite, PublishRemove, Publish,
                         Redeliver, Sigterm, Restart, store
<1>12. CASE UNCHANGED serviceVars
  BY <1>12, Stutters DEF serviceVars, vars, fileVars
<1> QED BY <1>1, <1>2, <1>3, <1>4, <1>5, <1>6, <1>7, <1>8, <1>9, <1>10, <1>11,
           <1>12 DEF ServiceNext, Goes

\* Every turn of the loop, with its acknowledgements, failures, restarts and
\* shutdown, does to files only what a job of FileMirror may do.
THEOREM ServeMirrorsFiles == ServiceSpec => FilesAreMirrored
<1>1. ServiceInit => F!Init
  BY DEF ServiceInit
<1>2. [ServiceNext]_serviceVars => [F!Next]_(F!vars)
  BY StepMirrors
<1> QED BY <1>1, <1>2, PTL DEF ServiceSpec, FilesAreMirrored, F!Spec
-----------------------------------------------------------------------------
(***************************************************************************)
(* Attachments.  The invariant joins both halves of a turn: where the call *)
(* stands and where its file job does (Paired), what the job was asked for *)
(* (Asked), how far it is with the edges of its message (Halfway), and     *)
(* that all other messages have theirs (Agree).                            *)
(***************************************************************************)
AtFile == {"link", "skip", "get", "copy", "store", "failed"}

Typed == /\ job \in [{Consumer} -> F!Job]
         /\ files \in [Files -> F!FileRow]
         /\ edges \subseteq Messages \X Files

Asked ==
    /\ Turn.todo \subseteq Turn.refs
    /\ Turn.pc # "idle" => Turn.msg \in Messages /\ Turn.kind \in {"upsert", "delete"}
    /\ Turn.pc = "delete" => Turn.kind = "delete"
    /\ Turn.pc \in {"upsert", "reconcile"} \cup AtFile => Turn.kind = "upsert"
    /\ Turn.kind = "delete" => Turn.refs = {}
    /\ Turn.pc \in {"upsert", "reconcile", "gc"} => Turn.todo = Turn.refs
    /\ Turn.pc \in AtFile => Turn.cur \in Turn.todo

Paired ==
    LET c == call[Consumer]
    IN  /\ c.pc \in {"idle", "error"} => Turn.pc = "idle"
        /\ c.pc \in {"channel", "user", "upsert"} =>
              /\ Turn.pc = "upsert"
              /\ Turn.msg = c.act.ts
              /\ Turn.refs = AttachOf[c.act.ts][c.act.version]
        /\ c.pc = "delete" => Turn.pc = "delete" /\ Turn.msg = c.act.ts
        /\ c.pc = "done" => Turn.pc \notin {"upsert", "delete"}

\* The row is written, and its attachments are on their way.
Upserting == Turn.kind = "upsert" /\ Turn.pc \notin {"idle", "upsert"}

Halfway ==
    /\ Upserting => /\ messages[Turn.msg] # 0
                    /\ Turn.refs = AttachOf[Turn.msg][messages[Turn.msg]]
    /\ Upserting /\ Turn.pc # "reconcile" =>
          /\ Turn.refs \ Turn.todo \subseteq Attached(Turn.msg)
          /\ Attached(Turn.msg) \subseteq Turn.refs
    /\ Turn.pc = "link" => F!HasRow(Turn.cur)
    /\ Turn.pc \in AtFile \ {"link"} => Turn.cur \in Attached(Turn.msg)
    /\ Turn.kind = "delete" /\ Turn.pc \in {"gc", "next"} => Turn.msg \notin unfinished

Agree == \A m \in Messages \ unfinished :
    \/ Attached(m) = AttachedIn(m, messages[m])
    \/ Upserting /\ m = Turn.msg

ServeInv == Typed /\ Asked /\ Paired /\ Halfway /\ Agree
-----------------------------------------------------------------------------
(* What the steps of a job do to its record.                               *)
LEMMA GotoFields ==
    ASSUME Typed, NEW pc \in {"reconcile", "skip", "get", "copy", "store", "failed"},
           F!Goto(Consumer, pc)
    PROVE  /\ job' \in [{Consumer} -> F!Job]
           /\ Turn'.pc = pc /\ Turn'.cur = Turn.cur /\ Turn'.gc = Turn.gc
           /\ Turn'.todo = Turn.todo /\ Turn'.refs = Turn.refs
           /\ Turn'.kind = Turn.kind /\ Turn'.msg = Turn.msg
<1>1. Turn \in F!Job /\ Turn' = [Turn EXCEPT !.pc = pc]
  BY DEF F!Goto, Turn, Typed
<1>2. job' = [job EXCEPT ![Consumer] = [Turn EXCEPT !.pc = pc]]
  BY DEF F!Goto, Turn
<1>3. [Turn EXCEPT !.pc = pc] \in F!Job
  BY <1>1 DEF F!Job
<1>4. job' \in [{Consumer} -> F!Job]
  BY <1>2, <1>3 DEF Typed
<1> QED BY <1>1, <1>4 DEF F!Job

\* What recording an attachment as settled does to them.
LEMMA DoneFields ==
    ASSUME Typed, NEW ok \in BOOLEAN, F!Done(Consumer, ok)
    PROVE  /\ job' \in [{Consumer} -> F!Job]
           /\ Turn'.pc = "next" /\ Turn'.gc = Turn.gc
           /\ Turn'.todo = Turn.todo \ {Turn.cur} /\ Turn'.refs = Turn.refs
           /\ Turn'.kind = Turn.kind /\ Turn'.msg = Turn.msg
<1> DEFINE j == [Turn EXCEPT !.pc = "next", !.cur = None,
                             !.todo = @ \ {Turn.cur}, !.clean = @ /\ ok]
<1>1. Turn \in F!Job /\ job' = [job EXCEPT ![Consumer] = j]
  BY DEF F!Done, F!Cur, Turn, Typed
<1>2. j \in F!Job
  BY <1>1 DEF F!Job
<1>3. job' \in [{Consumer} -> F!Job] /\ Turn' = j
  BY <1>1, <1>2 DEF Typed, Turn
<1> QED BY <1>1, <1>3 DEF F!Job

\* What returning does to them.
LEMMA StopFields ==
    ASSUME Typed, F!Stop(Consumer)
    PROVE  job' \in [{Consumer} -> F!Job] /\ Turn' = F!Idle
<1>1. F!Idle \in F!Job
  BY DEF F!Idle, F!Job
<1> QED BY <1>1 DEF F!Stop, Turn, Typed

\* What the delete of one orphaned object does.
LEMMA DeleteBlobFields ==
    ASSUME Typed, F!DeleteBlob(Consumer)
    PROVE  /\ job' \in [{Consumer} -> F!Job] /\ Turn.pc = "gc"
           /\ \E f \in Turn.gc : /\ blobs' = [blobs EXCEPT ![f] = "none"]
                                /\ Turn'.gc = Turn.gc \ {f}
                                /\ Turn'.pc = IF Turn.gc = {f} THEN "next" ELSE "gc"
           /\ Turn'.todo = Turn.todo /\ Turn'.refs = Turn.refs
           /\ Turn'.kind = Turn.kind /\ Turn'.msg = Turn.msg
<1>1. Turn.pc = "gc"
  BY DEF F!DeleteBlob, F!Pc, Turn
<1>2. PICK f \in Turn.gc :
          /\ blobs' = [blobs EXCEPT ![f] = "none"]
          /\ job' = [job EXCEPT ![Consumer].gc = @ \ {f},
                                ![Consumer].pc = IF Turn.gc = {f} THEN "next" ELSE @]
  BY DEF F!DeleteBlob, Turn
<1> DEFINE left == Turn.gc \ {f}
           pc == IF Turn.gc = {f} THEN "next" ELSE Turn.pc
           j == [Turn EXCEPT !.gc = left, !.pc = pc]
<1>3. Turn \in F!Job /\ job' = [job EXCEPT ![Consumer] = j]
  BY <1>2 DEF Typed, Turn
<1>4. pc = (IF Turn.gc = {f} THEN "next" ELSE "gc") /\ left \in SUBSET Files
  BY <1>1, <1>3 DEF F!Job
<1> HIDE DEF left, pc
<1>5. j \in F!Job
  BY <1>3, <1>4 DEF F!Job
<1>6. job' \in [{Consumer} -> F!Job] /\ Turn' = j
  BY <1>3, <1>5 DEF Typed, Turn
<1>7. /\ Turn'.gc = left /\ Turn'.pc = pc
      /\ Turn'.todo = Turn.todo /\ Turn'.refs = Turn.refs
      /\ Turn'.kind = Turn.kind /\ Turn'.msg = Turn.msg
  BY <1>3, <1>6 DEF F!Job
<1> QED BY <1>1, <1>2, <1>4, <1>6, <1>7 DEF left

\* What the row for the next attachment does.
LEMMA UpsertFileFields ==
    ASSUME Typed, F!UpsertFile(Consumer)
    PROVE  /\ job' \in [{Consumer} -> F!Job]
           /\ Turn.pc = "next" /\ UNCHANGED <<edges, blobs>>
           /\ Turn'.pc = "link" /\ Turn'.cur \in Turn.todo /\ Turn'.cur \in Files
           /\ files' = F!Recorded(Turn'.cur)
           /\ Turn'.todo = Turn.todo /\ Turn'.refs = Turn.refs
           /\ Turn'.kind = Turn.kind /\ Turn'.msg = Turn.msg
<1>1. Turn.pc = "next" /\ UNCHANGED <<edges, blobs>>
  BY DEF F!UpsertFile, F!Pc, Turn
<1>2. PICK f \in Turn.todo :
          /\ files' = F!Recorded(f)
          /\ job' = [job EXCEPT ![Consumer].pc = "link", ![Consumer].cur = f]
  BY DEF F!UpsertFile, Turn
<1> DEFINE j == [Turn EXCEPT !.pc = "link", !.cur = f]
<1>3. Turn \in F!Job /\ job' = [job EXCEPT ![Consumer] = j]
  BY <1>2 DEF Typed, Turn
<1>4. f \in Files
  BY <1>2, <1>3 DEF F!Job
<1>5. j \in F!Job
  BY <1>3, <1>4 DEF F!Job
<1>6. job' \in [{Consumer} -> F!Job] /\ Turn' = j
  BY <1>3, <1>5 DEF Typed, Turn
<1>7. /\ Turn'.pc = "link" /\ Turn'.cur = f
      /\ Turn'.todo = Turn.todo /\ Turn'.refs = Turn.refs
      /\ Turn'.kind = Turn.kind /\ Turn'.msg = Turn.msg
  BY <1>3, <1>6 DEF F!Job
<1> QED BY <1>1, <1>2, <1>4, <1>6, <1>7

\* The end of a transaction: it takes the edges that the message does not keep.
LEMMA GcFields ==
    ASSUME Typed, NEW keep,
           F!gcOrphans(Consumer, {e[2] : e \in F!Gone(Consumer, keep)},
                       edges \ F!Gone(Consumer, keep))
    PROVE  /\ Typed'
           /\ Turn'.pc \in {"next", "gc"}
           /\ \A f \in F!Orphans({e[2] : e \in F!Gone(Consumer, keep)},
                                 edges \ F!Gone(Consumer, keep)) :
                 files[f].uri => Turn'.pc = "gc" /\ f \in Turn'.gc
           /\ Turn'.todo = Turn.todo /\ Turn'.refs = Turn.refs
           /\ Turn'.kind = Turn.kind /\ Turn'.msg = Turn.msg
<1> DEFINE taken == F!Gone(Consumer, keep)
           cands == {e[2] : e \in taken}
           uris == {f \in F!Orphans(cands, edges \ taken) : files[f].uri}
           pc == IF uris = {} THEN "next" ELSE "gc"
           j == [Turn EXCEPT !.pc = pc, !.gc = uris]
<1>1. taken \subseteq edges
  BY DEF F!Gone
<1>2. cands \in SUBSET Files /\ uris \in SUBSET Files
  <2>1. \A e \in taken : e[2] \in Files
    BY <1>1 DEF Typed
  <2> QED BY <2>1 DEF F!Orphans
<1>3. /\ job' = [job EXCEPT ![Consumer].pc = pc, ![Consumer].gc = uris]
      /\ edges' = edges \ taken
      /\ files' = [f \in Files |-> IF f \in F!Orphans(cands, edges \ taken)
                                   THEN F!NoRow ELSE files[f]]
  BY DEF F!gcOrphans, F!Collect
<1>8. \A f \in F!Orphans(cands, edges \ taken) : files[f].uri => f \in uris
  OBVIOUS
<1> HIDE DEF taken, cands, uris
<1>4. Turn \in F!Job /\ job' = [job EXCEPT ![Consumer] = j]
  BY <1>3 DEF Typed, Turn
<1>5. j \in F!Job
  BY <1>2, <1>4 DEF F!Job
<1>6. job' \in [{Consumer} -> F!Job] /\ Turn' = j
  BY <1>4, <1>5 DEF Typed, Turn
<1>7. files' \in [Files -> F!FileRow] /\ edges' \subseteq Messages \X Files
  BY <1>1, <1>3 DEF Typed, F!NoRow, F!FileRow
<1>9. /\ Turn'.gc = uris /\ Turn'.pc = pc
      /\ Turn'.todo = Turn.todo /\ Turn'.refs = Turn.refs
      /\ Turn'.kind = Turn.kind /\ Turn'.msg = Turn.msg
  BY <1>4, <1>6 DEF F!Job
<1>10. \A f \in F!Orphans(cands, edges \ taken) :
           files[f].uri => Turn'.pc = "gc" /\ f \in Turn'.gc
  BY <1>8, <1>9
<1>11. Typed'
  BY <1>6, <1>7 DEF Typed
<1>12. \A f \in F!Orphans({e[2] : e \in F!Gone(Consumer, keep)},
                           edges \ F!Gone(Consumer, keep)) :
           files[f].uri => Turn'.pc = "gc" /\ f \in Turn'.gc
  BY <1>10 DEF cands, taken
<1> QED BY <1>9, <1>11, <1>12

\* Of the edges of other messages it takes none.
LEMMA GoneEdges ==
    ASSUME NEW keep, edges' = edges \ F!Gone(Consumer, keep)
    PROVE  /\ \A m \in Messages : m # Turn.msg => Attached(m)' = Attached(m)
           /\ \A m \in Messages : m = Turn.msg =>
                  Attached(m)' = {f \in Attached(m) : f \in keep}
<1>1. ASSUME NEW m \in Messages, NEW f
      PROVE  <<m, f>> \in F!Gone(Consumer, keep) <=>
                 <<m, f>> \in edges /\ m = Turn.msg /\ f \notin keep
  BY DEF F!Gone, Turn
<1>2. ASSUME NEW m \in Messages, m # Turn.msg PROVE Attached(m)' = Attached(m)
  BY <1>1, <1>2 DEF Attached
<1>3. ASSUME NEW m \in Messages, m = Turn.msg
      PROVE  Attached(m)' = {f \in Attached(m) : f \in keep}
  BY <1>1, <1>3 DEF Attached
<1> QED BY <1>2, <1>3

\* A step that concerns one message leaves the others in agreement.
LEMMA OthersAgree ==
    ASSUME Agree, NEW k, unfinished \subseteq unfinished' \cup {k},
           Upserting => Turn.msg = k,
           \A m \in Messages : m # k =>
               messages'[m] = messages[m] /\ Attached(m)' = Attached(m),
           k \in Messages =>
               \/ k \in unfinished'
               \/ Attached(k)' = AttachedIn(k, messages'[k])
               \/ Upserting' /\ Turn'.msg = k
    PROVE  Agree'
<1> SUFFICES ASSUME NEW m \in Messages, m \notin unfinished'
             PROVE  \/ Attached(m)' = AttachedIn(m, messages'[m])
                    \/ Upserting' /\ m = Turn'.msg
  BY DEF Agree, AttachedIn
<1>1. CASE m = k
  BY <1>1
<1>2. CASE m # k
  <2>1. Attached(m) = AttachedIn(m, messages[m])
    BY <1>2 DEF Agree
  <2> QED BY <1>2, <2>1 DEF AttachedIn
<1> QED BY <1>1, <1>2

\* When a turn's job is over, all that is left to show is agreement.
LEMMA StoppedKeeps ==
    ASSUME ServeInv, F!Stop(Consumer), call'[Consumer].pc \in {"idle", "error", "done"},
           files' \in [Files -> F!FileRow], edges' \subseteq Messages \X Files, Agree'
    PROVE  ServeInv'
<1>1. job' \in [{Consumer} -> F!Job] /\ Turn' = F!Idle
  BY StopFields DEF ServeInv
<1>2. /\ Turn'.pc = "idle" /\ Turn'.kind = "none"
      /\ Turn'.todo = {} /\ Turn'.refs = {}
  BY <1>1 DEF F!Idle
<1>3. Typed' /\ Asked' /\ Paired' /\ Halfway'
  BY <1>1, <1>2 DEF Typed, Asked, Paired, Halfway, Upserting, AtFile
<1> QED BY <1>3 DEF ServeInv

\* A call of Handle that leaves the edges alone and goes on.
LEMMA HandlingKeeps ==
    ASSUME ServeInv, Typed', Asked', call[Consumer].pc = "done",
           UNCHANGED <<messages, call, edges, unfinished>>,
           Turn'.msg = Turn.msg, Turn'.kind = Turn.kind, Turn'.refs = Turn.refs,
           Turn.pc \in {"gc", "next"} \cup AtFile,
           Turn'.pc \in {"gc", "next"} \cup AtFile,
           Turn.refs \ Turn'.todo \subseteq (Turn.refs \ Turn.todo) \cup Attached(Turn.msg),
           Turn'.pc = "link" => files'[Turn'.cur].state # "absent",
           Turn'.pc \in AtFile \ {"link"} => Turn'.cur \in Attached(Turn.msg)
    PROVE  ServeInv'
<1>1. Upserting' <=> Upserting
  BY DEF Upserting, AtFile
<1>2. \A m : Attached(m)' = Attached(m)
  BY DEF Attached
<1>3. Paired'
  BY DEF ServeInv, Paired, AtFile
<1>4. Turn.pc # "reconcile" /\ Turn'.pc # "reconcile"
  BY DEF AtFile
<1>5. Turn.kind = "delete" => Turn.pc \in {"gc", "next"}
  BY DEF ServeInv, Asked
<1>6. Attached(Turn.msg)' = Attached(Turn.msg)
  BY DEF Attached
<1>7. Halfway'
  BY <1>1, <1>4, <1>5, <1>6 DEF ServeInv, Halfway, F!HasRow
<1>8. Agree'
  BY <1>1, <1>2 DEF ServeInv, Agree, AttachedIn
<1> QED BY <1>3, <1>7, <1>8 DEF ServeInv

\* A step that does not touch rows or files, in whatever state the call is left.
LEMMA SideStays ==
    ASSUME ServeInv, UNCHANGED messages, UNCHANGED fileVars, UNCHANGED unfinished, Paired'
    PROVE  ServeInv'
<1>1. Turn' = Turn /\ \A m : Attached(m)' = Attached(m)
  BY DEF Turn, Attached, fileVars
<1>2. Typed' /\ Asked'
  BY <1>1 DEF ServeInv, Typed, Asked, fileVars
<1>3. Upserting' <=> Upserting
  BY <1>1 DEF Upserting
<1>4. Halfway'
  BY <1>1, <1>3 DEF ServeInv, Halfway, F!HasRow, fileVars
<1>5. Agree'
  BY <1>1, <1>3 DEF ServeInv, Agree, AttachedIn
<1> QED BY <1>2, <1>4, <1>5 DEF ServeInv

\* What is cut short in the midst of its attachments is known to be unfinished.
LEMMA CutAgrees ==
    ASSUME ServeInv, Cut, UNCHANGED messages, Upserting \/ UNCHANGED edges,
           \A m \in Messages : m # Turn.msg => Attached(m)' = Attached(m)
    PROVE  Agree'
<1>1. CASE Upserting
  <2>1. unfinished' = unfinished \cup {Turn.msg}
    BY <1>1 DEF Cut, Upserting
  <2> QED BY <1>1, <2>1, OthersAgree DEF ServeInv
<1>2. CASE ~Upserting /\ UNCHANGED edges
  <2>1. unfinished \subseteq unfinished'
    BY DEF Cut
  <2>2. \A m \in Messages \ unfinished' : Attached(m)' = AttachedIn(m, messages'[m])
    BY <1>2, <2>1 DEF ServeInv, Agree, Attached
  <2> QED BY <2>2 DEF Agree, AttachedIn
<1> QED BY <1>1, <1>2

\* Collecting leaves tables of their types.
LEMMA CollectFields ==
    ASSUME Typed, NEW cands, NEW left, left \subseteq edges, F!Collect(cands, left)
    PROVE  files' \in [Files -> F!FileRow] /\ edges' \subseteq Messages \X Files
BY DEF F!Collect, Typed, F!NoRow, F!FileRow
-----------------------------------------------------------------------------
(* The loop's turns are those of EventPipeline.                            *)
LEMMA ServePipes == [ServiceNext]_serviceVars => [Next]_vars
BY DEF ServiceNext, serviceVars, Goes, TakeEvent, Ensures, Upserts, Deletes, Handles,
       Returns, ApplyFails, HandleFails, TransferFails, Ends, Outside, Next, Loop, vars

\* An event is taken: the job is asked for what the action says.
LEMMA TakeServes ==
    ASSUME PipeInv, ServeInv, TakeEvent PROVE ServeInv'
<1> DEFINE act == call'[Consumer].act
<1>1. /\ call[Consumer].pc = "idle"
      /\ UNCHANGED messages /\ UNCHANGED unfinished
      /\ \E a : call'[Consumer] = [pc |-> FirstStep(a.kind), act |-> a]
  BY PipelineAssumption DEF TakeEvent, Take, Begin, store, PipeInv, TypeInv
<1>2. Turn.pc = "idle" /\ call'[Consumer].pc = FirstStep(act.kind)
  BY <1>1 DEF ServeInv, Paired
<1>3. CASE act.kind = "skip" /\ UNCHANGED fileVars
  <2>1. call'[Consumer].pc = "done" /\ Turn'.pc = "idle"
    BY <1>2, <1>3 DEF FirstStep, fileVars, Turn
  <2> QED BY <1>1, <1>3, <2>1, SideStays DEF Paired
<1>4. ASSUME UNCHANGED <<files, edges, blobs>>, job' \in [{Consumer} -> F!Job],
             Turn'.pc \in {"upsert", "delete"}, Asked', Paired'
      PROVE  ServeInv'
  <2>1. ~Upserting /\ ~Upserting'
    BY <1>2, <1>4 DEF Upserting, ServeInv, Asked
  <2>2. \A m : Attached(m)' = Attached(m)
    BY <1>4 DEF Attached
  <2>3. Agree'
    BY <1>1, <2>1, <2>2 DEF ServeInv, Agree, AttachedIn
  <2>4. Typed' /\ Halfway'
    BY <1>4, <2>1 DEF ServeInv, Typed, Halfway, AtFile
  <2> QED BY <1>4, <2>3, <2>4 DEF ServeInv
<1>5. CASE /\ act.kind = "upsert"
           /\ F!StartUpsert(Consumer)
           /\ Turn'.msg = act.ts
           /\ Turn'.refs = AttachOf[act.ts][act.version]
  <2>1. PICK m \in Messages, refs \in SUBSET Files, fl \in SUBSET Files :
            job' = [job EXCEPT ![Consumer] = [F!Idle EXCEPT !.pc = "upsert",
                     !.kind = "upsert", !.msg = m, !.refs = refs,
                     !.filtered = fl, !.todo = refs]]
    BY <1>5 DEF F!StartUpsert
  <2>2. Turn' = [F!Idle EXCEPT !.pc = "upsert", !.kind = "upsert", !.msg = m,
                               !.refs = refs, !.filtered = fl, !.todo = refs]
    BY <2>1 DEF Turn, ServeInv, Typed
  <2>3. Turn' \in F!Job
    BY <2>2 DEF F!Idle, F!Job
  <2>4. job' \in [{Consumer} -> F!Job]
    BY <2>1, <2>2, <2>3 DEF ServeInv, Typed
  <2>5. /\ Turn'.pc = "upsert" /\ Turn'.kind = "upsert"
        /\ Turn'.todo = Turn'.refs /\ Turn'.msg \in Messages
    BY <2>2 DEF F!Idle
  <2>6. call'[Consumer].pc = "channel"
    BY <1>2, <1>5 DEF FirstStep
  <2>7. Asked' /\ Paired'
    BY <1>5, <2>5, <2>6 DEF Asked, Paired, AtFile
  <2> QED BY <1>4, <1>5, <2>4, <2>5, <2>7 DEF F!StartUpsert
<1>6. CASE act.kind = "delete" /\ F!StartDelete(Consumer) /\ Turn'.msg = act.ts
  <2>1. PICK m \in Messages :
            job' = [job EXCEPT ![Consumer] = [F!Idle EXCEPT !.pc = "delete",
                     !.kind = "delete", !.msg = m]]
    BY <1>6 DEF F!StartDelete
  <2>2. Turn' = [F!Idle EXCEPT !.pc = "delete", !.kind = "delete", !.msg = m]
    BY <2>1 DEF Turn, ServeInv, Typed
  <2>3. Turn' \in F!Job
    BY <2>2 DEF F!Idle, F!Job
  <2>4. job' \in [{Consumer} -> F!Job]
    BY <2>1, <2>2, <2>3 DEF ServeInv, Typed
  <2>5. /\ Turn'.pc = "delete" /\ Turn'.kind = "delete"
        /\ Turn'.todo = {} /\ Turn'.refs = {} /\ Turn'.msg \in Messages
    BY <2>2 DEF F!Idle
  <2>6. call'[Consumer].pc = "delete"
    BY <1>2, <1>6 DEF FirstStep
  <2>7. Asked' /\ Paired'
    BY <1>6, <2>5, <2>6 DEF Asked, Paired, AtFile
  <2> QED BY <1>4, <1>6, <2>4, <2>5, <2>7 DEF F!StartDelete
<1> QED BY <1>3, <1>5, <1>6 DEF TakeEvent

\* Channel and user are ensured while the job waits.
LEMMA EnsuresServes ==
    ASSUME PipeInv, ServeInv, Ensures PROVE ServeInv'
<1>1. /\ call[Consumer].pc \in {"channel", "user"}
      /\ Apply(Consumer)
      /\ UNCHANGED fileVars /\ UNCHANGED unfinished
  BY DEF Ensures, Step
<1>2. /\ UNCHANGED messages
      /\ call'[Consumer].act = call[Consumer].act
      /\ call'[Consumer].pc \in {"user", "upsert"}
  BY <1>1, ApplyActs, PipelineAssumption
<1>3. Turn' = Turn
  BY <1>1 DEF Turn, fileVars
<1>4. Paired'
  BY <1>1, <1>2, <1>3 DEF ServeInv, Paired
<1> QED BY <1>1, <1>2, <1>4, SideStays

\* The row is written: its attachments are next.
LEMMA UpsertsServes ==
    ASSUME PipeInv, ServeInv, Upserts PROVE ServeInv'
<1>1. /\ call[Consumer].pc = "upsert"
      /\ Apply(Consumer)
      /\ F!Goto(Consumer, "reconcile")
      /\ UNCHANGED <<files, edges, blobs>> /\ UNCHANGED unfinished
  BY DEF Upserts, Step, F!UpsertMessage
<1> DEFINE act == call[Consumer].act
<1>2. act.ts \in Messages /\ act.version \in 1..MaxVersion
  <2>1. CallOK(call[Consumer])
    BY PipelineAssumption DEF PipeInv, Genuine
  <2> QED BY <1>1, <2>1, UpsertCall DEF Admitted
<1>3. /\ call'[Consumer].pc = "done"
      /\ messages' = [messages EXCEPT ![act.ts] = act.version]
  BY <1>1, ApplyActs, PipelineAssumption DEF Msg
<1>4. /\ Turn.pc = "upsert" /\ Turn.kind = "upsert" /\ Turn.todo = Turn.refs
      /\ Turn.msg = act.ts /\ Turn.refs = AttachOf[act.ts][act.version]
  BY <1>1 DEF ServeInv, Paired, Asked
<1>5. /\ job' \in [{Consumer} -> F!Job]
      /\ Turn'.pc = "reconcile" /\ Turn'.todo = Turn.todo /\ Turn'.refs = Turn.refs
      /\ Turn'.kind = Turn.kind /\ Turn'.msg = Turn.msg
  BY <1>1, GotoFields DEF ServeInv
<1>6. Typed' /\ Asked' /\ Paired'
  BY <1>1, <1>2, <1>3, <1>4, <1>5 DEF ServeInv, Typed, Asked, Paired, AtFile
<1>7. messages'[act.ts] = act.version /\ messages'[act.ts] # 0
      /\ \A m \in Messages : m # act.ts => messages'[m] = messages[m]
  BY <1>2, <1>3, SlackAssumption DEF PipeInv, TypeInv
<1>8. ~Upserting /\ Upserting'
  BY <1>4, <1>5 DEF Upserting
<1>9. Halfway'
  BY <1>4, <1>5, <1>7, <1>8 DEF Halfway, AtFile
<1>10. \A m : Attached(m)' = Attached(m)
  BY <1>1 DEF Attached
<1>11. Agree'
  BY <1>1, <1>4, <1>5, <1>7, <1>8, <1>10, OthersAgree DEF ServeInv
<1> QED BY <1>6, <1>9, <1>11 DEF ServeInv

\* The row goes, its edges with it, and it counts as finished.
LEMMA DeletesServes ==
    ASSUME PipeInv, ServeInv, Deletes PROVE ServeInv'
<1>1. /\ call[Consumer].pc = "delete"
      /\ DeleteMessage(Consumer)
      /\ F!gcOrphans(Consumer, {e[2] : e \in F!Gone(Consumer, {})},
                     edges \ F!Gone(Consumer, {}))
      /\ unfinished' = unfinished \ {Turn.msg}
  BY DEF Deletes, Step, Apply, EnsureChannel, EnsureUser, UpsertMessage, F!DeleteMessage
<1>2. /\ Turn.pc = "delete" /\ Turn.kind = "delete" /\ Turn.refs = {} /\ Turn.todo = {}
      /\ Turn.msg = Msg(Consumer) /\ Turn.msg \in Messages
  BY <1>1 DEF ServeInv, Paired, Asked, Msg
<1>3. call'[Consumer].pc = "done"
  <2>1. CallOK(call[Consumer]) /\ DOMAIN call = Processes
    BY PipelineAssumption DEF PipeInv, Genuine, TypeInv
  <2>2. PICK m \in gone : call[Consumer] = [pc |-> "delete", act |-> ActionDelete(m)]
    BY <1>1, <2>1, DeleteCall
  <2> QED BY <1>1, <2>1, <2>2, PipelineAssumption DEF DeleteMessage, Goto
<1>4. /\ messages'[Turn.msg] = 0
      /\ \A m \in Messages : m # Turn.msg => messages'[m] = messages[m]
  BY <1>1, <1>2 DEF DeleteMessage, WriteMessage, PipeInv, TypeInv
<1>5. /\ Typed'
      /\ Turn'.pc \in {"next", "gc"}
      /\ Turn'.todo = {} /\ Turn'.refs = {}
      /\ Turn'.kind = "delete" /\ Turn'.msg = Turn.msg
  BY <1>1, <1>2, GcFields DEF ServeInv
<1>6. Asked' /\ Paired'
  BY <1>2, <1>3, <1>5 DEF Asked, Paired, AtFile
<1>7. ~Upserting /\ ~Upserting'
  BY <1>2, <1>5 DEF Upserting
<1>8. Halfway'
  BY <1>1, <1>5, <1>7 DEF Halfway, AtFile
<1>9. /\ \A m \in Messages : m # Turn.msg => Attached(m)' = Attached(m)
      /\ Attached(Turn.msg)' = {}
  <2>1. edges' = edges \ F!Gone(Consumer, {})
    BY <1>1 DEF F!gcOrphans, F!Collect
  <2>2. \A m \in Messages : m = Turn.msg => Attached(m)' = {}
    BY <2>1, GoneEdges
  <2>3. Attached(Turn.msg)' = {f \in Files : <<Turn.msg, f>> \in edges'}
    BY <1>5 DEF Attached
  <2> QED BY <1>2, <1>5, <2>1, <2>2, <2>3, GoneEdges DEF Attached
<1>10. \A m : m = Turn.msg => Attached(m)' = AttachedIn(m, messages'[m])
  BY <1>4, <1>5, <1>9 DEF Attached, AttachedIn
<1>11. Agree'
  BY <1>1, <1>4, <1>7, <1>9, <1>10, OthersAgree DEF ServeInv
<1> QED BY <1>5, <1>6, <1>8, <1>11 DEF ServeInv
-----------------------------------------------------------------------------
(* A call of Handle, one lemma for each kind.                              *)
LEMMA ReconcileServes ==
    ASSUME ServeInv, call[Consumer].pc = "done", UNCHANGED vars, UNCHANGED unfinished,
           F!ReconcileMessageFiles(Consumer)
    PROVE  ServeInv'
<1>1. /\ Turn.pc = "reconcile"
      /\ F!gcOrphans(Consumer, {e[2] : e \in F!Gone(Consumer, Turn.refs)},
                     edges \ F!Gone(Consumer, Turn.refs))
  BY DEF F!ReconcileMessageFiles, F!Pc, Turn
<1>2. Turn.kind = "upsert" /\ Turn.todo = Turn.refs /\ Turn.msg \in Messages
  BY <1>1 DEF ServeInv, Asked
<1>3. /\ Typed'
      /\ Turn'.pc \in {"next", "gc"}
      /\ Turn'.todo = Turn.todo /\ Turn'.refs = Turn.refs
      /\ Turn'.kind = Turn.kind /\ Turn'.msg = Turn.msg
  BY <1>1, GcFields DEF ServeInv
<1>4. messages' = messages /\ call' = call
  BY DEF vars
<1>5. Asked' /\ Paired'
  BY <1>2, <1>3, <1>4 DEF Asked, Paired, AtFile
<1>6. Upserting /\ Upserting'
  BY <1>1, <1>2, <1>3 DEF Upserting
<1>7. /\ \A m \in Messages : m # Turn.msg => Attached(m)' = Attached(m)
      /\ \A m \in Messages : m = Turn.msg => Attached(m)' \subseteq Turn.refs
  <2>1. edges' = edges \ F!Gone(Consumer, Turn.refs)
    BY <1>1 DEF F!gcOrphans, F!Collect
  <2> QED BY <2>1, GoneEdges
<1>8. Attached(Turn.msg)' \subseteq Turn'.refs
  BY <1>2, <1>3, <1>7 DEF Attached
<1>9. Halfway'
  BY <1>2, <1>3, <1>4, <1>6, <1>8 DEF ServeInv, Halfway, AtFile, Attached
<1>10. Agree'
  BY <1>3, <1>4, <1>6, <1>7, OthersAgree DEF ServeInv
<1> QED BY <1>3, <1>5, <1>9, <1>10 DEF ServeInv

\* An orphaned object goes.
LEMMA DeleteBlobServes ==
    ASSUME ServeInv, call[Consumer].pc = "done", UNCHANGED vars, UNCHANGED unfinished,
           F!DeleteBlob(Consumer)
    PROVE  ServeInv'
<1>1. UNCHANGED <<files, edges>>
  BY DEF F!DeleteBlob
<1>2. /\ job' \in [{Consumer} -> F!Job]
      /\ Turn.pc = "gc" /\ Turn'.pc \in {"gc", "next"}
      /\ Turn'.todo = Turn.todo /\ Turn'.refs = Turn.refs
      /\ Turn'.kind = Turn.kind /\ Turn'.msg = Turn.msg
  BY DeleteBlobFields DEF ServeInv
<1>3. Typed' /\ Asked'
  BY <1>1, <1>2 DEF ServeInv, Typed, Asked, AtFile
<1> QED BY <1>1, <1>2, <1>3, HandlingKeeps DEF AtFile, vars

\* The next file gets its row, unless it has one.
LEMMA UpsertFileServes ==
    ASSUME ServeInv, call[Consumer].pc = "done", UNCHANGED vars, UNCHANGED unfinished,
           F!UpsertFile(Consumer)
    PROVE  ServeInv'
<1>1. /\ job' \in [{Consumer} -> F!Job]
      /\ Turn.pc = "next" /\ UNCHANGED edges
      /\ Turn'.pc = "link" /\ Turn'.cur \in Turn.todo /\ Turn'.cur \in Files
      /\ files' = F!Recorded(Turn'.cur)
      /\ Turn'.todo = Turn.todo /\ Turn'.refs = Turn.refs
      /\ Turn'.kind = Turn.kind /\ Turn'.msg = Turn.msg
  BY UpsertFileFields DEF ServeInv
<1>2. Turn.kind = "upsert"
  BY <1>1 DEF ServeInv, Asked
<1>3. files' \in [Files -> F!FileRow] /\ files'[Turn'.cur].state # "absent"
  BY <1>1 DEF F!Recorded, F!HasRow, ServeInv, Typed, F!FileRow
<1>4. Typed' /\ Asked'
  BY <1>1, <1>2, <1>3 DEF ServeInv, Typed, Asked, AtFile
<1> QED BY <1>1, <1>3, <1>4, HandlingKeeps DEF AtFile, vars

\* Neither end of an edge is missing: the loop is the only one to collect.
LEMMA Linkable ==
    ASSUME ServeInv, Turn.pc = "link"
    PROVE  /\ Turn.kind = "upsert" /\ Turn.msg \in Messages
           /\ Turn.cur \in Turn.todo /\ Turn.todo \subseteq Turn.refs
           /\ Upserting /\ F!HasRow(Turn.cur) /\ Turn.cur \in Files
           /\ F!CanLink(Consumer) /\ messages[Turn.msg] # 0
<1>1. /\ Turn.kind = "upsert" /\ Turn.msg \in Messages
      /\ Turn.cur \in Turn.todo /\ Turn.todo \subseteq Turn.refs
      /\ Upserting /\ F!HasRow(Turn.cur)
      /\ messages[Turn.msg] # 0
  BY DEF ServeInv, Asked, Halfway, Upserting, AtFile
<1>2. Turn.cur \in Files
  BY <1>1 DEF ServeInv, Typed, Turn, F!Job
<1>3. F!CanLink(Consumer)
  BY <1>1 DEF F!CanLink, F!Cur, Rows, Turn
<1> QED BY <1>1, <1>2, <1>3

\* The edge is written, so the message has the attachment.
LEMMA LinkFileServes ==
    ASSUME ServeInv, call[Consumer].pc = "done", UNCHANGED vars, UNCHANGED unfinished,
           F!LinkFile(Consumer) \/ F!LinkFails(Consumer)
    PROVE  ServeInv'
<1>1. Turn.pc = "link"
  BY DEF F!LinkFile, F!LinkFails, F!Pc, Turn
<1>2. /\ Turn.kind = "upsert" /\ Turn.msg \in Messages
      /\ Turn.cur \in Turn.todo /\ Turn.todo \subseteq Turn.refs
      /\ Upserting /\ F!HasRow(Turn.cur)
      /\ messages[Turn.msg] # 0
  BY <1>1, Linkable
<1>3. F!CanLink(Consumer)
  BY <1>1, Linkable
<1>4. PICK pc \in {"skip", "get"} : F!Goto(Consumer, pc)
  BY <1>3 DEF F!LinkFile, F!LinkFails
<1>5. edges' = edges \cup {<<Turn.msg, Turn.cur>>} /\ files' = files
  BY <1>3 DEF F!LinkFile, F!LinkFails, F!Cur, Turn
<1>6. /\ job' \in [{Consumer} -> F!Job]
      /\ Turn'.pc = pc /\ Turn'.cur = Turn.cur
      /\ Turn'.todo = Turn.todo /\ Turn'.refs = Turn.refs
      /\ Turn'.kind = Turn.kind /\ Turn'.msg = Turn.msg
  BY <1>4, GotoFields DEF ServeInv
<1>7. messages' = messages /\ call' = call
  BY DEF vars
<1>8. Turn.cur \in Files
  BY <1>1, Linkable
<1>9. Typed' /\ Asked' /\ Paired'
  BY <1>1, <1>2, <1>5, <1>6, <1>7, <1>8
     DEF ServeInv, Typed, Asked, Paired, AtFile
<1>10. Upserting'
  BY <1>2, <1>6 DEF Upserting
<1>11. /\ \A m \in Messages : m # Turn.msg => Attached(m)' = Attached(m)
       /\ Attached(Turn.msg)' = Attached(Turn.msg) \cup {Turn.cur}
  BY <1>5, <1>6, <1>8 DEF Attached
<1>12. Halfway'
  <2>1. /\ Turn.refs \ Turn.todo \subseteq Attached(Turn.msg)
        /\ Attached(Turn.msg) \subseteq Turn.refs
        /\ Turn.refs = AttachOf[Turn.msg][messages[Turn.msg]]
    BY <1>1, <1>2 DEF ServeInv, Halfway
  <2>2. /\ Turn'.refs \ Turn'.todo \subseteq Attached(Turn.msg)'
        /\ Attached(Turn.msg)' \subseteq Turn'.refs
        /\ Turn'.cur \in Attached(Turn.msg)'
    BY <1>2, <1>6, <1>11, <2>1
  <2> QED BY <1>2, <1>6, <1>7, <2>1, <2>2 DEF Halfway
<1>13. Agree'
  BY <1>2, <1>6, <1>7, <1>10, <1>11, OthersAgree DEF ServeInv
<1> QED BY <1>9, <1>12, <1>13 DEF ServeInv

\* Of a file that is linked, a row may change and an object come and go.
LEMMA GoingServes ==
    ASSUME ServeInv, call[Consumer].pc = "done", UNCHANGED vars, UNCHANGED unfinished,
           Turn.pc \in AtFile \ {"link"}, UNCHANGED edges,
           files' \in [Files -> F!FileRow],
           NEW pc \in {"copy", "store", "failed"}, F!Goto(Consumer, pc)
    PROVE  ServeInv'
<1>1. /\ job' \in [{Consumer} -> F!Job]
      /\ Turn'.pc = pc /\ Turn'.cur = Turn.cur
      /\ Turn'.todo = Turn.todo /\ Turn'.refs = Turn.refs
      /\ Turn'.kind = Turn.kind /\ Turn'.msg = Turn.msg
  BY GotoFields DEF ServeInv
<1>2. Turn.cur \in Attached(Turn.msg)
  BY DEF ServeInv, Halfway
<1>3. Typed' /\ Asked'
  BY <1>1 DEF ServeInv, Typed, Asked, AtFile
<1> QED BY <1>1, <1>2, <1>3, HandlingKeeps DEF AtFile, vars

\* So it is when the attachment is settled, whatever the outcome.
LEMMA SettlingServes ==
    ASSUME ServeInv, call[Consumer].pc = "done", UNCHANGED vars, UNCHANGED unfinished,
           Turn.pc \in AtFile \ {"link"}, UNCHANGED edges,
           files' \in [Files -> F!FileRow],
           NEW ok \in BOOLEAN, F!Done(Consumer, ok)
    PROVE  ServeInv'
<1>1. /\ job' \in [{Consumer} -> F!Job]
      /\ Turn'.pc = "next" /\ Turn'.todo = Turn.todo \ {Turn.cur}
      /\ Turn'.refs = Turn.refs
      /\ Turn'.kind = Turn.kind /\ Turn'.msg = Turn.msg
  BY DoneFields DEF ServeInv
<1>2. Turn.cur \in Attached(Turn.msg)
  BY DEF ServeInv, Halfway
<1>3. Typed' /\ Asked'
  BY <1>1 DEF ServeInv, Typed, Asked, AtFile
<1> QED BY <1>1, <1>2, <1>3, HandlingKeeps DEF AtFile, vars

\* Nothing is left to do: the edges of the message are its attachments.
LEMMA FinishServes ==
    ASSUME ServeInv, call[Consumer].pc = "done", UNCHANGED vars,
           F!Finish(Consumer), unfinished' = unfinished \ {Turn.msg}
    PROVE  ServeInv'
<1>1. /\ Turn.pc = "next" /\ Turn.todo = {}
      /\ F!Stop(Consumer) /\ UNCHANGED <<files, edges>>
  BY DEF F!Finish, F!Pc, Turn
<1>2. messages' = messages /\ call' = call
  BY DEF vars
<1>3. \A m : Attached(m)' = Attached(m)
  BY <1>1 DEF Attached
<1>4. Turn.msg \in Messages /\ Turn.kind \in {"upsert", "delete"}
  BY <1>1 DEF ServeInv, Asked
<1>5. CASE Turn.kind = "upsert"
  <2>1. /\ Upserting
        /\ Attached(Turn.msg) = AttachedIn(Turn.msg, messages[Turn.msg])
    BY <1>1, <1>5 DEF ServeInv, Halfway, Upserting, AttachedIn
  <2>2. \A m : m = Turn.msg => Attached(m)' = AttachedIn(m, messages'[m])
    BY <1>2, <1>3, <2>1
  <2>3. Agree'
    BY <1>2, <1>3, <2>1, <2>2, OthersAgree DEF ServeInv
  <2> QED BY <1>1, <1>2, <2>3, StoppedKeeps DEF ServeInv, Typed
<1>6. CASE Turn.kind = "delete"
  <2>1. ~Upserting /\ Turn.msg \notin unfinished
    BY <1>1, <1>6 DEF ServeInv, Halfway, Upserting
  <2>2. \A m \in Messages \ unfinished' : Attached(m)' = AttachedIn(m, messages'[m])
    BY <1>2, <1>3, <2>1 DEF ServeInv, Agree
  <2>3. Agree'
    BY <2>2 DEF Agree, AttachedIn
  <2> QED BY <1>1, <1>2, <2>3, StoppedKeeps DEF ServeInv, Typed
<1> QED BY <1>4, <1>5, <1>6

\* A call of Handle, or a blob delete after the commit of a delete.
LEMMA HandlesServes ==
    ASSUME ServeInv, Handles PROVE ServeInv'
<1>1. /\ call[Consumer].pc = "done" /\ UNCHANGED vars
      /\ F!Finish(Consumer) => unfinished' = unfinished \ {Turn.msg}
      /\ ~F!Finish(Consumer) => UNCHANGED unfinished
  BY DEF Handles
<1>2. ~F!UpsertMessage(Consumer) /\ ~F!DeleteMessage(Consumer)
  BY <1>1 DEF ServeInv, Paired, F!UpsertMessage, F!DeleteMessage, F!Pc, Turn
<1>3. CASE F!Finish(Consumer)
  BY <1>1, <1>3, FinishServes
<1>4. CASE F!ReconcileMessageFiles(Consumer) /\ ~F!Finish(Consumer)
  BY <1>1, <1>4, ReconcileServes
<1>5. CASE F!DeleteBlob(Consumer) /\ ~F!Finish(Consumer)
  BY <1>1, <1>5, DeleteBlobServes
<1>6. CASE F!UpsertFile(Consumer) /\ ~F!Finish(Consumer)
  BY <1>1, <1>6, UpsertFileServes
<1>7. CASE (F!LinkFile(Consumer) \/ F!LinkFails(Consumer)) /\ ~F!Finish(Consumer)
  BY <1>1, <1>7, LinkFileServes
<1>8. CASE (F!Skip(Consumer) \/ F!Fail(Consumer)) /\ ~F!Finish(Consumer)
  <2>1. PICK state \in {"skipped", "failed"} : F!SetFileState(Consumer, state)
    BY <1>8 DEF F!Skip, F!Fail
  <2>2. Turn.pc \in AtFile \ {"link"}
    BY <1>8 DEF F!Skip, F!Fail, F!Pc, Turn, AtFile
  <2>3. files' \in [Files -> F!FileRow] /\ UNCHANGED edges
    BY <2>1 DEF F!SetFileState, F!Updated, ServeInv, Typed, F!FileRow
  <2> QED BY <1>1, <1>8, <2>1, <2>2, <2>3, SettlingServes DEF F!SetFileState
<1>9. CASE (F!Get(Consumer) \/ F!Put(Consumer)) /\ ~F!Finish(Consumer)
  <2>1. PICK pc \in {"copy", "store"} : F!Goto(Consumer, pc)
    BY <1>9 DEF F!Get, F!Put
  <2>2. Turn.pc \in AtFile \ {"link"} /\ UNCHANGED <<files, edges>>
    BY <1>9 DEF F!Get, F!Put, F!Pc, Turn, AtFile
  <2> QED BY <1>1, <1>9, <2>1, <2>2, GoingServes DEF ServeInv, Typed
<1>10. CASE F!SetFileStored(Consumer) /\ ~F!Finish(Consumer)
  <2>1. Turn.pc \in AtFile \ {"link"} /\ UNCHANGED edges /\ F!Done(Consumer, TRUE)
    BY <1>10 DEF F!SetFileStored, F!Pc, Turn, AtFile
  <2>2. files' \in [Files -> F!FileRow]
    BY <1>10 DEF F!SetFileStored, F!Stored, F!Updated, ServeInv, Typed, F!FileRow
  <2> QED BY <1>1, <1>10, <2>1, <2>2, SettlingServes
<1> QED BY <1>2, <1>3, <1>4, <1>5, <1>6, <1>7, <1>8, <1>9, <1>10 DEF Handles, F!Work

\* The turn is over when the job is.
LEMMA ReturnsServes ==
    ASSUME PipeInv, ServeInv, Returns PROVE ServeInv'
<1>1. /\ Turn'.pc = "idle" /\ Turn.pc = "idle"
      /\ UNCHANGED messages /\ UNCHANGED fileVars /\ UNCHANGED unfinished
  BY DEF Returns, Return, store, Turn, fileVars
<1>2. call'[Consumer].pc = "idle"
  BY PipelineAssumption DEF Returns, Return, Idle, PipeInv, TypeInv
<1> QED BY <1>1, <1>2, SideStays DEF Paired
-----------------------------------------------------------------------------
\* The row is written or not: if it is, the upsert counts as unfinished, and
\* a delete has taken the edges with it.
LEMMA ApplyFailsServes ==
    ASSUME PipeInv, ServeInv, ApplyFails PROVE ServeInv'
<1>1. /\ WriteFails(Consumer) /\ Cut
      /\ F!DbAborts(Consumer) \/ F!DbReplyLost(Consumer)
      /\ F!Stop(Consumer)
  BY DEF ApplyFails, StepFails, F!DbAborts, F!DbReplyLost
<1>2. /\ call[Consumer].pc \in {"channel", "user", "upsert", "delete"}
      /\ \/ UNCHANGED messages
         \/ /\ call[Consumer].pc \in {"upsert", "delete"}
            /\ \E v : messages' = [messages EXCEPT ![Msg(Consumer)] = v]
  BY <1>1, ApplyActs, PipelineAssumption
<1>3. call'[Consumer].pc = "error"
  <2>1. CallOK(call[Consumer]) /\ DOMAIN call = Processes /\ Consumer \in Processes
    BY PipelineAssumption DEF PipeInv, Genuine, TypeInv
  <2>2. call[Consumer] = [pc |-> call[Consumer].pc, act |-> call[Consumer].act]
    BY <1>2, <2>1, UpsertCall, DeleteCall
  <2> QED BY <1>1, <2>1, <2>2 DEF WriteFails, Goto
<1>4. /\ Turn.pc \in {"upsert", "delete"} /\ ~Upserting
      /\ Turn.msg = Msg(Consumer) /\ Turn.msg \in Messages
  BY <1>2 DEF ServeInv, Paired, Asked, Msg, Upserting
<1>5. \A m \in Messages : m # Turn.msg => messages'[m] = messages[m]
  BY <1>2, <1>4 DEF PipeInv, TypeInv
<1>6. CASE Turn.pc = "upsert"
  <2>1. UNCHANGED <<files, edges>>
    BY <1>1, <1>6 DEF F!DbAborts, F!DbReplyLost, F!Pc, Turn
  <2>2. \/ messages' = messages /\ UNCHANGED unfinished
        \/ unfinished' = unfinished \cup {Turn.msg}
    BY <1>1, <1>6 DEF Cut, ServeInv, Asked
  <2>3. \A m : Attached(m)' = Attached(m)
    BY <2>1 DEF Attached
  <2>4. Turn.msg \in unfinished' \/ Attached(Turn.msg) = AttachedIn(Turn.msg, messages[Turn.msg])
    BY <1>4, <2>2 DEF ServeInv, Agree
  <2>5. \A m : m = Turn.msg =>
            m \in unfinished' \/ Attached(m)' = AttachedIn(m, messages'[m])
    BY <2>2, <2>3, <2>4
  <2>6. unfinished \subseteq unfinished'
    BY <2>2
  <2>7. Agree'
    BY <1>4, <1>5, <2>3, <2>5, <2>6, OthersAgree DEF ServeInv
  <2> QED BY <1>1, <1>3, <2>1, <2>7, StoppedKeeps DEF ServeInv, Typed
<1>7. CASE Turn.pc = "delete"
  <2>1. Turn.kind = "delete" /\ UNCHANGED unfinished
    BY <1>1, <1>7 DEF Cut, ServeInv, Asked
  <2>2. call[Consumer].pc = "delete"
    BY <1>2, <1>7 DEF ServeInv, Paired
  <2>3. messages' = messages \/ messages'[Turn.msg] = 0
    BY <1>1, <1>4, <2>2
       DEF WriteFails, store, WriteChannel, WriteUser, WriteMessage, PipeInv, TypeInv
  <2>4. CASE F!DbAborts(Consumer)
    <3>1. UNCHANGED <<files, edges>> /\ Rows' = Rows
      BY <2>4 DEF F!DbAborts
    <3>2. messages' = messages
      <4>1. CASE messages'[Turn.msg] = 0
        <5>1. messages[Turn.msg] = 0
          BY <1>4, <3>1, <4>1 DEF Rows
        <5>2. messages \in [Messages -> 0..MaxVersion]
          BY DEF PipeInv, TypeInv
        <5>3. ASSUME NEW v, messages' = [messages EXCEPT ![Turn.msg] = v]
              PROVE  messages' = messages
          BY <1>4, <4>1, <5>1, <5>2, <5>3
        <5> QED BY <1>2, <1>4, <5>3
      <4> QED BY <2>3, <4>1
    <3>3. \A m : Attached(m)' = Attached(m)
      BY <3>1 DEF Attached
    <3>4. Agree'
      BY <1>1, <1>4, <3>1, <3>2, <3>3, CutAgrees
    <3> QED BY <1>1, <1>3, <3>1, <3>4, StoppedKeeps DEF ServeInv, Typed
  <2>5. CASE F!DbReplyLost(Consumer)
    <3>1. /\ F!Collect({e[2] : e \in F!Gone(Consumer, {})}, edges \ F!Gone(Consumer, {}))
          /\ Rows' = Rows \ {Turn.msg}
      BY <1>7, <2>5 DEF F!DbReplyLost, F!Pc, Turn
    <3>2. messages'[Turn.msg] = 0
      BY <1>4, <3>1 DEF Rows
    <3>3. edges' = edges \ F!Gone(Consumer, {})
      BY <3>1 DEF F!Collect
    <3>4. \A m \in Messages : m # Turn.msg => Attached(m)' = Attached(m)
      BY <3>3, GoneEdges
    <3>5. \A m \in Messages : m = Turn.msg => Attached(m)' = AttachedIn(m, messages'[m])
      BY <3>2, <3>3, GoneEdges DEF AttachedIn
    <3>6. Agree'
      BY <1>4, <1>5, <2>1, <3>4, <3>5, OthersAgree DEF ServeInv
    <3>7. edges \ F!Gone(Consumer, {}) \subseteq edges
      OBVIOUS
    <3>8. files' \in [Files -> F!FileRow] /\ edges' \subseteq Messages \X Files
      BY <3>1, <3>7, CollectFields DEF ServeInv
    <3> QED BY <1>1, <1>3, <3>6, <3>8, StoppedKeeps
  <2> QED BY <1>1, <2>4, <2>5
<1> QED BY <1>4, <1>6, <1>7

(* The turn stops where it is, and nothing but edges of its message change. *)
LEMMA CutServes ==
    ASSUME ServeInv, Cut, F!Stop(Consumer), UNCHANGED messages,
           call'[Consumer].pc \in {"idle", "done"}, Upserting \/ UNCHANGED edges,
           files' \in [Files -> F!FileRow], edges' \subseteq Messages \X Files,
           \A m \in Messages : m # Turn.msg => Attached(m)' = Attached(m)
    PROVE  ServeInv'
BY CutAgrees, StoppedKeeps

\* A statement of Handle fails, with or without effect.
LEMMA HandleFailsServes ==
    ASSUME ServeInv, HandleFails PROVE ServeInv'
<1>1. /\ call[Consumer].pc = "done" /\ UNCHANGED vars
      /\ UNCHANGED messages /\ UNCHANGED call
  BY DEF HandleFails, vars
<1>2. Turn.pc \notin {"upsert", "delete"}
  BY <1>1 DEF ServeInv, Paired
<1>3. CASE (F!DbAborts(Consumer) \/ F!DbReplyLost(Consumer)) /\ Cut
  <2>1. /\ F!Stop(Consumer)
        /\ Turn.pc \in {"reconcile", "link", "next"}
        /\ Turn.pc = "next" => Turn.todo # {}
    BY <1>2, <1>3 DEF F!DbAborts, F!DbReplyLost, F!Pc, Turn
  <2>2. Turn.kind = "upsert" /\ Upserting /\ Turn.todo \subseteq Turn.refs
    BY <2>1 DEF ServeInv, Asked, Upserting, AtFile
  <2>3. CASE UNCHANGED <<files, edges>>
    <3>1. \A m : Attached(m)' = Attached(m)
      BY <2>3 DEF Attached
    <3> QED BY <1>1, <1>3, <2>1, <2>2, <2>3, <3>1, CutServes DEF ServeInv, Typed
  <2>4. CASE F!Collect({e[2] : e \in F!Gone(Consumer, Turn.refs)},
                       edges \ F!Gone(Consumer, Turn.refs))
    <3>1. edges' = edges \ F!Gone(Consumer, Turn.refs)
      BY <2>4 DEF F!Collect
    <3>2. \A m \in Messages : m # Turn.msg => Attached(m)' = Attached(m)
      BY <3>1, GoneEdges
    <3>3. edges \ F!Gone(Consumer, Turn.refs) \subseteq edges
      OBVIOUS
    <3>4. files' \in [Files -> F!FileRow] /\ edges' \subseteq Messages \X Files
      BY <2>4, <3>3, CollectFields DEF ServeInv
    <3> QED BY <1>1, <1>3, <2>1, <2>2, <3>2, <3>4, CutServes
  <2>5. CASE (\E f \in Turn.todo : files' = F!Recorded(f)) /\ UNCHANGED edges
    <3>1. PICK f \in Turn.todo : files' = F!Recorded(f)
      BY <2>5
    <3>2. files' \in [Files -> F!FileRow]
      BY <3>1 DEF F!Recorded, ServeInv, Typed, F!FileRow
    <3>3. \A m : Attached(m)' = Attached(m)
      BY <2>5 DEF Attached
    <3> QED BY <1>1, <1>3, <2>1, <2>2, <2>5, <3>2, <3>3, CutServes DEF ServeInv, Typed
  <2>6. CASE /\ edges' = edges \cup {<<Turn.msg, Turn.cur>>} /\ UNCHANGED files
             /\ Turn.pc = "link"
    <3>1. Turn.msg \in Messages /\ Turn.cur \in Files
      BY <2>2, <2>6 DEF ServeInv, Asked, AtFile, Typed, Turn, F!Job
    <3>2. \A m \in Messages : m # Turn.msg => Attached(m)' = Attached(m)
      BY <2>6 DEF Attached
    <3>3. files' \in [Files -> F!FileRow] /\ edges' \subseteq Messages \X Files
      BY <2>6, <3>1 DEF ServeInv, Typed
    <3> QED BY <1>1, <1>3, <2>1, <2>2, <3>2, <3>3, CutServes
  <2> QED BY <1>2, <1>3, <2>3, <2>4, <2>5, <2>6
          DEF F!DbAborts, F!DbReplyLost, F!Pc, F!Cur, Turn
<1>4. CASE (F!DbIgnored(Consumer) \/ F!DbStoreFails(Consumer)) /\ UNCHANGED unfinished
  <2>1. Turn.pc \in AtFile \ {"link"} /\ UNCHANGED edges
    BY <1>4 DEF F!DbIgnored, F!DbStoreFails, F!Pc, Turn, AtFile
  <2>2. files' \in [Files -> F!FileRow]
    <3>1. files' = files \/ files' = F!Stored(Consumer)
      BY <1>4 DEF F!DbIgnored, F!DbStoreFails
    <3>2. F!Stored(Consumer) \in [Files -> F!FileRow]
      BY DEF F!Stored, F!Updated, ServeInv, Typed, F!FileRow
    <3> QED BY <3>1, <3>2 DEF ServeInv, Typed
  <2>3. CASE F!DbIgnored(Consumer)
    BY <1>1, <1>4, <2>1, <2>2, <2>3, SettlingServes DEF F!DbIgnored
  <2>4. CASE F!DbStoreFails(Consumer)
    BY <1>1, <1>4, <2>1, <2>2, <2>4, GoingServes DEF F!DbStoreFails
  <2> QED BY <1>4, <2>3, <2>4
<1> QED BY <1>3, <1>4 DEF HandleFails

\* A download fails, or the delete of an object does.
LEMMA TransferFailsServes ==
    ASSUME ServeInv, TransferFails PROVE ServeInv'
<1>1. /\ call[Consumer].pc = "done" /\ UNCHANGED vars
      /\ UNCHANGED messages /\ UNCHANGED call
  BY DEF TransferFails, vars
<1>2. CASE (F!GetFails(Consumer) \/ F!PutFails(Consumer)) /\ UNCHANGED unfinished
  <2>1. /\ Turn.pc \in AtFile \ {"link"} /\ UNCHANGED <<files, edges>>
        /\ F!Goto(Consumer, "failed")
    BY <1>2 DEF F!GetFails, F!PutFails, F!Pc, Turn, AtFile
  <2> QED BY <1>1, <1>2, <2>1, GoingServes DEF ServeInv, Typed
<1>3. CASE F!DeleteBlobFails(Consumer) /\ Cut
  <2>1. F!Stop(Consumer) /\ UNCHANGED <<files, edges>>
    BY <1>3 DEF F!DeleteBlobFails
  <2>2. \A m : Attached(m)' = Attached(m)
    BY <2>1 DEF Attached
  <2> QED BY <1>1, <1>3, <2>1, <2>2, CutServes DEF ServeInv, Typed
<1> QED BY <1>2, <1>3 DEF TransferFails

\* The process dies, between turns or within one.
LEMMA EndsServes ==
    ASSUME PipeInv, ServeInv, Ends PROVE ServeInv'
<1>1. UNCHANGED messages
  BY DEF Ends, Exit, store
<1>2. call'[Consumer].pc = "idle"
  BY PipelineAssumption DEF Ends, Exit, Idle, PipeInv, TypeInv
<1>3. CASE Turn.pc = "idle" /\ UNCHANGED fileVars /\ UNCHANGED unfinished
  <2>1. Turn'.pc = "idle"
    BY <1>3 DEF Turn, fileVars
  <2> QED BY <1>1, <1>2, <1>3, <2>1, SideStays DEF Paired
<1>4. CASE F!Crash(Consumer) /\ Cut
  <2>1. F!Stop(Consumer) /\ UNCHANGED <<files, edges>>
    BY <1>4 DEF F!Crash
  <2>2. \A m : Attached(m)' = Attached(m)
    BY <2>1 DEF Attached
  <2> QED BY <1>1, <1>2, <1>4, <2>1, <2>2, CutServes DEF ServeInv, Typed
<1> QED BY <1>3, <1>4 DEF Ends

\* What others do leaves the turn alone.
LEMMA OutsideServes ==
    ASSUME ServeInv, Outside PROVE ServeInv'
<1>1. /\ UNCHANGED call /\ UNCHANGED messages
      /\ UNCHANGED fileVars /\ UNCHANGED unfinished
  BY DEF Outside, Deliver, PublishWrite, PublishRemove, Publish, Redeliver, Sigterm,
         Restart, store
<1>2. Turn' = Turn
  BY <1>1 DEF Turn, fileVars
<1>3. Paired'
  BY <1>1, <1>2 DEF ServeInv, Paired
<1> QED BY <1>1, <1>3, SideStays
-----------------------------------------------------------------------------
(* Nothing is attached yet.                                                *)
LEMMA ServeInit == ServiceInit => ServeInv
<1> SUFFICES ASSUME ServiceInit PROVE ServeInv
  OBVIOUS
<1>1. /\ Turn = F!Idle /\ edges = {} /\ unfinished = {}
      /\ \A m \in Messages : messages[m] = 0
      /\ call[Consumer].pc = "idle"
  BY PipelineAssumption DEF ServiceInit, Init, ApplyInit, Idle, F!Init, Turn
<1>2. Typed
  BY DEF ServiceInit, F!Init, Typed, F!Idle, F!Job, F!NoRow, F!FileRow
<1>3. /\ Turn.pc = "idle" /\ Turn.kind = "none"
      /\ Turn.todo = {} /\ Turn.refs = {}
  BY <1>1 DEF F!Idle
<1>4. Asked /\ Paired /\ Halfway
  BY <1>1, <1>3 DEF Asked, Paired, Halfway, Upserting, AtFile
<1>5. Agree
  BY <1>1 DEF Agree, Attached, AttachedIn
<1> QED BY <1>2, <1>4, <1>5 DEF ServeInv

(* Both halves of a turn go together.                                      *)
LEMMA ServeStep == PipeInv /\ ServeInv /\ [ServiceNext]_serviceVars => ServeInv'
<1> SUFFICES ASSUME PipeInv, ServeInv, [ServiceNext]_serviceVars PROVE ServeInv'
  OBVIOUS
<1>1. CASE UNCHANGED serviceVars
  <2>1. /\ UNCHANGED call /\ UNCHANGED messages
        /\ UNCHANGED fileVars /\ UNCHANGED unfinished
    BY <1>1 DEF serviceVars, vars, fileVars
  <2>2. Turn' = Turn
    BY <2>1 DEF Turn, fileVars
  <2>3. Paired'
    BY <2>1, <2>2 DEF ServeInv, Paired
  <2> QED BY <2>1, <2>3, SideStays
<1> QED BY <1>1, TakeServes, EnsuresServes, UpsertsServes, DeletesServes, HandlesServes,
           ReturnsServes, ApplyFailsServes, HandleFailsServes, TransferFailsServes,
           EndsServes, OutsideServes DEF ServiceNext, Goes

\* Between turns a message has the attachments of the version its row holds,
\* whatever came late, twice or never and whatever failed, unless the turn that
\* wrote the row was cut short in the midst of them.
THEOREM AttachmentsAsWritten == ServiceSpec => []AttachmentsFollowRow
<1>1. ServeInv => AttachmentsFollowRow
  BY DEF ServeInv, Paired, Agree, Upserting, AttachmentsFollowRow
<1>2. ServiceInit => Init
  BY DEF ServiceInit
<1> QED BY PipeInit, PipeStep, ServeInit, ServeStep, ServePipes, <1>1, <1>2, PTL
        DEF ServiceSpec
-----------------------------------------------------------------------------
(* What holds of EventPipeline's behaviours holds of those of serve.       *)
THEOREM ServeRunsPipeline == ServiceSpec => Spec
<1>1. ServiceInit => Init
  BY DEF ServiceInit
<1> QED BY <1>1, ServePipes, PTL DEF ServiceSpec, Spec

\* Handling attachments in the loop delays the rows and changes none: once every
\* delivery was handled they show what Slack shows.
THEOREM ServeInSync ==
    ASSUME Past = {}, Reliable
    PROVE  ServiceSpec => []InSync
BY ServeRunsPipeline, MirrorInSync
-----------------------------------------------------------------------------
\* Each envelope comes once, no statement, copy or delete fails, and nobody stops
\* the process: downloads may fail.
OnlyFetchesFail == Reliable /\ FileFaults \cap {"copy", "gc"} = {}

\* Rows without an edge, and objects without a URI, are those in hand.
InHandOnly ==
    /\ unfinished = {} /\ blobs \in [Files -> F!BlobState]
    /\ \A f \in Files, m \in Messages : <<m, f>> \in edges => F!HasRow(f)
    /\ \A f \in Files : F!HasRow(f) =>
          \/ \E m \in Messages : <<m, f>> \in edges
          \/ Turn.pc = "link" /\ f = Turn.cur
    /\ \A f \in Files : blobs[f] # "none" =>
          \/ files[f].uri
          \/ Turn.pc = "gc" /\ f \in Turn.gc
          \/ Turn.pc \in {"copy", "store"} /\ f = Turn.cur
    /\ \A f \in Files : files[f].uri => F!HasRow(f)

\* A turn that does not touch files, and has none in hand.
LEMMA HandsFree ==
    ASSUME InHandOnly, UNCHANGED <<files, edges, blobs>>, UNCHANGED unfinished,
           Turn.pc \notin {"link", "gc", "copy", "store"}
    PROVE  InHandOnly'
BY DEF InHandOnly, F!HasRow

\* Nor does a step that leaves the file side alone.
LEMMA HandsStill ==
    ASSUME InHandOnly, UNCHANGED fileVars, UNCHANGED unfinished
    PROVE  InHandOnly'
<1>1. Turn' = Turn
  BY DEF Turn, fileVars
<1> QED BY <1>1 DEF InHandOnly, F!HasRow, fileVars

\* The objects of the rows that a transaction collects are in hand until deleted.
LEMMA HandsCollect ==
    ASSUME Typed, InHandOnly, NEW keep, Turn.pc \in {"delete", "reconcile"},
           F!gcOrphans(Consumer, {e[2] : e \in F!Gone(Consumer, keep)},
                       edges \ F!Gone(Consumer, keep)),
           UNCHANGED blobs, unfinished' = {}
    PROVE  InHandOnly'
<1> DEFINE taken == F!Gone(Consumer, keep)
           orphans == F!Orphans({e[2] : e \in taken}, edges \ taken)
<1>1. /\ edges' = edges \ taken
      /\ files' = [f \in Files |-> IF f \in orphans THEN F!NoRow ELSE files[f]]
  BY DEF F!gcOrphans, F!Collect
<1>2. \A f \in orphans : files[f].uri => Turn'.pc = "gc" /\ f \in Turn'.gc
  BY GcFields
<1>3. ASSUME NEW f \in Files, NEW m \in Messages, <<m, f>> \in edges \ taken
      PROVE  f \notin orphans
  BY <1>3 DEF F!Orphans
<1>4. ASSUME NEW f \in Files, f \notin orphans, NEW m \in Messages, <<m, f>> \in edges
      PROVE  \E n \in Messages : <<n, f>> \in edges \ taken
  <2>1. CASE <<m, f>> \in taken
    <3>1. f \in {e[2] : e \in taken}
      BY <2>1
    <3> QED BY <1>4, <3>1 DEF F!Orphans
  <2> QED BY <1>4, <2>1
<1> HIDE DEF taken, orphans
<1>5. \A f \in Files : files'[f] = IF f \in orphans THEN F!NoRow ELSE files[f]
  BY <1>1
<1>6. \A f \in Files, m \in Messages : <<m, f>> \in edges' => files'[f].state # "absent"
  BY <1>1, <1>3, <1>5 DEF InHandOnly, F!HasRow
<1>7. ASSUME NEW f \in Files, files'[f].state # "absent"
      PROVE  \E m \in Messages : <<m, f>> \in edges'
  <2>1. f \notin orphans /\ files[f].state # "absent"
    BY <1>5, <1>7 DEF F!NoRow
  <2>2. \E m \in Messages : <<m, f>> \in edges
    BY <2>1 DEF InHandOnly, F!HasRow
  <2> QED BY <1>1, <1>4, <2>1, <2>2
<1>8. ASSUME NEW f \in Files, blobs'[f] # "none"
      PROVE  files'[f].uri \/ (Turn'.pc = "gc" /\ f \in Turn'.gc)
  <2>1. files[f].uri
    BY <1>8 DEF InHandOnly
  <2> QED BY <1>2, <1>5, <2>1
<1>9. \A f \in Files : files'[f].uri => files'[f].state # "absent"
  BY <1>5 DEF InHandOnly, F!HasRow, F!NoRow
<1> QED BY <1>6, <1>7, <1>8, <1>9 DEF InHandOnly, F!HasRow

\* A call of Handle: what it takes in hand is recorded before it lets go.
LEMMA HandsHandle ==
    ASSUME ServeInv, InHandOnly, Handles PROVE InHandOnly'
<1>1. /\ call[Consumer].pc = "done"
      /\ unfinished' = {}
      /\ blobs \in [Files -> F!BlobState]
      /\ files \in [Files -> F!FileRow]
  BY DEF Handles, InHandOnly, ServeInv, Typed
<1>2. ~F!UpsertMessage(Consumer) /\ ~F!DeleteMessage(Consumer)
  BY <1>1 DEF ServeInv, Paired, F!UpsertMessage, F!DeleteMessage, F!Pc, Turn
<1>3. CASE F!Finish(Consumer)
  <2>1. Turn.pc = "next" /\ UNCHANGED <<files, edges, blobs>>
    BY <1>3 DEF F!Finish, F!Pc, Turn
  <2> QED BY <1>1, <2>1, HandsFree DEF InHandOnly
<1>4. CASE F!ReconcileMessageFiles(Consumer)
  <2>1. /\ Turn.pc = "reconcile" /\ UNCHANGED blobs
        /\ F!gcOrphans(Consumer, {e[2] : e \in F!Gone(Consumer, Turn.refs)},
                       edges \ F!Gone(Consumer, Turn.refs))
    BY <1>4 DEF F!ReconcileMessageFiles, F!Pc, Turn
  <2> QED BY <1>1, <2>1, HandsCollect DEF ServeInv
<1>5. CASE F!DeleteBlob(Consumer)
  <2>1. UNCHANGED <<files, edges>>
    BY <1>5 DEF F!DeleteBlob
  <2>2. Turn.pc = "gc"
    BY <1>5, DeleteBlobFields DEF ServeInv
  <2>3. PICK f \in Turn.gc : /\ blobs' = [blobs EXCEPT ![f] = "none"]
                             /\ Turn'.gc = Turn.gc \ {f}
                             /\ Turn'.pc = IF Turn.gc = {f} THEN "next" ELSE "gc"
    BY <1>5, DeleteBlobFields DEF ServeInv
  <2>4. blobs' \in [Files -> F!BlobState]
    BY <1>1, <2>3 DEF F!BlobState
  <2>5. ASSUME NEW g \in Files, blobs'[g] # "none"
        PROVE  files'[g].uri \/ (Turn'.pc = "gc" /\ g \in Turn'.gc)
    <3>1. blobs[g] # "none" /\ g # f
      BY <1>1, <2>3, <2>5
    <3>2. files[g].uri \/ g \in Turn.gc
      BY <2>2, <3>1 DEF InHandOnly
    <3> QED BY <2>1, <2>3, <3>1, <3>2
  <2> QED BY <1>1, <2>1, <2>2, <2>4, <2>5 DEF InHandOnly, F!HasRow
<1>6. CASE F!UpsertFile(Consumer)
  <2>1. /\ Turn.pc = "next" /\ UNCHANGED <<edges, blobs>>
        /\ Turn'.pc = "link" /\ Turn'.cur \in Files
        /\ files' = F!Recorded(Turn'.cur)
    BY <1>6, UpsertFileFields DEF ServeInv
  <2>2. \A g \in Files : \/ files'[g] = files[g]
                         \/ /\ g = Turn'.cur /\ files[g].state = "absent"
                            /\ files'[g].state # "absent" /\ ~files'[g].uri
    BY <1>1, <2>1 DEF F!Recorded, F!HasRow
  <2> QED BY <1>1, <2>1, <2>2 DEF InHandOnly, F!HasRow
<1>7. CASE F!LinkFile(Consumer) \/ F!LinkFails(Consumer)
  <2>1. Turn.pc = "link" /\ UNCHANGED <<files, blobs>>
    BY <1>7 DEF F!LinkFile, F!LinkFails, F!Pc, Turn
  <2>2. /\ Turn.msg \in Messages /\ Turn.cur \in Files
        /\ F!HasRow(Turn.cur) /\ F!CanLink(Consumer)
    BY <2>1, Linkable
  <2>3. edges' = edges \cup {<<Turn.msg, Turn.cur>>}
    BY <1>7, <2>2 DEF F!LinkFile, F!LinkFails, F!Cur, Turn
  <2> QED BY <1>1, <2>1, <2>2, <2>3 DEF InHandOnly, F!HasRow
<1>8. CASE F!Skip(Consumer) \/ F!Fail(Consumer)
  <2>1. PICK state \in {"skipped", "failed"} : F!SetFileState(Consumer, state)
    BY <1>8 DEF F!Skip, F!Fail
  <2>2. Turn.pc \in {"skip", "failed"} /\ UNCHANGED <<edges, blobs>>
    BY <1>8 DEF F!Skip, F!Fail, F!SetFileState, F!Pc, Turn
  <2>3. \A g \in Files : /\ files'[g].uri = files[g].uri
                         /\ files'[g].state = "absent" <=> files[g].state = "absent"
    BY <1>1, <2>1 DEF F!SetFileState, F!Updated, F!HasRow, F!FileRow
  <2> QED BY <1>1, <2>2, <2>3 DEF InHandOnly, F!HasRow
<1>9. CASE F!Get(Consumer) \/ F!Put(Consumer)
  <2>1. /\ Turn.pc \in {"get", "copy"} /\ UNCHANGED <<files, edges>>
        /\ \E pc \in {"copy", "store"} : F!Goto(Consumer, pc)
        /\ \E v \in F!BlobState :
              blobs' \in {blobs, [blobs EXCEPT ![Turn.cur] = v]}
    BY <1>9 DEF F!Get, F!Put, F!Pc, F!Cur, Turn, F!BlobState
  <2>2. Turn'.pc \in {"copy", "store"} /\ Turn'.cur = Turn.cur
    BY <2>1, GotoFields DEF ServeInv
  <2>3. blobs' \in [Files -> F!BlobState]
    BY <1>1, <2>1
  <2>4. \A g \in Files : g # Turn.cur => blobs'[g] = blobs[g]
    BY <1>1, <2>1
  <2> QED BY <1>1, <2>1, <2>2, <2>3, <2>4 DEF InHandOnly, F!HasRow
<1>10. CASE F!SetFileStored(Consumer)
  <2>1. /\ Turn.pc = "store" /\ UNCHANGED <<edges, blobs>>
        /\ files' = F!Stored(Consumer)
    BY <1>10 DEF F!SetFileStored, F!Pc, Turn
  <2>2. Turn.cur \in Files /\ F!HasRow(Turn.cur)
    <3>1. Turn.cur \in Attached(Turn.msg) /\ Turn.msg \in Messages
      BY <2>1 DEF ServeInv, Halfway, Asked, AtFile
    <3> QED BY <3>1 DEF Attached, InHandOnly
  <2>3. /\ files'[Turn.cur] = [state |-> "stored", uri |-> TRUE]
        /\ \A g \in Files : g # Turn.cur => files'[g] = files[g]
    BY <1>1, <2>1, <2>2 DEF F!Stored, F!Updated, F!Cur, Turn
  <2>4. files'[Turn.cur].uri /\ files'[Turn.cur].state # "absent"
    BY <2>3
  <2>5. \A g \in Files : blobs[g] # "none" => files[g].uri \/ g = Turn.cur
    BY <2>1 DEF InHandOnly
  <2>6. \A g \in Files : files'[g].state # "absent" <=> files[g].state # "absent"
    BY <2>2, <2>3, <2>4 DEF F!HasRow
  <2>7. \A g \in Files : files'[g].uri => files'[g].state # "absent"
    BY <2>3, <2>4 DEF InHandOnly, F!HasRow
  <2>8. \A g \in Files : blobs'[g] # "none" => files'[g].uri
    BY <2>1, <2>3, <2>4, <2>5
  <2>9. \A f \in Files : files[f].state # "absent" =>
            \E m \in Messages : <<m, f>> \in edges
    BY <2>1 DEF InHandOnly, F!HasRow
  <2>10. \A f \in Files, m \in Messages : <<m, f>> \in edges => files'[f].state # "absent"
    BY <2>6 DEF InHandOnly, F!HasRow
  <2> QED BY <1>1, <2>1, <2>6, <2>7, <2>8, <2>9, <2>10 DEF InHandOnly, F!HasRow
<1> QED BY <1>2, <1>3, <1>4, <1>5, <1>6, <1>7, <1>8, <1>9, <1>10 DEF Handles, F!Work

(* While only downloads fail, every turn ends with its hands empty.        *)
LEMMA HandsStep ==
    ASSUME OnlyFetchesFail, NothingLost, PipeInv, ServeInv, InHandOnly,
           [ServiceNext]_serviceVars
    PROVE  InHandOnly'
<1>0. /\ proc = "up" /\ {"db", "crash", "sigterm"} \cap Faults = {}
      /\ "copy" \notin FileFaults /\ "gc" \notin FileFaults
  BY DEF NothingLost, OnlyFetchesFail, Reliable
<1>1. CASE TakeEvent
  <2>1. UNCHANGED <<files, edges, blobs>> /\ UNCHANGED unfinished
    BY <1>1 DEF TakeEvent, F!StartUpsert, F!StartDelete, fileVars
  <2>2. Turn.pc = "idle"
    BY <1>1 DEF TakeEvent, Take, ServeInv, Paired
  <2> QED BY <2>1, <2>2, HandsFree
<1>2. CASE Ensures \/ Returns \/ Outside
  BY <1>2, HandsStill DEF Ensures, Returns, Outside
<1>3. CASE Upserts
  <2>1. Turn.pc = "upsert" /\ UNCHANGED <<files, edges, blobs>> /\ UNCHANGED unfinished
    BY <1>3 DEF Upserts, F!UpsertMessage, F!Pc, Turn
  <2> QED BY <2>1, HandsFree
<1>4. CASE Deletes
  <2>1. /\ Turn.pc = "delete" /\ UNCHANGED blobs /\ unfinished' = {}
        /\ F!gcOrphans(Consumer, {e[2] : e \in F!Gone(Consumer, {})},
                       edges \ F!Gone(Consumer, {}))
    BY <1>4 DEF Deletes, F!DeleteMessage, F!Pc, Turn, InHandOnly
  <2> QED BY <2>1, HandsCollect DEF ServeInv
<1>5. CASE Handles
  BY <1>5, HandsHandle
<1>6. CASE TransferFails
  <2>1. F!GetFails(Consumer) /\ UNCHANGED unfinished
    BY <1>0, <1>6 DEF TransferFails, F!PutFails, F!DeleteBlobFails
  <2>2. Turn.pc = "get" /\ UNCHANGED <<files, edges, blobs>>
    BY <2>1 DEF F!GetFails, F!Pc, Turn
  <2> QED BY <2>1, <2>2, HandsFree
<1>7. CASE ApplyFails \/ HandleFails \/ Ends
  BY <1>0, <1>7 DEF ApplyFails, StepFails, HandleFails, Ends, Exit
<1>8. CASE UNCHANGED serviceVars
  BY <1>8, HandsStill DEF serviceVars, fileVars
<1> QED BY <1>1, <1>2, <1>3, <1>4, <1>5, <1>6, <1>7, <1>8 DEF ServiceNext, Goes

\* At first there is nothing to hold.
LEMMA HandsInit == ServiceInit => InHandOnly
BY DEF ServiceInit, F!Init, InHandOnly, F!HasRow, F!NoRow, F!BlobState

\* Once every delivery was handled and only downloads failed, a file has a row
\* if and only if Slack shows it attached, and an object only then: in whatever
\* order messages that share it were posted, edited and removed.
THEOREM ServeFilesInSync ==
    ASSUME Past = {}, OnlyFetchesFail
    PROVE  ServiceSpec => []FilesInSync
<1>1. Delivery /\ NothingLost /\ ServeInv /\ InHandOnly => FilesInSync
  <2> SUFFICES ASSUME Delivery, NothingLost, ServeInv, InHandOnly, Quiet
               PROVE  /\ \A m \in Messages : Attached(m) = AttachedIn(m, Expected(m))
                      /\ {f \in Files : F!HasRow(f)} = Wanted
                      /\ {f \in Files : blobs[f] # "none"} \subseteq Wanted
    BY DEF FilesInSync
  <2>1. Turn.pc = "idle"
    BY DEF Delivery, TurnOK, Quiet, Idle, ServeInv, Paired
  <2>2. \A m \in Messages : messages[m] = Expected(m)
    BY QuietRows DEF Delivery, NothingLost
  <2>3. \A m \in Messages : Attached(m) = AttachedIn(m, messages[m])
    BY <2>1 DEF ServeInv, Agree, Upserting, InHandOnly
  <2>4. \A m \in Messages : Attached(m) = AttachedIn(m, Expected(m))
    BY <2>2, <2>3
  <2>5. Wanted = UNION {Attached(m) : m \in Messages}
    BY <2>4 DEF Wanted
  <2>6. \A f \in Files : F!HasRow(f) <=> \E m \in Messages : f \in Attached(m)
    BY <2>1 DEF InHandOnly, Attached
  <2>7. \A f \in Files : blobs[f] # "none" => F!HasRow(f)
    BY <2>1 DEF InHandOnly
  <2>8. \A f \in Wanted : f \in Files
    BY <2>5 DEF Attached
  <2> QED BY <2>4, <2>5, <2>6, <2>7, <2>8
<1>2. ServiceInit => Init
  BY DEF ServiceInit
<1>3. Reliable
  BY DEF OnlyFetchesFail
<1> QED BY PipeInit, PipeStep, DeliveryInit, DeliveryStep, LossInit, LossStep, ServeInit,
           ServeStep, ServePipes, HandsInit, HandsStep, <1>1, <1>2, <1>3, PTL
        DEF ServiceSpec
-----------------------------------------------------------------------------
(***************************************************************************)
(* What the two halves of serve promise by themselves, of serve.           *)
(***************************************************************************)

\* Whatever a turn does with attachments, and wherever it is cut short, the rows
\* are as the live path alone would write them: a channel before its messages,
\* caches that follow the tables and rows that Slack published.
THEOREM ServeKeepsRows ==
    ServiceSpec => /\ []ChannelBeforeMessage /\ []SeenIsWritten
                   /\ CachedRowsStay /\ ImplementsMirror
BY ServeRunsPipeline, ChannelsComeFirst, CachesFollowTables, CachedNamesStay,
   RowsImplementMirror

\* So no row of serve goes back to an older version unless Slack redelivers ...
THEOREM ServeNeverOlder ==
    ASSUME MaxResent = 0
    PROVE  ServiceSpec => NeverOlder
BY ServeRunsPipeline, RowsNeverOlder

\* ... and one differs from Slack only by an event that was lost or came twice.
THEOREM ServeDivergesOnlyByLossOrRetry ==
    ASSUME Past = {}
    PROVE  ServiceSpec => []DivergesOnlyByLossOrRetry
BY ServeRunsPipeline, RowsDivergeOnlyByLossOrRetry

\* FileMirror once more, with the theorems about it.
FP == INSTANCE FileMirrorProofs WITH
          Workers <- {Consumer}, Messages <- Messages, Files <- Files,
          None <- None, Faults <- FileFaults, LocalBlobs <- LocalBlobs,
          messages <- Rows, files <- files, edges <- edges, blobs <- blobs,
          job <- job

(* Its assumptions hold of serve, which is its only worker.                *)
LEMMA ServeIsAWorker == FP!FileMirrorAssumption /\ FP!SingleWriter
BY ServiceAssumption DEF FP!FileMirrorAssumption, FP!FaultKinds, FP!SingleWriter

(* Both instances have the same steps.                                     *)
LEMMA SameSteps ==
    /\ F!Work(Consumer) <=> FP!Work(Consumer)
    /\ F!Fault(Consumer) <=> FP!Fault(Consumer)
    /\ F!Next <=> FP!Next
<1> USE DEF F!UpsertMessage, F!DeleteMessage, F!ReconcileMessageFiles, F!DeleteBlob,
            F!UpsertFile, F!LinkFile, F!LinkFails, F!Skip, F!Fail, F!Get, F!Put,
            F!SetFileStored, F!Finish, F!DbAborts, F!DbReplyLost, F!DbIgnored,
            F!DbStoreFails, F!GetFails, F!PutFails, F!DeleteBlobFails, F!Crash,
            F!Pc, F!Cur, F!HasRow, F!Updated, F!Goto, F!Done, F!Stop, F!Idle, F!NoRow,
            F!Orphans, F!Gone, F!Collect, F!gcOrphans, F!Recorded, F!CanLink,
            F!SetFileState, F!Stored,
            FP!UpsertMessage, FP!DeleteMessage, FP!ReconcileMessageFiles, FP!DeleteBlob,
            FP!UpsertFile, FP!LinkFile, FP!LinkFails, FP!Skip, FP!Fail, FP!Get, FP!Put,
            FP!SetFileStored, FP!Finish, FP!DbAborts, FP!DbReplyLost, FP!DbIgnored,
            FP!DbStoreFails, FP!GetFails, FP!PutFails, FP!DeleteBlobFails, FP!Crash,
            FP!Pc, FP!Cur, FP!HasRow, FP!Updated, FP!Goto, FP!Done, FP!Stop, FP!Idle,
            FP!NoRow, FP!Orphans, FP!Gone, FP!Collect, FP!gcOrphans, FP!Recorded,
            FP!CanLink, FP!SetFileState, FP!Stored
<1>1. F!Work(Consumer) <=> FP!Work(Consumer)
  BY Zenon DEF F!Work, FP!Work
<1>2. F!Fault(Consumer) <=> FP!Fault(Consumer)
  BY Zenon DEF F!Fault, FP!Fault
<1>3. F!Next <=> FP!Next
  BY Zenon DEF F!Next, FP!Next, F!StartUpsert, FP!StartUpsert, F!StartDelete,
               FP!StartDelete, F!Work, FP!Work, F!Fault, FP!Fault
<1> QED BY <1>1, <1>2, <1>3

(* And the same start.                                                     *)
LEMMA SameStart == (F!Init <=> FP!Init) /\ F!vars = FP!vars
BY DEF F!Init, FP!Init, F!Idle, FP!Idle, F!NoRow, FP!NoRow, F!vars, FP!vars

(* So a behaviour of serve is one of that instance.                        *)
LEMMA ServeIsAJob == ServiceSpec => FP!Spec
<1>1. ServiceInit => FP!Init
  BY SameStart DEF ServiceInit
<1>2. [ServiceNext]_serviceVars => [FP!Next]_(FP!vars)
  BY StepMirrors, SameSteps, SameStart DEF F!vars, FP!vars
<1> QED BY <1>1, <1>2, PTL DEF ServiceSpec, FP!Spec

\* The file rows, edges and objects that serve leaves, whatever fails, is cut
\* short or comes twice: an edge joins two rows, a row with a URI has an object,
\* an object goes only when nothing claims it, the last edge takes the row with
\* it, and a turn without failure mirrors its message in full.
THEOREM ServeKeepsFiles ==
    ServiceSpec => /\ []F!RefIntegrity /\ []F!UriHasBlob
                   /\ F!CollectsOnlyUnclaimed /\ F!LastEdgeCollects
                   /\ F!CleanJobMirrors
<1>1. FP!Spec => /\ []FP!RefIntegrity /\ []FP!UriHasBlob
                 /\ FP!CollectsOnlyUnclaimed /\ FP!LastEdgeCollects
                 /\ FP!CleanJobMirrors
  BY ServeIsAWorker, FP!EdgesJoinRows, FP!UrisHaveBlobs, FP!OnlyUnclaimedGo,
     FP!LastEdgeTakesRow, FP!CleanJobsMirror
<1>2. F!RefIntegrity <=> FP!RefIntegrity
  BY DEF F!RefIntegrity, FP!RefIntegrity, F!HasRow, FP!HasRow
<1>3. F!UriHasBlob <=> FP!UriHasBlob
  BY DEF F!UriHasBlob, FP!UriHasBlob
<1>4. F!CollectsOnlyUnclaimed <=> FP!CollectsOnlyUnclaimed
  BY DEF F!CollectsOnlyUnclaimed, FP!CollectsOnlyUnclaimed, F!HasRow, FP!HasRow,
         F!vars, FP!vars
<1>5. F!LastEdgeCollects <=> FP!LastEdgeCollects
  BY DEF F!LastEdgeCollects, FP!LastEdgeCollects, F!HasRow, FP!HasRow,
         F!vars, FP!vars
<1>6. F!CleanJobMirrors <=> FP!CleanJobMirrors
  BY DEF F!CleanJobMirrors, FP!CleanJobMirrors, F!Finish, FP!Finish, F!Mirrored,
         FP!Mirrored, F!Stop, FP!Stop, F!Idle, FP!Idle, F!Pc, FP!Pc, F!vars, FP!vars
<1> QED BY <1>1, <1>2, <1>3, <1>4, <1>5, <1>6, ServeIsAJob, PTL

\* A turn with n attachments makes at most 7n + 3 calls to the store, the file
\* server and the blob store: no attachment holds the loop up for ever.
THEOREM TurnsRunOut ==
    ASSUME IsFiniteSet(Files)
    PROVE  ServiceSpec => []FP!EndInSight /\ FP!EveryCallCounts
<1>1. FP!IsFiniteSet(Files)
  BY DEF IsFiniteSet, FP!IsFiniteSet
<1> QED BY <1>1, ServeIsAWorker, ServeIsAJob, FP!JobsRunOut
-----------------------------------------------------------------------------
(***************************************************************************)
(* The loop drains.  What it has left to do is a number: a share for each  *)
(* event that waits, and what remains of the turn, on both its sides.      *)
(***************************************************************************)

(* The statements left to the call of a turn, and its end.                 *)
CallLeft(pc) == CASE pc = "channel"              -> 4
                  [] pc = "user"                 -> 3
                  [] pc \in {"upsert", "delete"} -> 2
                  [] pc \in {"done", "error"}    -> 1
                  [] OTHER                       -> 0

FilesLeft == FP!StepsLeft(Consumer)

(* No event takes more: to take it, its call, its attachments.             *)
PerEvent == FP!Longest + 5

LoopLeft == PerEvent * Len(events) + CallLeft(call[Consumer].pc) + FilesLeft

\* The loop can take a step: the guards of Goes, written out.
LoopCanGo ==
    /\ proc # "down"
    /\ \/ call[Consumer].pc = "idle" /\ events # <<>>
       \/ call[Consumer].pc \in {"channel", "user"}
       \/ call[Consumer].pc \in {"upsert", "delete"} /\ Turn.pc = call[Consumer].pc
       \/ /\ call[Consumer].pc = "done"
          /\ Turn.pc \notin {"idle", "upsert", "delete"}
          /\ Turn.pc = "gc" => Turn.gc # {}
       \/ call[Consumer].pc \in {"done", "error"} /\ Turn.pc = "idle"

\* The loop has something left exactly if there is a step that it can take.
LoopGoesOn == LoopLeft \in Nat /\ (LoopLeft # 0 <=> LoopCanGo)

\* Each step of a turn, and each failure, leaves less; an exit leaves nothing;
\* only an event that Slack sends, for the first time or again, brings more.
LoopSinks ==
    /\ Goes \/ ApplyFails \/ HandleFails \/ TransferFails => LoopLeft' < LoopLeft
    /\ Ends => LoopLeft' = 0
    /\ Outside => \/ LoopLeft' = LoopLeft
                  \/ Deliver /\ LoopLeft' = LoopLeft + PerEvent

\* A process that is down has nothing in hand, and every turn is counted.
LoopInv == /\ PipeInv /\ ServeInv /\ FP!CountInv
           /\ proc = "down" => /\ events = <<>> /\ call[Consumer].pc = "idle"
                               /\ Turn.pc = "idle"

\* The numbers that are summed up.
Summands ==
    /\ FP!Longest \in Nat
    /\ FilesLeft \in 0..FP!Longest
    /\ FilesLeft = 0 <=> Turn.pc = "idle"
    /\ Turn.pc = "gc" => Turn.gc # {}
    /\ CallLeft(call[Consumer].pc) \in 0..4
    /\ CallLeft(call[Consumer].pc) = 0 <=> call[Consumer].pc = "idle"
    /\ Len(events) \in Nat
    /\ Len(events) = 0 <=> events = <<>>

(* They are numbers, and nothing is left exactly to those that are idle.   *)
LEMMA LoopNumbers ==
    ASSUME IsFiniteSet(Files)
    PROVE  (LoopInv => Summands) /\ (LoopInv' => Summands')
<1>0. SUFFICES LoopInv => Summands
  BY PTL
<1> SUFFICES ASSUME LoopInv PROVE Summands
  OBVIOUS
<1>1. FP!IsFiniteSet(Files)
  BY DEF IsFiniteSet, FP!IsFiniteSet
<1>2. FP!EndInSight
  BY <1>1, ServeIsAWorker, FP!CountsInSight DEF LoopInv
<1>3. FP!Longest \in Nat
  <2>1. FP!Cardinality(Files) \in Nat
    BY <1>1, ServeIsAWorker, FP!FS_CardinalityType
  <2> QED BY <2>1 DEF FP!Longest
<1>4. /\ FilesLeft \in 0..FP!Longest
      /\ FilesLeft = 0 <=> Turn.pc = "idle"
      /\ Turn.pc = "gc" => Turn.gc # {}
  <2>1. \A w \in {Consumer} : /\ FP!StepsLeft(w) \in 0..FP!Longest
                              /\ FP!StepsLeft(w) = 0 <=> FP!Pc(w) = "idle"
                              /\ FP!Pc(w) = "gc" => job[w].gc # {}
    BY <1>2, Zenon DEF FP!EndInSight
  <2>2. FP!Pc(Consumer) = Turn.pc
    BY DEF FP!Pc, Turn
  <2> QED BY <2>1, <2>2, Zenon DEF FilesLeft, Turn
<1>5. call[Consumer].pc \in
          {"idle", "channel", "user", "upsert", "delete", "done", "error"}
  <2>1. CallOK(call[Consumer])
    BY PipelineAssumption DEF LoopInv, PipeInv, Genuine
  <2>2. \A c : CallOK(c) => c.pc \in {"idle"} \cup Positions
    BY DEF CallOK, Positions, Idle
  <2> QED BY <2>1, <2>2 DEF Positions
<1>6. /\ CallLeft(call[Consumer].pc) \in 0..4
      /\ CallLeft(call[Consumer].pc) = 0 <=> call[Consumer].pc = "idle"
  BY <1>5 DEF CallLeft
<1>7. /\ Len(events) \in Nat
      /\ Len(events) = 0 <=> events = <<>>
  BY DEF LoopInv, PipeInv, Genuine
<1> QED BY <1>3, <1>4, <1>6, <1>7 DEF Summands

(* A call or a failure of the file job is one less for it.                 *)
LEMMA JobSinks ==
    ASSUME IsFiniteSet(Files), LoopInv, [ServiceNext]_serviceVars,
           F!Work(Consumer) \/ F!Fault(Consumer)
    PROVE  FilesLeft' < FilesLeft
<1>1. FP!IsFiniteSet(Files)
  BY DEF IsFiniteSet, FP!IsFiniteSet
<1>2. [FP!Next]_(FP!vars)
  BY StepMirrors, SameSteps, SameStart DEF F!vars, FP!vars
<1>3. FP!Work(Consumer) \/ FP!Fault(Consumer)
  BY SameSteps
<1>4. FP!StepsLeft(Consumer)' < FP!StepsLeft(Consumer)
  BY <1>1, <1>2, <1>3, ServeIsAWorker, FP!CallsCount DEF LoopInv
<1> QED BY <1>4 DEF FilesLeft

(* Steps that leave the job alone leave what it has to do.                 *)
LEMMA JobStays ==
    ASSUME UNCHANGED job PROVE FilesLeft' = FilesLeft
BY DEF FilesLeft, FP!StepsLeft, FP!CallsLeft, FP!CallsAround

(* What every step keeps.                                                  *)
LEMMA LoopStep ==
    ASSUME IsFiniteSet(Files), LoopInv, [ServiceNext]_serviceVars
    PROVE  LoopInv'
<1>1. PipeInv' /\ ServeInv'
  BY ServePipes, PipeStep, ServeStep DEF LoopInv
<1>2. FP!CountInv'
  <2>1. FP!IsFiniteSet(Files)
    BY DEF IsFiniteSet, FP!IsFiniteSet
  <2>2. [FP!Next]_(FP!vars)
    BY StepMirrors, SameSteps, SameStart DEF F!vars, FP!vars
  <2> QED BY <2>1, <2>2, ServeIsAWorker, FP!CountStep DEF LoopInv
<1>3. ASSUME proc' = "down"
      PROVE  events' = <<>> /\ call'[Consumer].pc = "idle"
  <2>1. CASE proc = "down"
    <3>1. /\ events = <<>> /\ call[Consumer].pc = "idle"
          /\ [Next]_vars
      BY <2>1, ServePipes DEF LoopInv
    <3>2. UNCHANGED <<events, call>>
      BY <1>3, <2>1, <3>1
         DEF Next, Deliver, PublishWrite, PublishRemove, Publish, Redeliver, Loop, Take,
             Step, Return, StepFails, Sigterm, Exit, Restart, WriteFails, AtStatement,
             vars
    <3> QED BY <3>1, <3>2
  <2>2. CASE proc # "down"
    <3>1. Exit
      BY <1>3, <2>2, ServePipes
         DEF Next, Deliver, PublishWrite, PublishRemove, Publish, Redeliver, Loop, Take,
             Step, Return, StepFails, Sigterm, Exit, Restart, delivery, vars
    <3> QED BY <3>1, PipelineAssumption DEF Exit, Idle, LoopInv, PipeInv, TypeInv
  <2> QED BY <2>1, <2>2
<1>4. call'[Consumer].pc = "idle" => Turn'.pc = "idle"
  BY <1>1 DEF ServeInv, Paired, Turn
<1> QED BY <1>1, <1>2, <1>3, <1>4 DEF LoopInv, Turn

(* Where the call of a turn stands after a statement, or after a failed one. *)
LEMMA CallMoves ==
    ASSUME PipeInv, NEW pc, Goto(Consumer, pc),
           call[Consumer].pc \in {"channel", "user", "upsert", "delete"}
    PROVE  call'[Consumer].pc = pc
<1>1. CallOK(call[Consumer]) /\ Consumer \in DOMAIN call
  BY PipelineAssumption DEF PipeInv, Genuine, TypeInv
<1>2. call'[Consumer] = [call[Consumer] EXCEPT !.pc = pc]
  BY <1>1 DEF Goto
<1>3. CASE call[Consumer].pc = "delete"
  <2>1. PICK m \in gone : call[Consumer] = [pc |-> "delete", act |-> ActionDelete(m)]
    BY <1>1, <1>3, DeleteCall
  <2> QED BY <1>2, <2>1
<1>4. CASE call[Consumer].pc # "delete"
  <2>1. call[Consumer] = [pc |-> call[Consumer].pc, act |-> call[Consumer].act]
    BY <1>1, <1>4, UpsertCall
  <2> QED BY <1>2, <2>1
<1> QED BY <1>3, <1>4

(* The sum goes down with either side of the turn.                         *)
LEMMA SumSinks ==
    ASSUME IsFiniteSet(Files), LoopInv, LoopInv', events' = events,
           CallLeft(call'[Consumer].pc) <= CallLeft(call[Consumer].pc),
           FilesLeft' <= FilesLeft,
           \/ CallLeft(call'[Consumer].pc) < CallLeft(call[Consumer].pc)
           \/ FilesLeft' < FilesLeft
    PROVE  LoopLeft' < LoopLeft
<1> DEFINE c == CallLeft(call[Consumer].pc)
           d == CallLeft(call'[Consumer].pc)
           k == PerEvent * Len(events)
           f == FilesLeft
           g == FilesLeft'
<1>1. /\ FilesLeft \in Nat /\ FilesLeft' \in Nat /\ c \in Nat /\ d \in Nat
  <2>1. /\ FP!Longest \in Nat /\ FilesLeft \in 0..FP!Longest /\ c \in 0..4
    BY LoopNumbers DEF Summands
  <2>2. /\ FP!Longest \in Nat /\ FilesLeft' \in 0..FP!Longest /\ d \in 0..4
    BY LoopNumbers DEF Summands, FP!Longest, CallLeft
  <2> QED BY <2>1, <2>2
<1>2. k \in Int
  <2>1. PerEvent \in Int /\ Len(events) \in Int
    BY LoopNumbers DEF PerEvent, Summands
  <2> QED BY <2>1
<1>3. LoopLeft = k + c + f
  BY DEF LoopLeft
<1>4. LoopLeft' = k + d + g
  BY DEF LoopLeft, CallLeft, PerEvent, FP!Longest
<1>5. d <= c /\ g <= f /\ (d < c \/ g < f)
  OBVIOUS
<1>6. f \in Nat /\ g \in Nat /\ c \in Nat /\ d \in Nat
  BY <1>1
<1> HIDE DEF c, d, k, f, g
<1>7. k + d + g < k + c + f
  BY <1>2, <1>5, <1>6
<1> QED BY <1>3, <1>4, <1>7

(* The statement of a turn, and where it leads.                            *)
LEMMA StatementMoves ==
    ASSUME PipeInv, Apply(Consumer) \/ WriteFails(Consumer)
    PROVE  CallLeft(call'[Consumer].pc) < CallLeft(call[Consumer].pc)
<1>1. CASE EnsureChannel(Consumer)
  <2>1. call[Consumer].pc = "channel" /\ Goto(Consumer, "user")
    BY <1>1 DEF EnsureChannel
  <2>2. call'[Consumer].pc = "user"
    BY <2>1, CallMoves
  <2> QED BY <2>1, <2>2 DEF CallLeft
<1>2. CASE EnsureUser(Consumer)
  <2>1. call[Consumer].pc = "user" /\ Goto(Consumer, "upsert")
    BY <1>2 DEF EnsureUser
  <2>2. call'[Consumer].pc = "upsert"
    BY <2>1, CallMoves
  <2> QED BY <2>1, <2>2 DEF CallLeft
<1>3. CASE UpsertMessage(Consumer) \/ DeleteMessage(Consumer)
  <2>1. call[Consumer].pc \in {"upsert", "delete"} /\ Goto(Consumer, "done")
    BY <1>3 DEF UpsertMessage, DeleteMessage
  <2>2. call'[Consumer].pc = "done"
    BY <2>1, CallMoves
  <2> QED BY <2>1, <2>2 DEF CallLeft
<1>4. CASE WriteFails(Consumer)
  <2>1. /\ call[Consumer].pc \in {"channel", "user", "upsert", "delete"}
        /\ Goto(Consumer, "error")
    BY <1>4 DEF WriteFails, AtStatement
  <2>2. call'[Consumer].pc = "error"
    BY <2>1, CallMoves
  <2> QED BY <2>1, <2>2 DEF CallLeft
<1> QED BY <1>1, <1>2, <1>3, <1>4 DEF Apply

(* Taking an event spends the share of that event.                         *)
LEMMA TakeSinks ==
    ASSUME IsFiniteSet(Files), LoopInv, LoopInv', TakeEvent
    PROVE  LoopLeft' < LoopLeft
<1> DEFINE d == CallLeft(call'[Consumer].pc)
           g == FilesLeft'
           n == Len(events)
           k == PerEvent
<1>1. /\ FP!Longest \in Nat /\ g \in 0..FP!Longest /\ d \in 0..4
  BY LoopNumbers DEF Summands, FP!Longest, CallLeft
<1>2. /\ n \in Nat /\ k \in Nat /\ k = FP!Longest + 5
  BY LoopNumbers DEF Summands, PerEvent
<1>3. /\ call[Consumer].pc = "idle" /\ Turn.pc = "idle"
      /\ events # <<>> /\ events' = Tail(events)
  BY DEF TakeEvent, Take, LoopInv, ServeInv, Paired
<1>4. Len(events') = n - 1
  BY <1>3 DEF LoopInv, PipeInv, Genuine
<1>5. LoopLeft = k * n
  <2>1. FilesLeft = 0 /\ CallLeft(call[Consumer].pc) = 0
    BY <1>3, LoopNumbers DEF Summands
  <2> QED BY <1>2, <2>1 DEF LoopLeft
<1>6. LoopLeft' = k * (n - 1) + d + g
  BY <1>4 DEF LoopLeft, CallLeft, PerEvent, FP!Longest
<1>7. k * (n - 1) = k * n - k /\ k * n \in Int
  BY <1>2
<1> DEFINE t == k * (n - 1)
           s == k * n
           l == FP!Longest
<1>8. t = s - k /\ s \in Int /\ k = l + 5 /\ l \in Nat /\ d \in 0..4 /\ g \in 0..l
  BY <1>1, <1>2, <1>7
<1>9. LoopLeft = s /\ LoopLeft' = t + d + g
  BY <1>5, <1>6
<1> HIDE DEF d, g, k, n, t, s, l
<1>10. t + d + g < s
  BY <1>8
<1> QED BY <1>9, <1>10

(* Each step of a turn, and each failure, leaves less.                     *)
LEMMA GoesSinks ==
    ASSUME IsFiniteSet(Files), LoopInv, LoopInv',
           Goes \/ ApplyFails \/ HandleFails \/ TransferFails
    PROVE  LoopLeft' < LoopLeft
<1> DEFINE c == CallLeft(call[Consumer].pc)
           d == CallLeft(call'[Consumer].pc)
<1>0. [ServiceNext]_serviceVars /\ PipeInv
  BY DEF ServiceNext, LoopInv
<1>1. c \in Int /\ d \in Int /\ FilesLeft \in Int /\ FilesLeft' \in Int
  <2>1. /\ FP!Longest \in Nat /\ FilesLeft \in 0..FP!Longest /\ c \in 0..4
    BY LoopNumbers DEF Summands
  <2>2. /\ FilesLeft' \in 0..FP!Longest /\ d \in 0..4
    BY LoopNumbers DEF Summands, FP!Longest, CallLeft
  <2> QED BY <2>1, <2>2
<1>2. CASE TakeEvent
  BY <1>2, TakeSinks
<1>3. CASE Ensures
  <2>1. events' = events /\ FilesLeft' = FilesLeft
    BY <1>3, JobStays DEF Ensures, Step, delivery, fileVars
  <2>2. d < c
    BY <1>0, <1>3, StatementMoves DEF Ensures, Step
  <2> QED BY <1>1, <2>1, <2>2, SumSinks
<1>4. CASE Upserts \/ Deletes
  <2>1. events' = events /\ F!Work(Consumer)
    BY <1>4 DEF Upserts, Deletes, Step, delivery, F!Work
  <2>2. d < c
    BY <1>0, <1>4, StatementMoves DEF Upserts, Deletes, Step
  <2>3. FilesLeft' < FilesLeft
    BY <1>0, <2>1, JobSinks
  <2> QED BY <1>1, <2>1, <2>2, <2>3, SumSinks
<1>5. CASE Handles \/ HandleFails \/ TransferFails
  <2>1. F!Work(Consumer) \/ F!Fault(Consumer)
    BY <1>5 DEF Handles, HandleFails, TransferFails, vars, F!Fault
  <2>2. UNCHANGED <<events, call>>
    BY <1>5 DEF Handles, HandleFails, TransferFails, vars
  <2>3. d = c
    BY <2>2
  <2>4. FilesLeft' < FilesLeft
    BY <1>0, <2>1, JobSinks
  <2> QED BY <1>1, <2>2, <2>3, <2>4, SumSinks
<1>6. CASE ApplyFails
  <2>1. events' = events /\ F!Fault(Consumer)
    BY <1>6 DEF ApplyFails, StepFails, delivery, F!Fault
  <2>2. d < c
    BY <1>0, <1>6, StatementMoves DEF ApplyFails, StepFails
  <2>3. FilesLeft' < FilesLeft
    BY <1>0, <2>1, JobSinks
  <2> QED BY <1>1, <2>1, <2>2, <2>3, SumSinks
<1>7. CASE Returns
  <2>1. events' = events /\ FilesLeft' = FilesLeft
    BY <1>7, JobStays DEF Returns, Return, fileVars
  <2>2. call'[Consumer] = Idle /\ call[Consumer].pc \in {"done", "error"}
    BY <1>0, <1>7, PipelineAssumption DEF Returns, Return, PipeInv, TypeInv
  <2>3. d < c
    BY <2>2 DEF CallLeft, Idle
  <2> QED BY <1>1, <2>1, <2>3, SumSinks
<1> QED BY <1>2, <1>3, <1>4, <1>5, <1>6, <1>7 DEF Goes

(* An exit leaves nothing to do.                                           *)
LEMMA EndsSinks ==
    ASSUME IsFiniteSet(Files), LoopInv, LoopInv', Ends
    PROVE  LoopLeft' = 0
<1>1. events' = <<>> /\ call'[Consumer].pc = "idle"
  BY PipelineAssumption DEF Ends, Exit, LoopInv, PipeInv, TypeInv, Idle
<1>2. Turn'.pc = "idle"
  <2>1. ServeInv'
    BY DEF LoopInv
  <2> QED BY <1>1, <2>1 DEF ServeInv, Paired, Turn
<1>3. FilesLeft' = 0
  BY <1>2, LoopNumbers DEF Summands, Turn
<1>4. CallLeft(call'[Consumer].pc) = 0 /\ Len(events') = 0
  BY <1>1 DEF CallLeft
<1>5. PerEvent \in Nat
  BY LoopNumbers DEF Summands, PerEvent
<1>6. LoopLeft' = PerEvent * Len(events') + CallLeft(call'[Consumer].pc) + FilesLeft'
  BY DEF LoopLeft, CallLeft, PerEvent, FP!Longest
<1> QED BY <1>3, <1>4, <1>5, <1>6

(* What comes from outside is one event, or leaves what there is.          *)
LEMMA OutsideAdds ==
    ASSUME IsFiniteSet(Files), LoopInv, LoopInv', Outside
    PROVE  \/ LoopLeft' = LoopLeft
           \/ Deliver /\ LoopLeft' = LoopLeft + PerEvent
<1> DEFINE c == CallLeft(call[Consumer].pc)
           k == PerEvent
           n == Len(events)
           f == FilesLeft
<1>1. UNCHANGED call /\ FilesLeft' = f
  BY JobStays DEF Outside, fileVars, Deliver, PublishWrite, PublishRemove, Publish,
                  Redeliver, Sigterm, Restart
<1>2. LoopLeft = k * n + c + f
  BY DEF LoopLeft
<1>3. LoopLeft' = k * Len(events') + c + f
  BY <1>1 DEF LoopLeft, CallLeft, PerEvent, FP!Longest
<1>4. \/ events' = events
      \/ Deliver /\ \E ev : events' = Append(events, ev)
  BY DEF Outside, Deliver, PublishWrite, PublishRemove, Publish, Redeliver, Sigterm,
         Restart
<1>5. CASE events' = events
  BY <1>2, <1>3, <1>5
<1>6. CASE Deliver /\ \E ev : events' = Append(events, ev)
  <2>1. Len(events') = n + 1
    BY <1>6 DEF LoopInv, PipeInv, Genuine
  <2>2. n \in Nat /\ k \in Nat /\ c \in Nat /\ f \in Nat
    BY LoopNumbers DEF Summands, PerEvent
  <2> HIDE DEF n, k, c, f
  <2>3. k * (n + 1) = k * n + k /\ k * n \in Int
    BY <2>2
  <2>4. LoopLeft' = k * n + k + c + f
    BY <1>3, <2>1, <2>3
  <2>5. LoopLeft' = LoopLeft + k
    BY <1>2, <2>2, <2>3, <2>4
  <2> QED BY <1>6, <2>5 DEF k
<1> QED BY <1>4, <1>5, <1>6

(* Something is left exactly if there is a step to take.                   *)
LEMMA LoopGoes ==
    ASSUME IsFiniteSet(Files), LoopInv
    PROVE  LoopGoesOn
<1> DEFINE c == CallLeft(call[Consumer].pc)
           k == PerEvent
           n == Len(events)
           f == FilesLeft
           t == k * n
<1>1. Summands
  BY LoopNumbers
<1>2. n \in Nat /\ k \in Nat /\ k # 0 /\ c \in Nat /\ f \in Nat
  BY <1>1 DEF Summands, PerEvent
<1>3. t \in Nat /\ (t = 0 <=> n = 0)
  BY <1>2
<1>4. LoopLeft = t + c + f
  BY DEF LoopLeft
<1>5. LoopLeft \in Nat /\ (LoopLeft = 0 <=> n = 0 /\ c = 0 /\ f = 0)
  <2> HIDE DEF n, k, c, f, t
  <2> QED BY <1>2, <1>3, <1>4
<1>6. LoopLeft = 0 <=> /\ events = <<>> /\ call[Consumer].pc = "idle"
                       /\ Turn.pc = "idle"
  BY <1>1, <1>5 DEF Summands
<1>7. call[Consumer].pc \in {"idle"} \cup Positions
  <2>1. CallOK(call[Consumer])
    BY PipelineAssumption DEF LoopInv, PipeInv, Genuine
  <2>2. \A j : CallOK(j) => j.pc \in {"idle"} \cup Positions
    BY DEF CallOK, Positions, Idle
  <2> QED BY <2>1, <2>2
<1>8. Paired /\ (Turn.pc = "gc" => Turn.gc # {})
      /\ (proc = "down" => /\ events = <<>> /\ call[Consumer].pc = "idle"
                           /\ Turn.pc = "idle")
  BY <1>1 DEF LoopInv, ServeInv, Summands
<1>9. LoopCanGo <=> ~(events = <<>> /\ call[Consumer].pc = "idle" /\ Turn.pc = "idle")
  BY <1>7, <1>8 DEF LoopCanGo, Paired, Positions
<1> QED BY <1>5, <1>6, <1>9 DEF LoopGoesOn

\* serve gets through what Slack sends it: an event costs the loop at most
\* 7n + 8 steps, with n the number of files; a turn under way, or an event in
\* the channel, always has a step that the loop can take; each step of a turn,
\* failed or not, leaves less to do; and nothing but Slack adds to it.
THEOREM LoopDrains ==
    ASSUME IsFiniteSet(Files)
    PROVE  ServiceSpec => []LoopGoesOn /\ [][LoopSinks]_serviceVars
<1>1. ServiceInit => LoopInv
  <2> SUFFICES ASSUME ServiceInit PROVE LoopInv
    OBVIOUS
  <2>1. PipeInv /\ ServeInv
    BY PipeInit, ServeInit DEF ServiceInit
  <2>2. FP!CountInv
    BY SameStart, ServeIsAWorker, FP!CountInit DEF ServiceInit
  <2>3. proc = "up"
    BY DEF ServiceInit, Init
  <2> QED BY <2>1, <2>2, <2>3 DEF LoopInv
<1>2. LoopInv /\ [ServiceNext]_serviceVars => LoopInv'
  BY LoopStep
<1>3. LoopInv => LoopGoesOn
  BY LoopGoes
<1>4. LoopInv /\ LoopInv' /\ [ServiceNext]_serviceVars => [LoopSinks]_serviceVars
  BY GoesSinks, EndsSinks, OutsideAdds DEF LoopSinks
<1> QED BY <1>1, <1>2, <1>3, <1>4, PTL DEF ServiceSpec
=============================================================================
