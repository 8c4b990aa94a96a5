--------------------------- MODULE LiveBackfill ---------------------------
(***************************************************************************)
(* `serve` and `backfill` side by side on one Postgres database: the steps *)
(* of both processes interleave, and each keeps a resolver cache.          *)
(***************************************************************************)
EXTENDS EventPipeline, Backfill

ASSUME TwoProcesses == Consumer # Backfiller

VARIABLE overtaken  \* history: messages changed while backfill held a copy

allVars == <<vars, run, overtaken>>

\* Every variable of both processes holds values of its kind.
BothTypeOK == TypeOK /\ BackfillTypeOK /\ overtaken \subseteq Messages

\* The copies that the run still has to write, or is writing: the message
\* whose thread is being read was written before.
Held == LET written == IF run.pc \in {"replies", "thread page", "reply"}
                       THEN {Current} ELSE {}
        IN  {s.ts : s \in (run.page \ written) \cup run.replies}

BothInit == Init /\ run = OffRun /\ overtaken = {}

Changed == {m \in Messages : version'[m] # version[m] \/ m \in gone' \ gone}

ServeStep ==
    /\ Next
    /\ overtaken' = overtaken \cup (Changed \cap Held)
    /\ UNCHANGED run

BackfillStep == BackfillNext /\ UNCHANGED <<delivery, overtaken>>

BothNext == ServeStep \/ BackfillStep

BothSpec == BothInit /\ [][BothNext]_allVars

BothFairSpec ==
    BothSpec /\ WF_vars(Loop /\ UNCHANGED <<run, overtaken>>) /\ BackfillFair
-----------------------------------------------------------------------------
\* A message of the history window, or a reply in one of its threads, that
\* Slack showed when a run began and still shows is in the mirror when that
\* run is done, in the version shown then or a later one: paging misses
\* nothing, whatever is posted, edited or removed between two pages.
MissesNothing ==
    (run.pc = "done" /\ Quiet) =>
        \A m \in Visible :
            SubtypePersisted(SubtypeOf[m]) => messages[m] >= run.since[m]

\* A row disagrees with Slack only if the message changed while backfill held
\* a copy of it, or it was posted before the mirror ran and is not yet there.
DivergesOnlyIfOvertaken ==
    (Quiet /\ run.pc \in {"off", "done"}) => \A m \in Messages :
        \/ messages[m] = Expected(m)
        \/ m \in overtaken
        \/ m \in Past /\ messages[m] = 0
=============================================================================
