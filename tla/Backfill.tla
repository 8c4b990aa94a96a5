----------------------------- MODULE Backfill -----------------------------
(***************************************************************************)
(* One `backfill` process: for each allowlisted channel it pages through   *)
(* the history that Slack shows, upserts every message of a page from the  *)
(* response it holds, and reads the replies of every thread it meets.  The *)
(* workspace, and the live consumer, go on meanwhile.                      *)
(*                                                                         *)
(* The ts of a message is a natural number: history pages run from the     *)
(* newest ts down, reply pages from the oldest up.                         *)
(***************************************************************************)
EXTENDS Apply, Dispatch, FiniteSets

CONSTANTS
    Backfiller,      \* the backfill process
    Oldest,          \* history shows only later messages; 0: all of them
    PageSize,        \* messages per response
    BackfillFaults   \* subset of {"api", "db", "crash"}

\* A thread is not nested, and is in the channel of its parent.
ASSUME BackfillAssumption ==
    /\ Backfiller \in Processes
    /\ Messages \subseteq Nat \ {0} /\ IsFiniteSet(Messages)
    /\ \A m \in Messages : /\ ParentOf[ParentOf[m]] = ParentOf[m]
                           /\ ChannelOf[ParentOf[m]] = ChannelOf[m]
    /\ Oldest \in Nat
    /\ PageSize \in Nat \ {0}

VARIABLE run         \* the local variables of the run

OffRun == [pc |-> "off", todo |-> {}, channel |-> "", cursor |-> 0,
           more |-> FALSE, page |-> {}, after |-> 0, rest |-> FALSE,
           replies |-> {}, since |-> [m \in Messages |-> 0]]

Steps == {"off", "channels", "history", "page", "message",
          "replies", "thread page", "reply", "done", "failed"}

Snapshot == [ts : Messages, subtype : {SubtypeOf[m] : m \in Messages},
             version : 1..MaxVersion, threaded : BOOLEAN]

-----------------------------------------------------------------------------
(***************************************************************************)
(* The Web API, as this code sees it.                                      *)
(***************************************************************************)
Shown(m) == [ts |-> m, subtype |-> SubtypeOf[m], version |-> version[m],
             threaded |-> Replies(m) \cap Visible # {}]

TopLevel(c) == {m \in Visible : ChannelOf[m] = c /\ ParentOf[m] = m /\ m > Oldest}

Newest(S) == {m \in S : Cardinality({n \in S : n > m}) < PageSize}
Eldest(S) == {m \in S : Cardinality({n \in S : n < m}) < PageSize}

Low(S)  == CHOOSE n \in S : \A k \in S : n <= k
High(S) == CHOOSE n \in S : \A k \in S : n >= k

\* The messages a run is asked for: those of the window, with their threads.
InScope(m) == ChannelOf[m] \in Allow /\ ParentOf[m] > Oldest
-----------------------------------------------------------------------------
\* The message of the page, and the reply, whose turn it is.
Current      == CHOOSE s \in run.page : \A t \in run.page : s.ts >= t.ts
CurrentReply == CHOOSE s \in run.replies : \A t \in run.replies : s.ts <= t.ts

\* The local variables of the run hold values of their kind: the copies are of
\* messages Slack can show, one each, and the cursors are where a page ended.
BackfillTypeOK ==
    /\ run.pc \in Steps
    /\ run.todo \subseteq Allow
    /\ run.channel \in Allow \cup {""}
    /\ run.cursor \in Messages \cup {0, High(Messages) + 1}
    /\ run.after \in Messages \cup {0}
    /\ run.more \in BOOLEAN /\ run.rest \in BOOLEAN
    /\ run.page \cup run.replies \subseteq Snapshot
    /\ \A s, t \in run.page : s.ts = t.ts => s = t
    /\ run.since \in [Messages -> 0..MaxVersion]

\* A run begins, perhaps after earlier ones.
Start ==
    /\ run.pc \in {"off", "done", "failed"}
    /\ run' = [OffRun EXCEPT !.pc = "channels", !.todo = Allow,
                 !.since = [m \in Messages |->
                     IF m \in Visible /\ InScope(m) THEN version[m] ELSE 0]]
    /\ UNCHANGED <<store, seen, call, slack>>

NextChannel ==
    /\ run.pc = "channels"
    /\ \E c \in run.todo :
         run' = [run EXCEPT !.pc = "history", !.todo = @ \ {c}, !.channel = c,
                            !.cursor = High(Messages) + 1]
    /\ UNCHANGED <<store, seen, call, slack>>

\* The process exits: its variables and its resolver cache go with it.
Exits(pc, since) ==
    /\ run' = [OffRun EXCEPT !.pc = pc, !.since = since]
    /\ call' = [call EXCEPT ![Backfiller] = Idle]
    /\ seen' = [seen EXCEPT ![Backfiller] = NoneSeen]
    /\ UNCHANGED <<store, slack>>

Complete == run.pc = "channels" /\ run.todo = {} /\ Exits("done", run.since)

\* Mutant: every page is asked for with the first cursor.
GetHistoryCursorLost ==
    /\ run.pc = "history"
    /\ LET shown == Newest(TopLevel(run.channel))
       IN  run' = [run EXCEPT !.pc = "page", !.page = {Shown(m) : m \in shown},
                              !.more = shown # TopLevel(run.channel)]
    /\ UNCHANGED <<store, seen, call, slack>>

\* conversations.history: the newest messages below the cursor.
GetHistory ==
    /\ run.pc = "history"
    /\ LET below == {m \in TopLevel(run.channel) : m < run.cursor}
           shown == Newest(below)
       IN  run' = [run EXCEPT !.pc = "page", !.page = {Shown(m) : m \in shown},
                              !.more = shown # below,
                              !.cursor = IF shown = {} THEN @ ELSE Low(shown)]
    /\ UNCHANGED <<store, seen, call, slack>>

\* upsert: a skipped subtype is passed over, the rest goes through Apply.
upsert(s, pc) ==
    /\ run' = [run EXCEPT !.pc = pc]
    /\ IF SubtypePersisted(s.subtype) THEN Begin(Backfiller, messageToRow(s))
       ELSE call' = [call EXCEPT ![Backfiller].pc = "done"]
    /\ UNCHANGED <<store, seen, slack>>

UpsertMessageOfPage ==
    run.pc = "page" /\ run.page # {} /\ upsert(Current, "message")

NextPage ==
    /\ run.pc = "page"
    /\ run.page = {}
    /\ run' = [run EXCEPT !.pc = IF run.more THEN "history" ELSE "channels",
                       !.more = FALSE]
    /\ UNCHANGED <<store, seen, call, slack>>

ApplyStep ==
    /\ Apply(Backfiller)
    /\ UNCHANGED <<slack, run>>

\* The message is in the mirror: on to its thread, or to the next message.
MessageDone ==
    /\ run.pc = "message"
    /\ call[Backfiller].pc = "done"
    /\ call' = [call EXCEPT ![Backfiller] = Idle]
    /\ IF Current.threaded THEN run' = [run EXCEPT !.pc = "replies"]
       ELSE run' = [run EXCEPT !.pc = "page", !.page = @ \ {Current}]
    /\ UNCHANGED <<store, seen, slack>>

\* conversations.replies: the parent first, then its replies.
GetReplies ==
    /\ run.pc = "replies"
    /\ Current.ts \in Visible
    /\ LET above == {m \in (Replies(Current.ts) \cup {Current.ts}) \cap Visible :
                         m > run.after}
           shown == Eldest(above)
       IN  run' = [run EXCEPT !.pc = "thread page",
                              !.replies = {Shown(m) : m \in shown},
                              !.rest = shown # above,
                              !.after = IF shown = {} THEN @ ELSE High(shown)]
    /\ UNCHANGED <<store, seen, call, slack>>

UpsertReply ==
    run.pc = "thread page" /\ run.replies # {} /\ upsert(CurrentReply, "reply")

ReplyDone ==
    /\ run.pc = "reply"
    /\ call[Backfiller].pc = "done"
    /\ call' = [call EXCEPT ![Backfiller] = Idle]
    /\ run' = [run EXCEPT !.pc = "thread page", !.replies = @ \ {CurrentReply}]
    /\ UNCHANGED <<store, seen, slack>>

\* Mutant: only the first page of replies is read.
NextRepliesFirstPage ==
    /\ run.pc = "thread page"
    /\ run.replies = {}
    /\ run' = [run EXCEPT !.pc = "page", !.page = @ \ {Current}, !.after = 0]
    /\ UNCHANGED <<store, seen, call, slack>>

NextReplies ==
    /\ run.pc = "thread page"
    /\ run.replies = {}
    /\ IF run.rest THEN run' = [run EXCEPT !.pc = "replies"]
       ELSE run' = [run EXCEPT !.pc = "page", !.page = @ \ {Current}, !.after = 0]
    /\ UNCHANGED <<store, seen, call, slack>>
-----------------------------------------------------------------------------
\* The first error ends the run; nothing records how far it got.
Abort == Exits("failed", OffRun.since)

\* A Web API error; the thread whose parent is gone is one in any case.
ReadFails ==
    /\ \/ "api" \in BackfillFaults /\ run.pc \in {"history", "replies"}
       \/ run.pc = "replies" /\ Current.ts \notin Visible
    /\ Abort

ApplyFails ==
    /\ "db" \in BackfillFaults
    /\ WriteFails(Backfiller)
    /\ UNCHANGED <<slack, run>>

\* Handling the attachments of a written message meets an error, or finds that
\* serve has deleted it again: where serve only logs that, the run ends.
HandleFails ==
    /\ run.pc \in {"message", "reply"}
    /\ call[Backfiller].pc = "done"
    /\ LET s == IF run.pc = "message" THEN Current ELSE CurrentReply
       IN  /\ SubtypePersisted(s.subtype)
           /\ "db" \in BackfillFaults \/ messages[s.ts] = 0
    /\ Abort

ApplyError == call[Backfiller].pc = "error" /\ Abort

CrashRun ==
    /\ "crash" \in BackfillFaults
    /\ run.pc \notin {"off", "done", "failed"}
    /\ Abort

Progress ==
    \/ NextChannel \/ Complete \/ GetHistory \/ UpsertMessageOfPage
    \/ NextPage \/ ApplyStep \/ MessageDone \/ GetReplies
    \/ UpsertReply \/ ReplyDone \/ NextReplies \/ ApplyError

BackfillNext ==
    Start \/ Progress \/ ReadFails \/ ApplyFails \/ HandleFails \/ CrashRun

\* The process goes on as long as its calls return; ReadFails covers the
\* only call that has nothing to return.
BackfillFair == WF_<<store, seen, call, run>>(Progress \/ ReadFails)
-----------------------------------------------------------------------------
\* A run that was begun ends, however the workspace moves.
BackfillEnds == run.pc # "off" ~> run.pc \in {"done", "failed"}
=============================================================================
