--------------------------- MODULE EventPipeline ---------------------------
(***************************************************************************)
(* The live path: Slack publishes a change of a message as an event, holds *)
(* its envelope until it is acknowledged, and may deliver it again; the    *)
(* loop of Consumer.Run takes one event at a time from the client's        *)
(* channel, acknowledges it first, and then applies it.                    *)
(***************************************************************************)
EXTENDS Apply, Dispatch, Sequences, FiniteSets, Functions

CONSTANTS
    Consumer,      \* the serve process
    EventTS,       \* the ts of an edit or delete event itself: no message
    MaxResent      \* bound: envelopes delivered once more

\* What Slack shows as a message is never itself an edit or a delete of one.
ASSUME PipelineAssumption ==
    /\ Consumer \in Processes
    /\ \A m \in Messages : SubtypeOf[m] \notin {subtypeChanged, subtypeDeleted}
    /\ EventTS \notin Messages
    /\ MaxResent \in Nat

VARIABLES
    unacked,        \* envelopes Slack still holds
    resent,         \* the envelopes that were delivered once more
    events,         \* the buffered channel client.Events
    current,        \* the event being handled, as a set
    proc,           \* the process: "up", "stopping" (context cancelled), "down"
    lost            \* history: events taken whose handling did not succeed

delivery == <<unacked, resent, events, current, proc, lost>>
vars == <<channels, users, messages, seen, call, version, gone, published,
          unacked, resent, events, current, proc, lost>>

Init ==
    /\ ApplyInit
    /\ SlackInit
    /\ unacked = {}
    /\ resent = {}
    /\ events = <<>>
    /\ current = {}
    /\ proc = "up"
    /\ lost = {}
-----------------------------------------------------------------------------
(***************************************************************************)
(* Slack.  A new message carries its fields at the top; an edit carries    *)
(* the message inside an event with a ts of its own; a delete names the    *)
(* deleted ts.                                                             *)
(***************************************************************************)
Posted(m) == [ts |-> m, subtype |-> SubtypeOf[m], version |-> 1]

Edited(m, v) == [ts |-> EventTS, subtype |-> subtypeChanged,
                 message |-> [ts |-> m, subtype |-> SubtypeOf[m], version |-> v]]

Deleted(m) == [ts |-> EventTS, subtype |-> subtypeDeleted, deletedTS |-> m]

About(ev) == CASE ev.subtype = subtypeChanged -> ev.message.ts
               [] ev.subtype = subtypeDeleted -> ev.deletedTS
               [] OTHER -> ev.ts

\* Every event that Slack can publish about the messages.
Event ==
    {Posted(m) : m \in Messages}
      \cup {Edited(m, v) : m \in Messages, v \in 1..MaxVersion}
      \cup {Deleted(m) : m \in Messages}

\* Every variable of the live path holds values of its kind: what is on its
\* way are events about the messages, and the loop has at most one in hand.
TypeOK ==
    /\ ApplyTypeOK
    /\ SlackTypeOK
    /\ unacked \subseteq Event
    /\ resent \subseteq Event /\ Cardinality(resent) <= MaxResent
    /\ events \in Seq(Event)
    /\ current \in {{}} \cup {{ev} : ev \in Event}
    /\ lost \subseteq Event
    /\ proc \in {"up", "stopping", "down"}

\* Slack sends the event to the connected process and keeps the envelope.
Publish(ev) ==
    /\ unacked' = unacked \cup {ev}
    /\ events' = IF proc = "down" THEN events ELSE Append(events, ev)
    /\ UNCHANGED <<store, seen, call, resent, current, proc, lost>>

PublishWrite(m) ==
    /\ Write(m)
    /\ Publish(IF version[m] = 0 THEN Posted(m) ELSE Edited(m, version[m] + 1))

PublishRemove(m) == Remove(m) /\ Publish(Deleted(m))

\* No acknowledgement has come in time: the envelope is sent once more.
Redeliver ==
    /\ proc # "down"
    /\ \E ev \in unacked \ resent :
         /\ events' = Append(events, ev)
         /\ resent' = resent \cup {ev}
    /\ Cardinality(resent) < MaxResent
    /\ UNCHANGED <<store, seen, call, slack, unacked, current, proc, lost>>
-----------------------------------------------------------------------------
\* Mutant: events are handled in any order, as by a goroutine for each.
TakeAny ==
    /\ proc # "down"
    /\ call[Consumer].pc = "idle"
    /\ \E i \in DOMAIN events :
         /\ unacked' = unacked \ {events[i]}
         /\ current' = {events[i]}
         /\ Begin(Consumer, Dispatch(ChannelOf[About(events[i])], events[i]))
         /\ events' = SubSeq(events, 1, i - 1) \o SubSeq(events, i + 1, Len(events))
    /\ UNCHANGED <<store, seen, slack, resent, proc, lost>>

\* One turn of the loop: acknowledge the envelope, then dispatch the event.
\* A cancelled context does not stop a turn: select picks either ready case.
Take ==
    /\ proc # "down"
    /\ call[Consumer].pc = "idle"
    /\ events # <<>>
    /\ LET ev == Head(events)
       IN  /\ unacked' = unacked \ {ev}
           /\ current' = {ev}
           /\ Begin(Consumer, Dispatch(ChannelOf[About(ev)], ev))
    /\ events' = Tail(events)
    /\ UNCHANGED <<store, seen, slack, resent, proc, lost>>

Step ==
    /\ proc # "down"
    /\ Apply(Consumer)
    /\ UNCHANGED <<slack, delivery>>

\* A failing database, or calls made with the cancelled context.
StepFails ==
    /\ \/ proc = "stopping"
       \/ proc = "up" /\ "db" \in Faults
    /\ WriteFails(Consumer)
    /\ UNCHANGED <<slack, delivery>>

\* handleMessage returns: after the attachments of an upsert were handled,
\* during which further events pile up, or with an error that is only logged.
Return ==
    /\ proc # "down"
    /\ call[Consumer].pc \in {"done", "error"}
    /\ lost' = IF call[Consumer].pc = "error" THEN lost \cup current ELSE lost
    /\ current' = {}
    /\ call' = [call EXCEPT ![Consumer] = Idle]
    /\ UNCHANGED <<store, seen, slack, unacked, resent, events, proc>>
-----------------------------------------------------------------------------
Sigterm ==
    /\ "sigterm" \in Faults
    /\ proc = "up"
    /\ proc' = "stopping"
    /\ UNCHANGED <<store, seen, call, slack, unacked, resent, events, current, lost>>

(***************************************************************************)
(* RunContext returns once the context is cancelled, and Serve with it: no *)
(* one waits for the loop's goroutine.  A crash ends the process likewise. *)
(* The channel and the caches go with it.                                  *)
(***************************************************************************)
Exit ==
    /\ \/ proc = "stopping"
       \/ proc = "up" /\ "crash" \in Faults
    /\ proc' = "down"
    /\ lost' = IF call[Consumer].pc = "done" THEN lost ELSE lost \cup current
    /\ events' = <<>>
    /\ current' = {}
    /\ call' = [call EXCEPT ![Consumer] = Idle]
    /\ seen' = [seen EXCEPT ![Consumer] = NoneSeen]
    /\ UNCHANGED <<store, slack, unacked, resent>>

Restart ==
    /\ proc = "down"
    /\ proc' = "up"
    /\ UNCHANGED <<store, seen, call, slack, unacked, resent, events, current, lost>>

Deliver == (\E m \in Messages : PublishWrite(m) \/ PublishRemove(m)) \/ Redeliver

Loop == Take \/ Step \/ Return

Next == Deliver \/ Loop \/ StepFails \/ Sigterm \/ Exit \/ Restart

Spec == Init /\ [][Next]_vars
-----------------------------------------------------------------------------
Admitted == {m \in Messages : /\ ChannelAllowed(ChannelOf[m])
                              /\ SubtypePersisted(SubtypeOf[m])}

\* What the mirror should show of m, given what Slack shows now.
Expected(m) == IF m \in Admitted \ gone THEN version[m] ELSE 0

\* Nothing is on its way from Slack to the mirror.
Quiet == unacked = {} /\ events = <<>> /\ current = {}

\* The rows only ever hold what Mirror allows: a published version of an
\* admitted message, dropped only after Slack dropped it.
M == INSTANCE Mirror WITH Messages <- Messages, Admitted <- Admitted,
                          MaxVersion <- MaxVersion, version <- version,
                          gone <- gone, messages <- messages
ImplementsMirror == M!Spec

\* Once every delivery was handled, the mirror shows what Slack shows.
InSync == Quiet => \A m \in Messages : messages[m] = Expected(m)

\* Whatever fails, a row that disagrees is the fault of an event about that
\* very message: one that failed after it was acknowledged, or came twice.
DivergesOnlyByLossOrRetry ==
    Quiet => \A m \in Messages :
        messages[m] = Expected(m) \/ \E ev \in lost \cup resent : About(ev) = m

\* The delete of m has left Slack and the consumer, handled or lost.
DeleteSettled(m) ==
    m \in gone /\ Deleted(m) \notin unacked \cup Range(events) \cup current

\* Without redelivery a row never goes back to an older version, and a message
\* never comes back once its delete has been through the loop.
NeverOlder ==
    [][\A m \in Messages : (messages'[m] # messages[m] /\ messages'[m] # 0) =>
           messages'[m] > messages[m] /\ ~DeleteSettled(m)]_vars

\* A failing Web API can turn a name into a stub only while the process has not
\* yet written that row itself: a retried or repeated event never loses a name.
CachedRowsStay ==
    [][\A p \in Processes :
         /\ \A c \in seen[p].channels : channels'[c] = channels[c]
         /\ \A u \in seen[p].users : users'[u] = users[u]]_vars

\* A process that was asked to stop has handled every event it acknowledged.
Drained == proc = "down" => lost = {}
=============================================================================
