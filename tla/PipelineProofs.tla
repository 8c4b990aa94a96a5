--------------------------- MODULE PipelineProofs ---------------------------
(***************************************************************************)
(* Theorems about EventPipeline, for any messages, channels, filters and   *)
(* faults: the rows implement Mirror, a message row never lacks its        *)
(* channel row, and the caches never run ahead of the tables.              *)
(***************************************************************************)
EXTENDS EventPipeline, TLAPS

\* The events that Slack can have published by now.
PublishedEvents ==
    {Posted(m) : m \in {n \in Messages : version[n] > 0}}
      \cup {Edited(e[1], e[2]) : e \in {d \in Messages \X (1..MaxVersion) :
                                            d[2] <= version[d[1]]}}
      \cup {Deleted(m) : m \in gone}

\* An action that says nothing Slack did not say and the filters let through.
Sound(a) ==
    \/ a = ActionSkip
    \/ \E m \in gone : a = ActionDelete(m)
    \/ \E m \in Admitted : \E v \in 1..version[m] :
           a = [kind |-> "upsert", ts |-> m, version |-> v]

Positions == {"channel", "user", "upsert", "delete", "done", "error"}

\* A call stands where the kind of its action leads, and its action is sound;
\* one that has nothing to do is done at once.
CallOK(c) ==
    \/ c = Idle
    \/ \E pc \in Positions,
          a \in [kind : {"upsert"}, ts : Admitted, version : 1..MaxVersion] :
           /\ pc # "delete"
           /\ a.version <= version[a.ts]
           /\ c = [pc |-> pc, act |-> a]
    \/ \E pc \in {"delete", "done", "error"}, m \in gone :
           c = [pc |-> pc, act |-> ActionDelete(m)]
    \/ c = [pc |-> "done", act |-> ActionSkip]
    \/ c = [pc |-> "done"]

TypeInv ==
    /\ channels \in [Channels -> Row]
    /\ users \in [Users -> Row]
    /\ messages \in [Messages -> 0..MaxVersion]
    /\ seen \in [Processes -> [channels : SUBSET Channels, users : SUBSET Users]]
    /\ version \in [Messages -> 0..MaxVersion]
    /\ gone \in SUBSET Messages
    /\ DOMAIN call = Processes

\* What travels from Slack to the rows was published, all the way.
Genuine ==
    /\ unacked \subseteq PublishedEvents
    /\ events \in Seq(PublishedEvents)
    /\ \A p \in Processes : CallOK(call[p])

PipeInv == TypeInv /\ Genuine
-----------------------------------------------------------------------------
(* Slack's changes only add to what was published and to what is sound.    *)
LEMMA GrowingSlack ==
    ASSUME TypeInv, TypeInv', gone \subseteq gone',
           \A m \in Messages : version[m] <= version'[m]
    PROVE  /\ PublishedEvents \subseteq PublishedEvents'
           /\ \A c : CallOK(c) => CallOK(c)'
<1>1. PublishedEvents \subseteq PublishedEvents'
  BY SlackAssumption DEF PublishedEvents, TypeInv
<1>2. \A c : CallOK(c) => CallOK(c)'
  <2> SUFFICES ASSUME NEW c, CallOK(c) PROVE CallOK(c)'
    OBVIOUS
  <2>1. ASSUME NEW pc \in Positions, pc # "delete",
               NEW a \in [kind : {"upsert"}, ts : Admitted, version : 1..MaxVersion],
               a.version <= version[a.ts]
        PROVE  a.version <= version'[a.ts]
    BY <2>1, SlackAssumption DEF TypeInv, Admitted
  <2> QED BY <2>1 DEF CallOK, Admitted
<1> QED BY <1>1, <1>2

(* Dispatch makes a sound action of a published event.                     *)
LEMMA SoundDispatch ==
    ASSUME TypeInv, NEW ev \in PublishedEvents
    PROVE  Sound(Dispatch(ChannelOf[About(ev)], ev))
<1>1. CASE \E m \in Messages : version[m] > 0 /\ ev = Posted(m)
  <2>1. PICK m \in Messages : version[m] > 0 /\ ev = Posted(m)
    BY <1>1
  <2>2. /\ About(ev) = m
        /\ ev.subtype = SubtypeOf[m]
        /\ ev.subtype \notin {subtypeChanged, subtypeDeleted}
        /\ msgFromEvent(ev) = [ts |-> m, subtype |-> SubtypeOf[m], version |-> 1]
    BY <2>1, PipelineAssumption DEF About, Posted, msgFromEvent
  <2>3. ASSUME ChannelAllowed(ChannelOf[m]), SubtypePersisted(SubtypeOf[m])
        PROVE  Sound(messageToRow(msgFromEvent(ev)))
    <3>1. m \in Admitted /\ 1 \in 1..version[m]
      BY <2>1, <2>3, SlackAssumption DEF Admitted, TypeInv
    <3>2. messageToRow(msgFromEvent(ev)) =
              [kind |-> "upsert", ts |-> m, version |-> 1]
      BY <2>2 DEF messageToRow
    <3> QED BY <3>1, <3>2 DEF Sound
  <2>4. Sound(ActionSkip)
    BY DEF Sound
  <2>5. Sound(Upsert(msgFromEvent(ev))) \/ ~ChannelAllowed(ChannelOf[m])
    BY <2>2, <2>3, <2>4 DEF Upsert
  <2> QED BY <2>2, <2>4, <2>5 DEF Dispatch
<1>2. CASE \E m \in Messages, v \in 1..MaxVersion : v <= version[m] /\ ev = Edited(m, v)
  <2>1. PICK m \in Messages, v \in 1..MaxVersion : v <= version[m] /\ ev = Edited(m, v)
    BY <1>2
  <2>2. /\ About(ev) = m
        /\ ev.subtype = subtypeChanged
        /\ ev.subtype # subtypeDeleted
        /\ ev.message = [ts |-> m, subtype |-> SubtypeOf[m], version |-> v]
    BY <2>1 DEF About, Edited, subtypeChanged, subtypeDeleted
  <2>3. ASSUME ChannelAllowed(ChannelOf[m]), SubtypePersisted(SubtypeOf[m])
        PROVE  Sound(messageToRow(ev.message))
    BY <2>1, <2>2, <2>3 DEF Sound, messageToRow, Admitted, TypeInv
  <2>4. Sound(ActionSkip)
    BY DEF Sound
  <2>5. Sound(Upsert(ev.message)) \/ ~ChannelAllowed(ChannelOf[m])
    BY <2>2, <2>3, <2>4 DEF Upsert
  <2> QED BY <2>2, <2>4, <2>5 DEF Dispatch
<1>3. CASE \E m \in gone : ev = Deleted(m)
  <2>1. PICK m \in gone : ev = Deleted(m)
    BY <1>3
  <2>2. /\ About(ev) = m
        /\ ev.subtype = subtypeDeleted
        /\ ev.subtype # subtypeChanged
        /\ ev.deletedTS = m
    BY <2>1 DEF About, Deleted, subtypeChanged, subtypeDeleted
  <2>3. Sound(ActionDelete(ev.deletedTS)) /\ Sound(ActionSkip)
    BY <2>1, <2>2 DEF Sound
  <2> QED BY <2>2, <2>3 DEF Dispatch
<1> QED BY <1>1, <1>2, <1>3 DEF PublishedEvents

(* A call at the channel, the user or the message row is an upsert.        *)
LEMMA UpsertCall ==
    ASSUME NEW c, CallOK(c), c.pc \in {"channel", "user", "upsert"}
    PROVE  /\ c = [pc |-> c.pc, act |-> c.act]
           /\ c.act \in [kind : {"upsert"}, ts : Admitted, version : 1..MaxVersion]
           /\ c.act.version <= version[c.act.ts]
<1>1. c # Idle
  BY DEF Idle
<1>2. \A pc \in {"delete", "done", "error"}, m \in gone :
          c # [pc |-> pc, act |-> ActionDelete(m)]
  OBVIOUS
<1>3. c # [pc |-> "done", act |-> ActionSkip] /\ c # [pc |-> "done"]
  OBVIOUS
<1> QED BY <1>1, <1>2, <1>3 DEF CallOK

(* A call at the delete names a message that Slack removed.                *)
LEMMA DeleteCall ==
    ASSUME NEW c, CallOK(c), c.pc = "delete"
    PROVE  \E m \in gone : c = [pc |-> "delete", act |-> ActionDelete(m)]
<1>1. c # Idle /\ c # [pc |-> "done", act |-> ActionSkip] /\ c # [pc |-> "done"]
  BY DEF Idle
<1>2. \A pc \in Positions : \A a : pc # "delete" => c # [pc |-> pc, act |-> a]
  OBVIOUS
<1> QED BY <1>1, <1>2 DEF CallOK

(* An upsert goes on to any of its later positions, a delete to its end.   *)
LEMMA CallGoes ==
    ASSUME Genuine, DOMAIN call = Processes, NEW p \in Processes,
           NEW pc \in {"user", "upsert", "done", "error"},
           \/ call[p].pc \in {"channel", "user", "upsert"}
           \/ call[p].pc = "delete" /\ pc \in {"done", "error"},
           Goto(p, pc), UNCHANGED <<version, gone>>
    PROVE  /\ DOMAIN call' = Processes
           /\ \A q \in Processes : CallOK(call[q])'
<1>1. DOMAIN call' = Processes /\ \A q \in Processes \ {p} : call'[q] = call[q]
  BY DEF Goto
<1>2. call'[p] = [call[p] EXCEPT !.pc = pc]
  BY DEF Goto
<1>3. CallOK(call[p])
  BY DEF Genuine
<1>4. CASE call[p].pc \in {"channel", "user", "upsert"}
  <2>1. /\ call[p] = [pc |-> call[p].pc, act |-> call[p].act]
        /\ call[p].act \in
               [kind : {"upsert"}, ts : Admitted, version : 1..MaxVersion]
        /\ call[p].act.version <= version[call[p].act.ts]
    BY <1>3, <1>4, UpsertCall
  <2>2. call'[p] = [pc |-> pc, act |-> call[p].act]
    BY <1>2, <2>1
  <2>3. CallOK(call[p])'
    BY <2>1, <2>2 DEF CallOK, Positions, Admitted
  <2> QED BY <1>1, <2>3 DEF Genuine, CallOK, Admitted
<1>5. CASE call[p].pc = "delete"
  <2>1. PICK m \in gone : call[p] = [pc |-> "delete", act |-> ActionDelete(m)]
    BY <1>3, <1>5, DeleteCall
  <2>2. call'[p] = [pc |-> pc, act |-> ActionDelete(m)]
    BY <1>2, <2>1
  <2>3. CallOK(call[p])'
    BY <1>5, <2>1, <2>2 DEF CallOK
  <2> QED BY <1>1, <2>3 DEF Genuine, CallOK, Admitted
<1> QED BY <1>4, <1>5
-----------------------------------------------------------------------------
\* No event is published at first, and no call begun.
LEMMA PipeInit == Init => PipeInv
<1> SUFFICES ASSUME Init PROVE PipeInv
  OBVIOUS
<1>1. TypeInv
  BY SlackAssumption DEF Init, ApplyInit, SlackInit, TypeInv, Row, NoneSeen
<1>2. Genuine
  BY DEF Init, ApplyInit, Genuine, CallOK
<1> QED BY <1>1, <1>2 DEF PipeInv

(* Slack publishes an event of what it has just changed, and nothing else. *)
LEMMA PublishKeeps ==
    ASSUME PipeInv, NEW ev, ev \in PublishedEvents', Publish(ev),
           TypeInv', gone \subseteq gone',
           \A m \in Messages : version[m] <= version'[m]
    PROVE  Genuine'
<1>1. /\ PublishedEvents \subseteq PublishedEvents'
      /\ \A c : CallOK(c) => CallOK(c)'
  BY GrowingSlack DEF PipeInv
<1>2. unacked' \subseteq PublishedEvents'
  BY <1>1 DEF Publish, PipeInv, Genuine
<1>3. events' \in Seq(PublishedEvents')
  <2>1. events \in Seq(PublishedEvents')
    BY <1>1 DEF PipeInv, Genuine
  <2>2. Append(events, ev) \in Seq(PublishedEvents')
    BY <2>1
  <2> QED BY <2>1, <2>2 DEF Publish
<1>4. \A p \in Processes : CallOK(call[p])'
  BY <1>1 DEF Publish, PipeInv, Genuine
<1> QED BY <1>2, <1>3, <1>4 DEF Genuine

\* The event of a new or edited message is of the version Slack now shows.
LEMMA WriteKeeps ==
    ASSUME PipeInv, NEW m \in Messages, PublishWrite(m) PROVE PipeInv'
<1> DEFINE ev == IF version[m] = 0 THEN Posted(m) ELSE Edited(m, version[m] + 1)
<1>1. /\ version' = [version EXCEPT ![m] = version[m] + 1]
      /\ version[m] < MaxVersion
      /\ UNCHANGED gone
      /\ Publish(ev)
  BY DEF PublishWrite, Write
<1>2. TypeInv'
  BY <1>1, SlackAssumption DEF Publish, store, PipeInv, TypeInv
<1>3. \A n \in Messages : version[n] <= version'[n]
  BY <1>1 DEF PipeInv, TypeInv
<1>4. ev \in PublishedEvents'
  <2>1. version'[m] = version[m] + 1 /\ version[m] \in 0..MaxVersion
    BY <1>1 DEF PipeInv, TypeInv
  <2>2. Posted(m) \in PublishedEvents'
    BY <2>1, SlackAssumption DEF PublishedEvents, Posted
  <2>3. CASE version[m] # 0
    <3>1. <<m, version[m] + 1>> \in
              {d \in Messages \X (1..MaxVersion) : d[2] <= version'[d[1]]}
      BY <1>1, <2>1, <2>3, SlackAssumption
    <3>2. Edited(<<m, version[m] + 1>>[1], <<m, version[m] + 1>>[2])
              \in PublishedEvents'
      BY <3>1 DEF PublishedEvents, Edited
    <3> QED BY <3>2, <2>3
  <2> QED BY <2>2, <2>3
<1> HIDE DEF ev
<1>5. Genuine'
  BY <1>1, <1>2, <1>3, <1>4, PublishKeeps
<1> QED BY <1>2, <1>5 DEF PipeInv

\* That of a removed one names it.
LEMMA RemoveKeeps ==
    ASSUME PipeInv, NEW m \in Messages, PublishRemove(m) PROVE PipeInv'
<1>1. /\ gone' = gone \cup {m}
      /\ UNCHANGED version
      /\ Publish(Deleted(m))
  BY DEF PublishRemove, Remove
<1>2. TypeInv'
  BY <1>1 DEF Publish, store, PipeInv, TypeInv
<1>3. \A n \in Messages : version[n] <= version'[n]
  BY <1>1 DEF PipeInv, TypeInv
<1>4. Deleted(m) \in PublishedEvents'
  BY <1>1 DEF PublishedEvents, Deleted
<1>5. Genuine'
  BY <1>1, <1>2, <1>3, <1>4, PublishKeeps
<1> QED BY <1>2, <1>5 DEF PipeInv

(* A call that begins a sound action.                                      *)
LEMMA BeginKeeps ==
    ASSUME PipeInv, NEW p \in Processes, NEW act, Sound(act), Begin(p, act),
           UNCHANGED <<store, seen, version, gone>>,
           unacked' \subseteq unacked, events' \in Seq(PublishedEvents)
    PROVE  PipeInv'
<1>1. UNCHANGED <<channels, users, messages, seen, version, gone>>
  BY DEF store
<1>2. call' = [call EXCEPT ![p] = [pc |-> FirstStep(act.kind), act |-> act]]
  BY DEF Begin
<1>3. CallOK([pc |-> FirstStep(act.kind), act |-> act])
  <2>1. CASE act = ActionSkip
    BY <2>1 DEF ActionSkip, FirstStep, CallOK
  <2>2. CASE \E m \in gone : act = ActionDelete(m)
    BY <2>2 DEF ActionDelete, FirstStep, CallOK
  <2>3. CASE \E m \in Admitted : \E v \in 1..version[m] :
                 act = [kind |-> "upsert", ts |-> m, version |-> v]
    <3>1. PICK m \in Admitted : \E v \in 1..version[m] :
                 act = [kind |-> "upsert", ts |-> m, version |-> v]
      BY <2>3
    <3>2. PICK v \in 1..version[m] :
                 act = [kind |-> "upsert", ts |-> m, version |-> v]
      BY <3>1
    <3>3. version[m] \in 0..MaxVersion /\ v \in 1..MaxVersion
      BY <3>2, SlackAssumption DEF PipeInv, TypeInv, Admitted
    <3>4. FirstStep(act.kind) = "channel"
      BY <3>2 DEF FirstStep
    <3>5. act \in [kind : {"upsert"}, ts : Admitted, version : 1..MaxVersion]
      BY <3>2, <3>3
    <3>6. act.version <= version[act.ts]
      BY <3>2, <3>3, SlackAssumption
    <3>7. "channel" \in Positions /\ "channel" # "delete"
      BY DEF Positions
    <3> QED BY <3>4, <3>5, <3>6, <3>7 DEF CallOK
  <2> QED BY <2>1, <2>2, <2>3 DEF Sound
<1>4. TypeInv'
  BY <1>1, <1>2 DEF PipeInv, TypeInv
<1>5. PublishedEvents' = PublishedEvents
  BY <1>1 DEF PublishedEvents
<1>6. \A q \in Processes : CallOK(call[q])'
  BY <1>1, <1>2, <1>3 DEF PipeInv, TypeInv, Genuine, CallOK, Admitted
<1> QED BY <1>4, <1>5, <1>6 DEF PipeInv, Genuine

(* The loop takes an event that was published, and begins a sound action.  *)
LEMMA TakeKeeps == ASSUME PipeInv, Take PROVE PipeInv'
<1> DEFINE ev == Head(events)
           act == Dispatch(ChannelOf[About(ev)], ev)
<1>1. ev \in PublishedEvents /\ Tail(events) \in Seq(PublishedEvents)
  BY DEF Take, PipeInv, Genuine
<1>2. Sound(act)
  BY <1>1, SoundDispatch DEF PipeInv
<1>3. /\ Begin(Consumer, act)
      /\ unacked' \subseteq unacked
      /\ events' = Tail(events)
      /\ UNCHANGED <<store, seen, version, gone>>
  BY DEF Take, slack
<1> HIDE DEF ev, act
<1> QED BY <1>1, <1>2, <1>3, BeginKeeps, PipelineAssumption

(* What a call in progress is about is known to the tables and to Slack.   *)
LEMMA CallAbout ==
    ASSUME PipeInv, NEW p \in Processes
    PROVE  /\ call[p].pc \in {"channel", "user", "upsert"} =>
                 /\ Msg(p) \in Admitted
                 /\ call[p].act.version \in 1..version[Msg(p)]
                 /\ call[p].act.version \in 1..MaxVersion
                 /\ Channel(p) \in Channels
                 /\ Author(p) \in Users \cup {NoUser}
           /\ call[p].pc = "delete" => Msg(p) \in gone /\ Msg(p) \in Messages
<1>1. CallOK(call[p])
  BY DEF PipeInv, Genuine
<1>2. CASE call[p].pc \in {"channel", "user", "upsert"}
  <2>1. /\ call[p].act \in
               [kind : {"upsert"}, ts : Admitted, version : 1..MaxVersion]
        /\ call[p].act.version <= version[call[p].act.ts]
    BY <1>1, <1>2, UpsertCall
  <2>2. Msg(p) \in Messages /\ version[Msg(p)] \in 0..MaxVersion
    BY <2>1 DEF Msg, Admitted, PipeInv, TypeInv
  <2> QED BY <1>2, <2>1, <2>2, SlackAssumption, ApplyAssumption
          DEF Msg, Channel, Author
<1>3. CASE call[p].pc = "delete"
  BY <1>1, <1>3, DeleteCall DEF Msg, ActionDelete, PipeInv, TypeInv
<1> QED BY <1>2, <1>3

\* A call keeps its action from step to step.
LEMMA ApplyKeeps ==
    ASSUME PipeInv, NEW p \in Processes, Apply(p) \/ WriteFails(p),
           UNCHANGED <<slack, unacked, events>>
    PROVE  PipeInv'
<1>0. UNCHANGED <<version, gone>>
  BY DEF slack
<1>1. /\ DOMAIN call' = Processes
      /\ \A q \in Processes : CallOK(call[q])'
  <2>1. CASE EnsureChannel(p)
    BY <1>0, <2>1, CallGoes DEF EnsureChannel, PipeInv, TypeInv
  <2>2. CASE EnsureUser(p)
    BY <1>0, <2>2, CallGoes DEF EnsureUser, PipeInv, TypeInv
  <2>3. CASE UpsertMessage(p)
    BY <1>0, <2>3, CallGoes DEF UpsertMessage, PipeInv, TypeInv
  <2>4. CASE DeleteMessage(p)
    BY <1>0, <2>4, CallGoes DEF DeleteMessage, PipeInv, TypeInv
  <2>5. CASE WriteFails(p)
    BY <1>0, <2>5, CallGoes DEF WriteFails, AtStatement, PipeInv, TypeInv
  <2> QED BY <2>1, <2>2, <2>3, <2>4, <2>5 DEF Apply
<1>2. Info \subseteq Row
  BY DEF Info, Row
<1>3. /\ channels' \in [Channels -> Row]
      /\ users' \in [Users -> Row]
      /\ messages' \in [Messages -> 0..MaxVersion]
      /\ seen' \in [Processes -> [channels : SUBSET Channels, users : SUBSET Users]]
  <2>a. /\ call[p].pc \in {"channel", "user", "upsert"} =>
              /\ Msg(p) \in Admitted
              /\ call[p].act.version \in 1..version[Msg(p)]
              /\ call[p].act.version \in 1..MaxVersion
              /\ Channel(p) \in Channels
              /\ Author(p) \in Users \cup {NoUser}
        /\ call[p].pc = "delete" => Msg(p) \in gone /\ Msg(p) \in Messages
    BY CallAbout
  <2> USE <2>a, <1>2 DEF PipeInv, TypeInv
  <2>1. CASE EnsureChannel(p)
    <3>1. CASE UNCHANGED <<store, seen>>
      BY <3>1 DEF store
    <3>2. CASE /\ WriteChannel(p)
               /\ seen' = [seen EXCEPT ![p].channels = @ \cup {Channel(p)}]
      <4>1. Channel(p) \in Channels
        BY <2>1 DEF EnsureChannel
      <4>2. seen' \in
                [Processes -> [channels : SUBSET Channels, users : SUBSET Users]]
        BY <3>2, <4>1
      <4> QED BY <3>2, <4>2 DEF WriteChannel
    <3> QED BY <2>1, <3>1, <3>2 DEF EnsureChannel
  <2>2. CASE EnsureUser(p)
    <3>1. CASE UNCHANGED <<store, seen>>
      BY <3>1 DEF store
    <3>2. CASE /\ ~KnownUser(p)
               /\ WriteUser(p)
               /\ seen' = [seen EXCEPT ![p].users = @ \cup {Author(p)}]
      <4>1. Author(p) \in Users
        BY <2>2, <3>2 DEF EnsureUser, KnownUser
      <4>2. seen' \in
                [Processes -> [channels : SUBSET Channels, users : SUBSET Users]]
        BY <3>2, <4>1
      <4> QED BY <3>2, <4>2 DEF WriteUser
    <3> QED BY <2>2, <3>1, <3>2 DEF EnsureUser
  <2>3. CASE UpsertMessage(p)
    <3>1. /\ messages' = [messages EXCEPT ![Msg(p)] = call[p].act.version]
          /\ UNCHANGED <<users, channels, seen>>
      BY <2>3 DEF UpsertMessage, WriteMessage
    <3>2. call[p].act.version \in 0..MaxVersion
      BY <2>3, SlackAssumption DEF UpsertMessage
    <3> QED BY <3>1, <3>2
  <2>4. CASE DeleteMessage(p)
    BY <2>4, SlackAssumption DEF DeleteMessage, WriteMessage
  <2>5. CASE WriteFails(p)
    <3>1. CASE call[p].pc = "channel"
      BY <2>5, <3>1 DEF WriteFails, WriteChannel, store
    <3>2. CASE call[p].pc = "user"
      BY <2>5, <3>2 DEF WriteFails, WriteUser, store
    <3>3. CASE call[p].pc = "upsert"
      BY <2>5, <3>3 DEF WriteFails, WriteMessage, store
    <3>4. CASE call[p].pc = "delete"
      BY <2>5, <3>4, SlackAssumption DEF WriteFails, WriteMessage, store
    <3> QED BY <2>5, <3>1, <3>2, <3>3, <3>4 DEF WriteFails, AtStatement
  <2> QED BY <2>1, <2>2, <2>3, <2>4, <2>5 DEF Apply
<1>4. TypeInv'
  BY <1>0, <1>1, <1>3 DEF PipeInv, TypeInv
<1>5. PublishedEvents' = PublishedEvents
  BY <1>0 DEF PublishedEvents
<1>6. Genuine'
  BY <1>1, <1>5 DEF PipeInv, Genuine
<1> QED BY <1>4, <1>6 DEF PipeInv

(* The remaining steps leave Slack and the rows alone, and forget a call.  *)
LEMMA RestKeeps ==
    ASSUME PipeInv, NEW p \in Processes, UNCHANGED <<store, version, gone>>,
           unacked' \subseteq unacked, events' \in Seq(PublishedEvents),
           call' \in {call, [call EXCEPT ![p] = Idle]},
           seen' \in {seen, [seen EXCEPT ![p] = NoneSeen]}
    PROVE  PipeInv'
<1>0. UNCHANGED <<channels, users, messages, version, gone>>
  BY DEF store
<1>1. TypeInv'
  <2>1. seen' \in [Processes -> [channels : SUBSET Channels, users : SUBSET Users]]
    <3>1. NoneSeen \in [channels : SUBSET Channels, users : SUBSET Users]
      BY DEF NoneSeen
    <3>2. CASE seen' = seen
      BY <3>2 DEF PipeInv, TypeInv
    <3>3. CASE seen' = [seen EXCEPT ![p] = NoneSeen]
      BY <3>1, <3>3 DEF PipeInv, TypeInv
    <3> QED BY <3>2, <3>3
  <2>2. DOMAIN call' = Processes
    BY DEF PipeInv, TypeInv
  <2> QED BY <1>0, <2>1, <2>2 DEF PipeInv, TypeInv
<1>2. \A q \in Processes : CallOK(call[q])'
  <2>1. \A q \in Processes : call'[q] \in {call[q], Idle}
    BY DEF PipeInv, TypeInv
  <2>2. \A c : CallOK(c) => CallOK(c)'
    <3>1. /\ TypeInv
          /\ gone \subseteq gone'
          /\ \A m \in Messages : version[m] <= version'[m]
      BY <1>0 DEF PipeInv, TypeInv
    <3> QED BY <1>1, <3>1, GrowingSlack
  <2>3. CallOK(Idle)
    BY DEF CallOK
  <2>4. \A q \in Processes : CallOK(call[q])
    BY DEF PipeInv, Genuine
  <2>5. ASSUME NEW q \in Processes PROVE CallOK(call[q])'
    <3>1. CASE call'[q] = call[q]
      BY <2>2, <2>4, <3>1
    <3>2. CASE call'[q] = Idle
      BY <3>2 DEF CallOK
    <3> QED BY <2>1, <3>1, <3>2
  <2> QED BY <2>5
<1>3. PublishedEvents' = PublishedEvents
  BY DEF PublishedEvents
<1> QED BY <1>1, <1>2, <1>3 DEF PipeInv, Genuine

\* Every step of Slack and of the process keeps the events genuine.
LEMMA PipeStep == PipeInv /\ [Next]_vars => PipeInv'
<1> SUFFICES ASSUME PipeInv, [Next]_vars PROVE PipeInv'
  OBVIOUS
<1>e. /\ Consumer \in Processes
      /\ events \in Seq(PublishedEvents) /\ <<>> \in Seq(PublishedEvents)
  BY PipelineAssumption DEF PipeInv, Genuine
<1>1. ASSUME NEW m \in Messages, PublishWrite(m) \/ PublishRemove(m) PROVE PipeInv'
  BY <1>1, WriteKeeps, RemoveKeeps
<1>2. CASE Redeliver
  <2>1. PICK ev \in unacked : events' = Append(events, ev)
    BY <1>2 DEF Redeliver
  <2>2. Append(events, ev) \in Seq(PublishedEvents)
    BY <1>e DEF PipeInv, Genuine
  <2> QED BY <1>2, <1>e, <2>1, <2>2, RestKeeps DEF Redeliver, slack
<1>3. CASE Take
  BY <1>3, TakeKeeps
<1>4. CASE Step \/ StepFails
  BY <1>4, ApplyKeeps, PipelineAssumption DEF Step, StepFails, delivery
<1>5. CASE Return
  BY <1>5, <1>e, RestKeeps DEF Return, slack
<1>6. CASE Sigterm
  BY <1>6, <1>e, RestKeeps DEF Sigterm, slack
<1>7. CASE Exit
  BY <1>7, <1>e, RestKeeps DEF Exit, slack
<1>8. CASE Restart
  BY <1>8, <1>e, RestKeeps DEF Restart, slack
<1>9. CASE UNCHANGED vars
  BY <1>9, <1>e, RestKeeps DEF vars, store
<1> QED BY <1>1, <1>2, <1>3, <1>4, <1>5, <1>6, <1>7, <1>8, <1>9
        DEF Next, Deliver, Loop
-----------------------------------------------------------------------------
(* What a step of Apply writes, in terms of Mirror.                        *)
LEMMA ApplyMirrors ==
    ASSUME PipeInv, NEW p \in Processes, Apply(p) \/ WriteFails(p), UNCHANGED slack
    PROVE  \/ UNCHANGED M!vars
           \/ \E m \in Messages : M!Copy(m) \/ M!Drop(m)
<1>0. UNCHANGED <<version, gone>>
  BY DEF slack
<1>1. CASE UNCHANGED messages
  BY <1>0, <1>1 DEF M!vars
<1>2. CASE /\ call[p].pc = "upsert"
           /\ messages' = [messages EXCEPT ![Msg(p)] = call[p].act.version]
  <2>1. Msg(p) \in Admitted /\ call[p].act.version \in 1..version[Msg(p)]
    BY <1>2, CallAbout
  <2>2. Msg(p) \in Messages
    BY <2>1 DEF Admitted
  <2>3. M!Copy(Msg(p))
    BY <1>0, <1>2, <2>1 DEF M!Copy
  <2> QED BY <2>2, <2>3
<1>3. CASE call[p].pc = "delete" /\ messages' = [messages EXCEPT ![Msg(p)] = 0]
  <2>1. Msg(p) \in gone /\ Msg(p) \in Messages
    BY <1>3, CallAbout
  <2> QED BY <1>0, <1>3, <2>1 DEF M!Drop
<1>4. CASE Apply(p)
  BY <1>1, <1>2, <1>3, <1>4
     DEF Apply, EnsureChannel, EnsureUser, UpsertMessage, DeleteMessage,
         WriteChannel, WriteUser, WriteMessage, store
<1>5. CASE WriteFails(p)
  BY <1>1, <1>2, <1>3, <1>5
     DEF WriteFails, WriteChannel, WriteUser, WriteMessage, store
<1> QED BY <1>4, <1>5

\* Both start with what was posted before and no rows.
LEMMA MirrorInit == Init => M!Init
BY SlackAssumption DEF Init, ApplyInit, SlackInit, M!Init

\* Every step is one that Mirror allows, or leaves its variables alone.
LEMMA MirrorStep == PipeInv /\ [Next]_vars => [M!Next]_(M!vars)
<1> SUFFICES ASSUME PipeInv, [Next]_vars PROVE M!Next \/ UNCHANGED M!vars
  OBVIOUS
<1>1. ASSUME NEW m \in Messages, PublishWrite(m) PROVE M!Next
  BY <1>1 DEF PublishWrite, Write, Publish, store, M!Next, M!Publish
<1>2. ASSUME NEW m \in Messages, PublishRemove(m) PROVE M!Next
  <2>1. version[m] > 0 /\ m \notin gone
    BY <1>2 DEF PublishRemove, Remove, Visible
  <2> QED BY <1>2, <2>1 DEF PublishRemove, Remove, Publish, store, M!Next, M!Remove
<1>3. CASE Redeliver
  BY <1>3 DEF Redeliver, slack, store, M!vars
<1>4. CASE Take
  BY <1>4 DEF Take, slack, store, M!vars
<1>5. CASE Step \/ StepFails
  BY <1>5, ApplyMirrors, PipelineAssumption DEF Step, StepFails, M!Next
<1>6. CASE Return
  BY <1>6 DEF Return, slack, store, M!vars
<1>7. CASE Sigterm
  BY <1>7 DEF Sigterm, slack, store, M!vars
<1>8. CASE Exit
  BY <1>8 DEF Exit, slack, store, M!vars
<1>9. CASE Restart
  BY <1>9 DEF Restart, slack, store, M!vars
<1>10. CASE UNCHANGED vars
  BY <1>10 DEF vars, M!vars
<1> QED BY <1>1, <1>2, <1>3, <1>4, <1>5, <1>6, <1>7, <1>8, <1>9, <1>10
        DEF Next, Deliver, Loop

\* Whatever is lost, repeated or cut short, the rows of the live path behave as
\* Mirror says: each holds a version that Slack published of a message which
\* the filters admit, and is dropped only after Slack dropped the message.
THEOREM RowsImplementMirror == Spec => ImplementsMirror
<1> SUFFICES Spec => M!Spec
  BY DEF ImplementsMirror
<1> QED BY PipeInit, PipeStep, MirrorInit, MirrorStep, PTL DEF Spec, M!Spec
-----------------------------------------------------------------------------
\* Channel rows stay; a call past its channel has written it.
Written ==
    /\ SeenIsWritten
    /\ ChannelBeforeMessage
    /\ \A p \in Processes :
         call[p].pc = "user" => channels[Channel(p)] # "absent"

\* Only the consumer has a cache.
OneCache == \A p \in Processes \ {Consumer} : seen[p] = NoneSeen

\* Nothing is cached and nothing refers to a channel at first.
LEMMA WrittenInit == Init => Written /\ OneCache
BY DEF Init, ApplyInit, Written, OneCache, SeenIsWritten, ChannelBeforeMessage,
       NoneSeen, Idle

(* No step of Apply takes a channel or user row away.                      *)
LEMMA RowsStay ==
    ASSUME PipeInv, NEW p \in Processes, Apply(p) \/ WriteFails(p)
    PROVE  /\ \A c \in Channels :
                 channels[c] # "absent" => channels'[c] # "absent"
           /\ \A u \in Users : users[u] # "absent" => users'[u] # "absent"
<1>1. ASSUME UNCHANGED channels \/ WriteChannel(p)
      PROVE  \A c \in Channels :
                 channels[c] # "absent" => channels'[c] # "absent"
  BY <1>1 DEF WriteChannel, Info, PipeInv, TypeInv
<1>2. ASSUME UNCHANGED users \/ WriteUser(p)
      PROVE  \A u \in Users : users[u] # "absent" => users'[u] # "absent"
  BY <1>2 DEF WriteUser, Info, PipeInv, TypeInv
<1>3. /\ UNCHANGED channels \/ WriteChannel(p)
      /\ UNCHANGED users \/ WriteUser(p)
  BY DEF Apply, EnsureChannel, EnsureUser, UpsertMessage, DeleteMessage,
         WriteFails, WriteChannel, WriteUser, WriteMessage, store
<1> QED BY <1>1, <1>2, <1>3

(* A process caches only what it has just written.                         *)
LEMMA CacheFollows ==
    ASSUME PipeInv, Written, NEW p \in Processes, Apply(p) \/ WriteFails(p)
    PROVE  /\ SeenIsWritten'
           /\ \A q \in Processes \ {p} : seen'[q] = seen[q]
<1>1. /\ \A c \in Channels : channels[c] # "absent" => channels'[c] # "absent"
      /\ \A u \in Users : users[u] # "absent" => users'[u] # "absent"
  BY RowsStay
<1>2. \A q \in Processes : /\ seen[q].channels \subseteq Channels
                           /\ seen[q].users \subseteq Users
  BY DEF PipeInv, TypeInv
<1>3. CASE UNCHANGED seen
  BY <1>1, <1>2, <1>3 DEF Written, SeenIsWritten
<1>4. CASE /\ call[p].pc = "channel" /\ WriteChannel(p)
           /\ seen' = [seen EXCEPT ![p].channels = @ \cup {Channel(p)}]
  <2>1. Channel(p) \in Channels
    BY <1>4, CallAbout
  <2>2. channels'[Channel(p)] # "absent"
    BY <1>4, <2>1 DEF WriteChannel, Info, PipeInv, TypeInv
  <2>3. /\ seen'[p].channels = seen[p].channels \cup {Channel(p)}
        /\ seen'[p].users = seen[p].users
        /\ \A q \in Processes \ {p} : seen'[q] = seen[q]
    BY <1>4 DEF PipeInv, TypeInv
  <2> QED BY <1>1, <1>2, <2>2, <2>3 DEF Written, SeenIsWritten
<1>5. CASE /\ call[p].pc = "user" /\ ~KnownUser(p) /\ WriteUser(p)
           /\ seen' = [seen EXCEPT ![p].users = @ \cup {Author(p)}]
  <2>1. Author(p) \in Users
    BY <1>5, CallAbout DEF KnownUser
  <2>2. users'[Author(p)] # "absent"
    BY <1>5, <2>1 DEF WriteUser, Info, PipeInv, TypeInv
  <2>3. /\ seen'[p].users = seen[p].users \cup {Author(p)}
        /\ seen'[p].channels = seen[p].channels
        /\ \A q \in Processes \ {p} : seen'[q] = seen[q]
    BY <1>5 DEF PipeInv, TypeInv
  <2> QED BY <1>1, <1>2, <2>2, <2>3 DEF Written, SeenIsWritten
<1> QED BY <1>3, <1>4, <1>5
        DEF Apply, EnsureChannel, EnsureUser, UpsertMessage, DeleteMessage, WriteFails

(* A message row, and a call about to write one, have their channel row.   *)
LEMMA ChannelStays ==
    ASSUME PipeInv, Written, NEW p \in Processes, Apply(p) \/ WriteFails(p)
    PROVE  /\ ChannelBeforeMessage'
           /\ \A q \in Processes :
                 call'[q].pc = "user" => channels'[Channel(q)'] # "absent"
<1>1. \A c \in Channels : channels[c] # "absent" => channels'[c] # "absent"
  BY RowsStay
<1>2. call[p].pc \in {"channel", "user", "upsert"} =>
          /\ Channel(p) \in Channels
          /\ Msg(p) \in Messages
  BY CallAbout DEF Admitted
<1>3. /\ \A q \in Processes \ {p} : call'[q] = call[q]
      /\ call'[p].pc \in {"user", "upsert"} => Channel(p)' = Channel(p)
  <2>1. PICK pc : Goto(p, pc)
    BY DEF Apply, EnsureChannel, EnsureUser, UpsertMessage, DeleteMessage, WriteFails
  <2>2. CASE call[p].pc \in {"channel", "user", "upsert"}
    <3>1. call[p] = [pc |-> call[p].pc, act |-> call[p].act]
      BY <2>2, UpsertCall DEF PipeInv, Genuine
    <3>2. call'[p].act = call[p].act
      BY <2>1, <3>1 DEF Goto, PipeInv, TypeInv
    <3> QED BY <2>1, <3>2 DEF Goto, Channel, Msg
  <2>3. CASE call[p].pc = "delete"
    <3>1. PICK m \in gone : call[p] = [pc |-> "delete", act |-> ActionDelete(m)]
      BY <2>3, DeleteCall DEF PipeInv, Genuine
    <3>2. call'[p].act = call[p].act
      BY <2>1, <3>1 DEF Goto, PipeInv, TypeInv
    <3> QED BY <2>1, <3>2 DEF Goto, Channel, Msg
  <2> QED BY <2>2, <2>3
          DEF Apply, EnsureChannel, EnsureUser, UpsertMessage, DeleteMessage,
              WriteFails, AtStatement
<1>4. call'[p].pc \in {"user", "upsert"} => channels'[Channel(p)] # "absent"
  <2>1. CASE EnsureChannel(p)
    <3>1. CASE KnownChannel(p)
      BY <1>1, <1>2, <2>1, <3>1
         DEF EnsureChannel, KnownChannel, Written, SeenIsWritten
    <3>2. CASE WriteChannel(p)
      BY <1>2, <2>1, <3>2 DEF EnsureChannel, WriteChannel, Info, PipeInv, TypeInv
    <3> QED BY <2>1, <3>1, <3>2 DEF EnsureChannel
  <2>2. CASE EnsureUser(p)
    BY <1>1, <1>2, <2>2 DEF EnsureUser, Written
  <2>3. CASE UpsertMessage(p) \/ DeleteMessage(p) \/ WriteFails(p)
    <3>1. call'[p].pc \notin {"user", "upsert"}
      <4>1. \E pc \in {"done", "error"} : Goto(p, pc)
        BY <2>3 DEF UpsertMessage, DeleteMessage, WriteFails
      <4>2. "pc" \in DOMAIN call[p]
        <5>1. CASE call[p].pc \in {"channel", "user", "upsert"}
          BY <5>1, UpsertCall DEF PipeInv, Genuine
        <5>2. CASE call[p].pc = "delete"
          BY <5>2, DeleteCall DEF PipeInv, Genuine
        <5> QED BY <2>3, <5>1, <5>2
                DEF UpsertMessage, DeleteMessage, WriteFails, AtStatement
      <4> QED BY <4>1, <4>2 DEF Goto, PipeInv, TypeInv
    <3> QED BY <3>1
  <2> QED BY <2>1, <2>2, <2>3 DEF Apply
<1>5. \A m \in Messages : messages'[m] # 0 =>
          channels'[ChannelOf[m]] # "absent"
  <2>1. \A m \in Messages : ChannelOf[m] \in Channels
    BY ApplyAssumption
  <2>2. CASE UNCHANGED messages
    BY <1>1, <2>1, <2>2 DEF Written, ChannelBeforeMessage
  <2>3. CASE /\ call[p].pc = "upsert"
             /\ messages' = [messages EXCEPT ![Msg(p)] = call[p].act.version]
    <3>1. channels[ChannelOf[Msg(p)]] # "absent"
      BY <2>3 DEF Written, ChannelBeforeMessage, Channel
    <3> QED BY <1>1, <2>1, <2>3, <3>1
            DEF Written, ChannelBeforeMessage, PipeInv, TypeInv
  <2>4. CASE messages' = [messages EXCEPT ![Msg(p)] = 0]
    BY <1>1, <2>1, <2>4 DEF Written, ChannelBeforeMessage, PipeInv, TypeInv
  <2> QED BY <2>2, <2>3, <2>4
          DEF Apply, EnsureChannel, EnsureUser, UpsertMessage, DeleteMessage,
              WriteFails, WriteChannel, WriteUser, WriteMessage, store
<1>6. \A q \in Processes : call'[q].pc \in {"user", "upsert"} =>
          channels'[Channel(q)'] # "absent"
  <2> SUFFICES ASSUME NEW q \in Processes, call'[q].pc \in {"user", "upsert"}
               PROVE  channels'[Channel(q)'] # "absent"
    OBVIOUS
  <2>1. CASE q = p
    BY <1>3, <1>4, <2>1
  <2>2. CASE q # p
    <3>1. call'[q] = call[q]
      BY <1>3, <2>2
    <3>2. Channel(q)' = Channel(q) /\ Channel(q) \in Channels
      BY <3>1, CallAbout DEF Channel, Msg
    <3> QED BY <1>1, <3>1, <3>2 DEF Written, ChannelBeforeMessage
  <2> QED BY <2>1, <2>2
<1> QED BY <1>5, <1>6 DEF ChannelBeforeMessage

(* A step that leaves the rows alone and begins or forgets calls.          *)
LEMMA WrittenStays ==
    ASSUME PipeInv, Written, UNCHANGED <<channels, users, messages>>,
           \A p \in Processes : seen'[p] \in {seen[p], NoneSeen},
           \A p \in Processes : \/ call'[p] = call[p]
                                \/ call'[p].pc \notin {"user", "upsert"}
    PROVE  Written'
<1>1. SeenIsWritten'
  BY DEF Written, SeenIsWritten, NoneSeen
<1>2. /\ ChannelBeforeMessage'
      /\ \A p \in Processes :
            call'[p].pc = "user" => channels'[Channel(p)'] # "absent"
  BY DEF Written, ChannelBeforeMessage, Channel, Msg
<1> QED BY <1>1, <1>2 DEF Written

(* No step takes a written row from a cache, or a channel from a message.   *)
LEMMA WrittenStep == PipeInv /\ Written /\ [Next]_vars => Written'
<1> SUFFICES ASSUME PipeInv, Written, [Next]_vars PROVE Written'
  OBVIOUS
<1>1. CASE Step \/ StepFails
  <2>1. Consumer \in Processes /\ (Apply(Consumer) \/ WriteFails(Consumer))
    BY <1>1, PipelineAssumption DEF Step, StepFails
  <2>2. SeenIsWritten'
    BY <2>1, CacheFollows
  <2>3. /\ ChannelBeforeMessage'
        /\ \A p \in Processes :
              call'[p].pc = "user" => channels'[Channel(p)'] # "absent"
    BY <2>1, ChannelStays
  <2> QED BY <2>2, <2>3 DEF Written
<1>2. ASSUME UNCHANGED <<channels, users, messages>>,
             seen' \in {seen, [seen EXCEPT ![Consumer] = NoneSeen]},
             \A p \in Processes : call'[p] = call[p]
                                  \/ call'[p].pc \notin {"user", "upsert"}
      PROVE  Written'
  <2>1. \A p \in Processes : seen'[p] \in {seen[p], NoneSeen}
    BY <1>2 DEF PipeInv, TypeInv
  <2> QED BY <1>2, <2>1, WrittenStays
<1>3. CASE Deliver
  BY <1>2, <1>3 DEF Deliver, PublishWrite, PublishRemove, Publish, Redeliver, store
<1>4. CASE Take
  <2>1. \A a : FirstStep(a.kind) \notin {"user", "upsert"}
    BY DEF FirstStep
  <2>2. \A p \in Processes : \/ call'[p] = call[p]
                             \/ call'[p].pc \notin {"user", "upsert"}
    BY <1>4, <2>1 DEF Take, Begin, PipeInv, TypeInv
  <2> QED BY <1>2, <1>4, <2>2 DEF Take, store
<1>5. CASE Return \/ Exit
  <2>1. \A p \in Processes : \/ call'[p] = call[p]
                             \/ call'[p].pc \notin {"user", "upsert"}
    BY <1>5 DEF Return, Exit, Idle, PipeInv, TypeInv
  <2> QED BY <1>2, <1>5, <2>1 DEF Return, Exit, store
<1>6. CASE Sigterm \/ Restart
  BY <1>2, <1>6 DEF Sigterm, Restart, store
<1>7. CASE UNCHANGED vars
  BY <1>2, <1>7 DEF vars
<1> QED BY <1>1, <1>3, <1>4, <1>5, <1>6, <1>7 DEF Next, Loop

\* What the caches hold is in the tables, through failed and repeated writes,
\* replies that were lost, crashes and restarts.
THEOREM CachesFollowTables == Spec => []SeenIsWritten
<1>1. Written => SeenIsWritten
  BY DEF Written
<1> QED BY PipeInit, PipeStep, WrittenInit, WrittenStep, <1>1, PTL DEF Spec

\* The foreign key from a message to its channel never fails an upsert.
THEOREM ChannelsComeFirst == Spec => []ChannelBeforeMessage
<1>1. Written => ChannelBeforeMessage
  BY DEF Written
<1> QED BY PipeInit, PipeStep, WrittenInit, WrittenStep, <1>1, PTL DEF Spec
-----------------------------------------------------------------------------
(* A step of the live path touches no cache but the consumer's.            *)
LEMMA OneCacheStep == PipeInv /\ Written /\ OneCache /\ [Next]_vars => OneCache'
<1> SUFFICES ASSUME PipeInv, Written, OneCache, [Next]_vars PROVE OneCache'
  OBVIOUS
<1>1. CASE Step \/ StepFails
  <2>1. \A p \in Processes \ {Consumer} : seen'[p] = seen[p]
    BY <1>1, CacheFollows, PipelineAssumption DEF Step, StepFails
  <2> QED BY <2>1 DEF OneCache
<1>2. CASE seen' \in {seen, [seen EXCEPT ![Consumer] = NoneSeen]}
  BY <1>2 DEF OneCache, PipeInv, TypeInv
<1> QED BY <1>1, <1>2 DEF Next, Deliver, Loop, PublishWrite, PublishRemove, Publish,
           Redeliver, Take, Return, Sigterm, Exit, Restart, vars

(* A row that its process has cached is not written again.                 *)
LEMMA CachedStays ==
    ASSUME PipeInv, OneCache, [Next]_vars, NEW p \in Processes
    PROVE  /\ \A c \in seen[p].channels : channels'[c] = channels[c]
           /\ \A u \in seen[p].users : users'[u] = users[u]
<1>1. /\ seen[p].channels \subseteq Channels
      /\ seen[p].users \subseteq Users
      /\ p # Consumer => seen[p] = NoneSeen
  BY DEF PipeInv, TypeInv, OneCache
<1>2. CASE UNCHANGED <<channels, users>>
  BY <1>2
<1>3. CASE Step \/ StepFails
  <2>1. /\ \/ UNCHANGED channels
           \/ ~KnownChannel(Consumer) /\ WriteChannel(Consumer)
        /\ \/ UNCHANGED users
           \/ ~KnownUser(Consumer) /\ WriteUser(Consumer)
    BY <1>3 DEF Step, StepFails, Apply, EnsureChannel, EnsureUser, UpsertMessage,
                DeleteMessage, WriteFails, AtStatement, WriteChannel, WriteUser,
                WriteMessage, store
  <2>2. CASE p = Consumer
    BY <1>1, <2>1, <2>2 DEF KnownChannel, KnownUser, WriteChannel, WriteUser,
                            PipeInv, TypeInv
  <2>3. CASE p # Consumer
    BY <1>1, <2>3 DEF NoneSeen
  <2> QED BY <2>2, <2>3
<1> QED BY <1>2, <1>3 DEF Next, Deliver, Loop, PublishWrite, PublishRemove, Publish,
           Redeliver, Take, Return, Sigterm, Exit, Restart, store, vars

\* A name is turned into a stub only by a process that has yet to write its row.
THEOREM CachedNamesStay == Spec => CachedRowsStay
<1>1. PipeInv /\ OneCache /\ [Next]_vars =>
        [\A p \in Processes :
            /\ \A c \in seen[p].channels : channels'[c] = channels[c]
            /\ \A u \in seen[p].users : users'[u] = users[u]]_vars
  BY CachedStays
<1> QED BY PipeInit, PipeStep, WrittenInit, WrittenStep, OneCacheStep, <1>1, PTL
        DEF Spec, CachedRowsStay
=============================================================================
