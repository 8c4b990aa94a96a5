--------------------------- MODULE DeliveryProofs ---------------------------
(***************************************************************************)
(* The live path from an event to its row: for any workspace and any number *)
(* of events the rows follow Slack as far as nothing was lost or repeated, *)
(* and never go back.                                                      *)
(*                                                                         *)
(* The invariant goes event by event.  The events of one message wait in   *)
(* line (InLine), the last of them is the last change of it (LastIsTop),   *)
(* the loop is at work on the one it took (TurnOK); and a row is right, or *)
(* the event that will put it right is still to be handled (RowOK).  Each  *)
(* step is shown to keep the line first, and then the row.                 *)
(***************************************************************************)
EXTENDS PipelineProofs, FiniteSetTheorems

-----------------------------------------------------------------------------
(***************************************************************************)
(* Order of delivery.  Only two things about an event matter here: the     *)
(* message it is about, and its rank among the changes of that message.    *)
(***************************************************************************)
Rank(ev) == CASE ev.subtype = subtypeChanged -> ev.message.version
              [] ev.subtype = subtypeDeleted -> MaxVersion + 1
              [] OTHER -> ev.version

\* The rank of the last change of m.
Top(m) == IF m \in gone THEN MaxVersion + 1 ELSE version[m]

Places(m) == {i \in 1..Len(events) : About(events[i]) = m}
InHand(m) == {ev \in current : About(ev) = m}

Repeated(m) == \E ev \in resent : About(ev) = m

\* The loop handles one event at a time, with the action Dispatch made of it;
\* the channel and the event in hand go with the process.
TurnOK ==
    /\ \/ current = {} /\ call[Consumer] = Idle
       \/ \E ev \in current :
             /\ current = {ev}
             /\ ev \in PublishedEvents
             /\ call[Consumer].pc # "idle"
             /\ call[Consumer].act = Dispatch(ChannelOf[About(ev)], ev)
    /\ proc = "down" => events = <<>> /\ current = {}
    /\ proc \in {"up", "stopping", "down"}

\* Unless one was repeated, the events of a message wait in their order, each
\* with its envelope unacknowledged, behind the one in hand.
InLine(m) == ~Repeated(m) =>
    /\ \A i, j \in Places(m) : i < j => Rank(events[i]) < Rank(events[j])
    /\ \A i \in Places(m) : events[i] \in unacked
    /\ \A ev \in InHand(m), i \in Places(m) : Rank(ev) < Rank(events[i])

\* No event of the message was lost or repeated, or will be for want of a place
\* in the channel.
Accounted(m) ==
    /\ \A ev \in lost \cup resent : About(ev) # m
    /\ \A ev \in unacked : About(ev) = m => \E i \in Places(m) : events[i] = ev
    /\ call[Consumer].pc = "error" => InHand(m) = {}

\* The last event of the message on its way is about its last change.
LastIsTop(m) == Accounted(m) =>
    /\ \A i \in Places(m) : (\A j \in Places(m) : j <= i) =>
           Rank(events[i]) = Top(m)
    /\ Places(m) = {} => \A ev \in InHand(m) : Rank(ev) = Top(m)

\* Once the last event is taken, the row is right, or will be when the call
\* that handles the event has written it.
RowOK(m) == Accounted(m) /\ Places(m) = {} =>
    \/ messages[m] = Expected(m)
    \/ m \in Past /\ messages[m] = 0
    \/ InHand(m) # {} /\ call[Consumer].pc \notin {"done", "error"}

\* Rows are of admitted messages, in a version that Slack has published.
RowsSound == \A m \in Messages :
    messages[m] # 0 => m \in Admitted /\ messages[m] <= version[m]

\* Nothing on its way is older than the row; after a delete only the delete.
NotAhead(m) == ~Repeated(m) =>
    /\ \A i \in Places(m) : messages[m] <= Rank(events[i])
    /\ \A ev \in InHand(m) : messages[m] <= Rank(ev)
    /\ m \in gone /\ Deleted(m) \notin unacked =>
           /\ \A i \in Places(m) : Rank(events[i]) > MaxVersion
           /\ \A ev \in InHand(m) : Rank(ev) > MaxVersion

Ordered == \A m \in Messages : InLine(m) /\ LastIsTop(m)
-----------------------------------------------------------------------------
(* What a published event is about, and how new it is.                     *)
LEMMA EventFacts ==
    ASSUME TypeInv, NEW ev \in PublishedEvents
    PROVE  /\ About(ev) \in Messages
           /\ Rank(ev) \in 1..MaxVersion + 1
           /\ Rank(ev) <= Top(About(ev))
           /\ Rank(ev) > MaxVersion => ev = Deleted(About(ev))
<1>1. CASE \E m \in Messages : version[m] > 0 /\ ev = Posted(m)
  <2>1. PICK m \in Messages : version[m] > 0 /\ ev = Posted(m)
    BY <1>1
  <2>2. About(ev) = m /\ Rank(ev) = 1
    BY <2>1, PipelineAssumption DEF About, Rank, Posted
  <2> QED BY <2>1, <2>2, SlackAssumption DEF Top, TypeInv
<1>2. CASE \E m \in Messages, v \in 1..MaxVersion : v <= version[m] /\ ev = Edited(m, v)
  <2>1. PICK m \in Messages, v \in 1..MaxVersion : v <= version[m] /\ ev = Edited(m, v)
    BY <1>2
  <2>2. About(ev) = m /\ Rank(ev) = v
    BY <2>1 DEF About, Rank, Edited, subtypeChanged, subtypeDeleted
  <2> QED BY <2>1, <2>2, SlackAssumption DEF Top, TypeInv
<1>3. CASE \E m \in gone : ev = Deleted(m)
  <2>1. PICK m \in gone : ev = Deleted(m)
    BY <1>3
  <2>2. About(ev) = m /\ Rank(ev) = MaxVersion + 1
    BY <2>1 DEF About, Rank, Deleted, subtypeChanged, subtypeDeleted
  <2> QED BY <2>1, <2>2, SlackAssumption DEF Top, TypeInv
<1> QED BY <1>1, <1>2, <1>3 DEF PublishedEvents

(* The action made of an event is about the same message, and as new.      *)
LEMMA ActionFacts ==
    ASSUME TypeInv, NEW ev \in PublishedEvents, NEW act,
           act = Dispatch(ChannelOf[About(ev)], ev)
    PROVE  \/ act = ActionSkip /\ About(ev) \notin Admitted
           \/ /\ act = ActionDelete(About(ev))
              /\ Rank(ev) = MaxVersion + 1
              /\ About(ev) \in gone
           \/ /\ act = [kind |-> "upsert", ts |-> About(ev), version |-> Rank(ev)]
              /\ About(ev) \in Admitted
              /\ Rank(ev) \in 1..MaxVersion
<1>1. CASE \E m \in Messages : version[m] > 0 /\ ev = Posted(m)
  <2>1. PICK m \in Messages : version[m] > 0 /\ ev = Posted(m)
    BY <1>1
  <2>2. /\ About(ev) = m
        /\ Rank(ev) = 1
        /\ ev.subtype \notin {subtypeChanged, subtypeDeleted}
        /\ msgFromEvent(ev) = [ts |-> m, subtype |-> SubtypeOf[m], version |-> 1]
    BY <2>1, PipelineAssumption DEF About, Rank, Posted, msgFromEvent
  <2>3. Upsert(msgFromEvent(ev)) =
            IF SubtypePersisted(SubtypeOf[m])
            THEN [kind |-> "upsert", ts |-> m, version |-> 1] ELSE ActionSkip
    BY <2>2 DEF Upsert, messageToRow
  <2> QED BY <2>2, <2>3, SlackAssumption DEF Dispatch, Admitted
<1>2. CASE \E m \in Messages, v \in 1..MaxVersion : v <= version[m] /\ ev = Edited(m, v)
  <2>1. PICK m \in Messages, v \in 1..MaxVersion : v <= version[m] /\ ev = Edited(m, v)
    BY <1>2
  <2>2. /\ About(ev) = m
        /\ Rank(ev) = v
        /\ ev.subtype = subtypeChanged
        /\ ev.subtype # subtypeDeleted
        /\ ev.message = [ts |-> m, subtype |-> SubtypeOf[m], version |-> v]
    BY <2>1 DEF About, Rank, Edited, subtypeChanged, subtypeDeleted
  <2>3. Upsert(ev.message) =
            IF SubtypePersisted(SubtypeOf[m])
            THEN [kind |-> "upsert", ts |-> m, version |-> v] ELSE ActionSkip
    BY <2>2 DEF Upsert, messageToRow
  <2> QED BY <2>2, <2>3 DEF Dispatch, Admitted
<1>3. CASE \E m \in gone : ev = Deleted(m)
  <2>1. PICK m \in gone : ev = Deleted(m)
    BY <1>3
  <2>2. /\ About(ev) = m
        /\ Rank(ev) = MaxVersion + 1
        /\ ev.subtype = subtypeDeleted
        /\ ev.subtype # subtypeChanged
        /\ ev.deletedTS = m
    BY <2>1 DEF About, Rank, Deleted, subtypeChanged, subtypeDeleted
  <2> QED BY <2>1, <2>2 DEF Dispatch, Admitted
<1> QED BY <1>1, <1>2, <1>3 DEF PublishedEvents

(* A change is published with a rank above all that went before it.        *)
LEMMA NewEvent ==
    ASSUME PipeInv, NEW k \in Messages, PublishWrite(k) \/ PublishRemove(k)
    PROVE  /\ \E ev \in PublishedEvents' :
                 /\ Publish(ev)
                 /\ About(ev) = k
                 /\ Rank(ev) = Top(k)'
                 /\ k \in gone' => ev = Deleted(k)
           /\ Top(k) < Top(k)'
           /\ k \notin gone
           /\ \A m \in Messages \ {k} : /\ version'[m] = version[m]
                                        /\ m \in gone' <=> m \in gone
<1>0. PipeInv'
  BY WriteKeeps, RemoveKeeps
<1>1. CASE PublishWrite(k)
  <2>1. /\ version' = [version EXCEPT ![k] = version[k] + 1]
        /\ version[k] \in 0..MaxVersion /\ version[k] < MaxVersion
        /\ gone' = gone /\ k \notin gone
    BY <1>1 DEF PublishWrite, Write, PipeInv, TypeInv
  <2>2. Top(k) = version[k] /\ Top(k)' = version[k] + 1
    BY <2>1 DEF Top, PipeInv, TypeInv
  <2>3. CASE version[k] = 0
    <3>1. Posted(k) \in PublishedEvents'
      BY <2>1, <2>3, <1>0 DEF PublishedEvents, Posted, PipeInv, TypeInv
    <3>2. About(Posted(k)) = k /\ Rank(Posted(k)) = 1
      BY PipelineAssumption DEF About, Rank, Posted
    <3> QED BY <1>1, <2>1, <2>2, <2>3, <3>1, <3>2 DEF PublishWrite
  <2>4. CASE version[k] # 0
    <3> DEFINE v == version[k] + 1
    <3>1. v \in 1..MaxVersion /\ v <= version'[k]
      BY <2>1, <2>4, SlackAssumption DEF PipeInv, TypeInv
    <3>2. <<k, v>> \in {d \in Messages \X (1..MaxVersion) : d[2] <= version'[d[1]]}
      BY <3>1
    <3>3. Edited(<<k, v>>[1], <<k, v>>[2]) \in PublishedEvents'
      BY <3>2 DEF PublishedEvents, Edited
    <3>4. About(Edited(k, v)) = k /\ Rank(Edited(k, v)) = v
      BY DEF About, Rank, Edited, subtypeChanged, subtypeDeleted
    <3> QED BY <1>1, <2>1, <2>2, <2>4, <3>3, <3>4 DEF PublishWrite
  <2> QED BY <2>3, <2>4
<1>2. CASE PublishRemove(k)
  <2>1. /\ gone' = gone \cup {k} /\ k \notin gone
        /\ version' = version /\ version[k] \in 0..MaxVersion
        /\ Publish(Deleted(k))
    BY <1>2 DEF PublishRemove, Remove, Visible, PipeInv, TypeInv
  <2>2. Top(k) = version[k] /\ Top(k)' = MaxVersion + 1
    BY <2>1 DEF Top
  <2>3. Deleted(k) \in PublishedEvents'
    BY <2>1 DEF PublishedEvents, Deleted
  <2>4. About(Deleted(k)) = k /\ Rank(Deleted(k)) = MaxVersion + 1
    BY DEF About, Rank, Deleted, subtypeChanged, subtypeDeleted
  <2> QED BY <2>1, <2>2, <2>3, <2>4, SlackAssumption
<1> QED BY <1>1, <1>2

(* At first the loop is idle.                                              *)
LEMMA TurnInit == Init => TurnOK
BY PipelineAssumption DEF Init, ApplyInit, TurnOK

(* A step of Apply keeps the action it works on.                           *)
LEMMA ApplyActs ==
    ASSUME PipeInv, NEW p \in Processes, Apply(p) \/ WriteFails(p)
    PROVE  /\ call[p].pc \in {"channel", "user", "upsert", "delete"}
           /\ call'[p].pc \in {"user", "upsert", "done", "error"}
           /\ call'[p].act = call[p].act
           /\ \A q \in Processes \ {p} : call'[q] = call[q]
           /\ Apply(p) => call'[p].pc # "error"
           /\ messages' # messages => call[p].pc \in {"upsert", "delete"}
           /\ call[p].pc = "upsert" => call'[p].pc \in {"done", "error"}
           /\ call'[p].pc = "done" =>
                 \/ /\ call[p].pc = "upsert"
                    /\ messages' = [messages EXCEPT ![Msg(p)] = call[p].act.version]
                 \/ /\ call[p].pc = "delete"
                    /\ messages' = [messages EXCEPT ![Msg(p)] = 0]
           /\ \/ UNCHANGED messages
              \/ /\ call[p].pc = "upsert"
                 /\ messages' = [messages EXCEPT ![Msg(p)] = call[p].act.version]
              \/ /\ call[p].pc = "delete"
                 /\ messages' = [messages EXCEPT ![Msg(p)] = 0]
<1>1. PICK pc \in {"user", "upsert", "done", "error"} : Goto(p, pc)
  BY DEF Apply, EnsureChannel, EnsureUser, UpsertMessage, DeleteMessage, WriteFails
<1>2. call[p].pc \in {"channel", "user", "upsert", "delete"}
  BY DEF Apply, EnsureChannel, EnsureUser, UpsertMessage, DeleteMessage,
         WriteFails, AtStatement
<1>3. call[p] = [pc |-> call[p].pc, act |-> call[p].act]
  BY <1>2, UpsertCall, DeleteCall DEF PipeInv, Genuine
<1>4. call'[p] = [pc |-> pc, act |-> call[p].act]
  BY <1>1, <1>3 DEF Goto, PipeInv, TypeInv
<1>5. \A q \in Processes \ {p} : call'[q] = call[q]
  BY <1>1 DEF Goto, PipeInv, TypeInv
<1>6. /\ UNCHANGED messages \/ call[p].pc \in {"upsert", "delete"}
      /\ \/ UNCHANGED messages
         \/ /\ call[p].pc = "upsert"
            /\ messages' = [messages EXCEPT ![Msg(p)] = call[p].act.version]
         \/ /\ call[p].pc = "delete"
            /\ messages' = [messages EXCEPT ![Msg(p)] = 0]
  BY DEF Apply, EnsureChannel, EnsureUser, UpsertMessage, DeleteMessage, WriteFails,
         AtStatement, WriteChannel, WriteUser, WriteMessage, store
<1>7. call'[p].pc \in {"user", "upsert", "done", "error"}
  BY <1>4
<1>8. CASE Apply(p)
  <2>1. /\ EnsureChannel(p) => call'[p].pc = "user"
        /\ EnsureUser(p) => call'[p].pc = "upsert"
        /\ UpsertMessage(p) \/ DeleteMessage(p) => call'[p].pc = "done"
    BY <1>3 DEF EnsureChannel, EnsureUser, UpsertMessage, DeleteMessage, Goto,
                PipeInv, TypeInv
  <2>2. call'[p].pc = "done" => UpsertMessage(p) \/ DeleteMessage(p)
    BY <1>8, <2>1 DEF Apply
  <2>3. /\ UpsertMessage(p) =>
             /\ call[p].pc = "upsert"
             /\ messages' = [messages EXCEPT ![Msg(p)] = call[p].act.version]
        /\ DeleteMessage(p) =>
             /\ call[p].pc = "delete"
             /\ messages' = [messages EXCEPT ![Msg(p)] = 0]
    BY DEF UpsertMessage, DeleteMessage, WriteMessage
  <2>4. call[p].pc = "upsert" => call'[p].pc = "done"
    BY <1>8, <2>1 DEF Apply, EnsureChannel, EnsureUser, DeleteMessage
  <2>5. call'[p].pc # "error"
    BY <1>8, <2>1 DEF Apply
  <2> QED BY <1>2, <1>4, <1>5, <1>6, <2>2, <2>3, <2>4, <2>5
<1>9. CASE WriteFails(p)
  <2>1. call'[p].pc = "error"
    BY <1>3, <1>9 DEF WriteFails, Goto, PipeInv, TypeInv
  <2> QED BY <1>2, <1>4, <1>5, <1>6, <1>8, <1>9, <2>1
<1> QED BY <1>8, <1>9

(* What Slack shows only moves on, and only by what is published.          *)
LEMMA SlackGrows ==
    ASSUME PipeInv, [Next]_vars
    PROVE  gone \subseteq gone' /\ \A m \in Messages : version[m] <= version'[m]
<1>1. ASSUME NEW k \in Messages, PublishWrite(k) \/ PublishRemove(k)
      PROVE  gone \subseteq gone' /\ \A m \in Messages : version[m] <= version'[m]
  BY <1>1 DEF PublishWrite, PublishRemove, Write, Remove, PipeInv, TypeInv
<1>2. ASSUME UNCHANGED <<version, gone>>
      PROVE  gone \subseteq gone' /\ \A m \in Messages : version[m] <= version'[m]
  BY <1>2 DEF PipeInv, TypeInv
<1> QED BY <1>1, <1>2 DEF Next, Deliver, Loop, Redeliver, Take, Step, StepFails,
           Return, Sigterm, Exit, Restart, slack, vars

(* So do the events it has published.                                      *)
LEMMA PublishedStay ==
    ASSUME PipeInv, [Next]_vars
    PROVE  PublishedEvents \subseteq PublishedEvents'
BY PipeStep, SlackGrows, GrowingSlack DEF PipeInv

(* The loop stays with the event in hand until it returns or exits.        *)
LEMMA TurnStep == PipeInv /\ TurnOK /\ [Next]_vars => TurnOK'
<1> SUFFICES ASSUME PipeInv, TurnOK, [Next]_vars PROVE TurnOK'
  OBVIOUS
<1>0. /\ Consumer \in Processes
      /\ DOMAIN call = Processes
      /\ PublishedEvents \subseteq PublishedEvents'
  BY PipelineAssumption, PublishedStay DEF PipeInv, TypeInv
<1>1. CASE UNCHANGED <<current, call>> /\ (proc' = "down" => events' = <<>>)
           /\ proc' \in {"up", "stopping", "down"}
           /\ (proc' = "down" => proc = "down")
  BY <1>0, <1>1 DEF TurnOK
<1>2. CASE Deliver
  BY <1>1, <1>2 DEF Deliver, PublishWrite, PublishRemove, Publish, Redeliver, TurnOK
<1>3. CASE Take
  <2> DEFINE ev == Head(events)
             act == Dispatch(ChannelOf[About(ev)], ev)
  <2>1. ev \in PublishedEvents
    BY <1>3 DEF Take, PipeInv, Genuine
  <2>2. /\ call' = [call EXCEPT ![Consumer] = [pc |-> FirstStep(act.kind), act |-> act]]
        /\ current' = {ev}
        /\ proc' = proc /\ proc # "down"
    BY <1>3 DEF Take, Begin
  <2> HIDE DEF ev, act
  <2>3. /\ call'[Consumer].pc = FirstStep(act.kind)
        /\ call'[Consumer].act = act
    BY <1>0, <2>2
  <2>4. FirstStep(act.kind) # "idle"
    BY DEF FirstStep
  <2> QED BY <1>0, <2>1, <2>2, <2>3, <2>4 DEF TurnOK, act
<1>4. CASE Step \/ StepFails
  <2>1. Apply(Consumer) \/ WriteFails(Consumer)
    BY <1>4 DEF Step, StepFails
  <2>2. /\ call[Consumer].pc # "idle" /\ call'[Consumer].pc # "idle"
        /\ call'[Consumer].act = call[Consumer].act
    BY <1>0, <2>1, ApplyActs
  <2>3. call[Consumer] # Idle
    BY <2>2 DEF Idle
  <2>4. UNCHANGED <<current, proc, events>>
    BY <1>4 DEF Step, StepFails, delivery
  <2> QED BY <1>0, <2>2, <2>3, <2>4 DEF TurnOK
<1>5. CASE Return \/ Exit
  <2>1. call'[Consumer] = Idle /\ current' = {}
    BY <1>0, <1>5 DEF Return, Exit
  <2> QED BY <1>5, <2>1 DEF Return, Exit, TurnOK
<1>6. CASE Sigterm \/ Restart \/ UNCHANGED vars
  BY <1>1, <1>6 DEF Sigterm, Restart, vars, TurnOK
<1> QED BY <1>2, <1>3, <1>4, <1>5, <1>6 DEF Next, Loop
-----------------------------------------------------------------------------
(* Places when an event joins the channel, and when the first one leaves.  *)
LEMMA PlacesAppended ==
    ASSUME PipeInv, NEW ev, events' = Append(events, ev), NEW m
    PROVE  /\ Len(events) \in Nat
           /\ Places(m)' = Places(m) \cup
                  (IF About(ev) = m THEN {Len(events) + 1} ELSE {})
           /\ \A i \in 1..Len(events) : events'[i] = events[i]
           /\ events'[Len(events) + 1] = ev
<1>1. /\ Len(events) \in Nat
      /\ Len(events') = Len(events) + 1
      /\ \A i \in 1..Len(events) : events'[i] = events[i]
      /\ events'[Len(events) + 1] = ev
  BY DEF PipeInv, Genuine
<1>2. Places(m)' = {i \in 1..Len(events') : About(events'[i]) = m}
  BY DEF Places
<1>3. \A i : i \in 1..Len(events') <=> i \in 1..Len(events) \/ i = Len(events) + 1
  BY <1>1
<1> QED BY <1>1, <1>2, <1>3 DEF Places

(* Those of the others move up by one.                                     *)
LEMMA PlacesTaken ==
    ASSUME PipeInv, events # <<>>, events' = Tail(events), NEW m
    PROVE  /\ Len(events) \in Nat \ {0}
           /\ Head(events) = events[1]
           /\ 1 \in Places(m) <=> About(Head(events)) = m
           /\ \A i \in Places(m)' : /\ i \in Nat \ {0}
                                    /\ i + 1 \in Places(m)
                                    /\ events'[i] = events[i + 1]
           /\ \A i \in Places(m) : i = 1 \/ /\ i - 1 \in Places(m)'
                                            /\ events'[i - 1] = events[i]
<1>1. /\ Len(events) \in Nat \ {0}
      /\ Len(events') = Len(events) - 1
      /\ Head(events) = events[1]
      /\ \A i \in 1..Len(events') : events'[i] = events[i + 1]
  BY DEF PipeInv, Genuine
<1>2. /\ Places(m)' = {i \in 1..Len(events') : About(events'[i]) = m}
      /\ Places(m) = {i \in 1..Len(events) : About(events[i]) = m}
  BY DEF Places
<1>3. 1 \in Places(m) <=> About(Head(events)) = m
  BY <1>1, <1>2
<1>4. ASSUME NEW i \in Places(m)'
      PROVE  i \in Nat \ {0} /\ i + 1 \in Places(m) /\ events'[i] = events[i + 1]
  BY <1>1, <1>2
<1>5. ASSUME NEW i \in Places(m), i # 1
      PROVE  i - 1 \in Places(m)' /\ events'[i - 1] = events[i]
  <2>1. i - 1 \in 1..Len(events') /\ (i - 1) + 1 = i
    BY <1>1, <1>2, <1>5
  <2> QED BY <1>1, <1>2, <2>1
<1> QED BY <1>1, <1>3, <1>4, <1>5

(* An unpublished change of another message, or none, leaves this one's     *)
(* place in Slack.                                                         *)
LEMMA TopStays ==
    ASSUME NEW m \in Messages, version'[m] = version[m], m \in gone' <=> m \in gone
    PROVE  Top(m)' = Top(m) /\ Expected(m)' = Expected(m)
BY DEF Top, Expected, Admitted

(* The channel stays as it is: a step of a call, its end, a signal.        *)
LEMMA LineStays ==
    ASSUME PipeInv, TurnOK, NEW m \in Messages,
           UNCHANGED <<version, gone, unacked, resent, events>>,
           \/ /\ Step \/ StepFails
           \/ Return
           \/ UNCHANGED <<current, lost, call>>
    PROVE  /\ Accounted(m)' => Accounted(m)
           /\ InLine(m) => InLine(m)'
           /\ LastIsTop(m) => LastIsTop(m)'
<1>1. /\ Consumer \in Processes
      /\ Top(m)' = Top(m)
      /\ Places(m)' = Places(m)
      /\ Repeated(m)' = Repeated(m)
  BY PipelineAssumption, TopStays DEF Places, Repeated
<1>2. InHand(m)' \subseteq InHand(m) /\ lost \subseteq lost'
  BY DEF Step, StepFails, Return, delivery, InHand
<1>3. Accounted(m)' => (call[Consumer].pc = "error" => InHand(m) = {})
  <2>1. CASE Step \/ StepFails
    <3>1. call[Consumer].pc # "error"
      BY <1>1, <2>1, ApplyActs DEF Step, StepFails
    <3> QED BY <3>1
  <2>2. CASE Return
    BY <2>2 DEF Return, Accounted, InHand
  <2>3. CASE UNCHANGED <<current, lost, call>>
    BY <2>3 DEF Accounted, InHand
  <2> QED BY <2>1, <2>2, <2>3
<1>4. Accounted(m)' => Accounted(m)
  BY <1>1, <1>2, <1>3 DEF Accounted
<1>5. InLine(m) => InLine(m)'
  BY <1>1, <1>2 DEF InLine
<1>6. LastIsTop(m) => LastIsTop(m)'
  BY <1>1, <1>2, <1>4 DEF LastIsTop
<1> QED BY <1>4, <1>5, <1>6

(* An event joins the channel behind all others of its message; without a   *)
(* process to receive it, the message is no longer accounted for.           *)
LEMMA LinePublished ==
    ASSUME PipeInv, TurnOK, NEW k \in Messages, PublishWrite(k) \/ PublishRemove(k),
           NEW m \in Messages
    PROVE  /\ m # k => /\ Accounted(m)' => Accounted(m)
                       /\ Places(m)' = Places(m)
                       /\ Top(m)' = Top(m) /\ Expected(m)' = Expected(m)
           /\ m = k => ~(Accounted(m)' /\ Places(m)' = {})
           /\ InLine(m) => InLine(m)'
           /\ LastIsTop(m) => LastIsTop(m)'
           /\ UNCHANGED <<store, seen, call, resent, current, proc, lost>>
<1>1. PICK ev \in PublishedEvents' :
          /\ Publish(ev)
          /\ About(ev) = k
          /\ Rank(ev) = Top(k)'
  BY NewEvent
<1>2. Top(k) < Top(k)' /\ \A n \in Messages \ {k} : /\ version'[n] = version[n]
                                                    /\ n \in gone' <=> n \in gone
  BY NewEvent
<1>3. /\ unacked' = unacked \cup {ev}
      /\ UNCHANGED <<store, seen, call, resent, current, proc, lost>>
      /\ proc = "down" => events' = events
      /\ proc # "down" => events' = Append(events, ev)
  BY <1>1 DEF Publish
<1>4. /\ Len(events) \in Nat
      /\ \A e \in unacked : e \in PublishedEvents
      /\ \A i \in 1..Len(events) : events[i] \in PublishedEvents
      /\ \A e \in current : e \in PublishedEvents
  BY DEF PipeInv, Genuine, TurnOK
<1>5. \A e \in PublishedEvents : Rank(e) \in Int /\ (About(e) = k => Rank(e) <= Top(k))
  BY EventFacts DEF PipeInv
<1>6. Top(k) \in Int /\ Top(k)' \in Int
  <2>1. PipeInv'
    BY WriteKeeps, RemoveKeeps
  <2> QED BY <2>1, SlackAssumption DEF Top, PipeInv, TypeInv
<1>7. Repeated(m)' = Repeated(m) /\ InHand(m)' = InHand(m)
  BY <1>3 DEF Repeated, InHand
<1>8. CASE m # k
  <2>1. Top(m)' = Top(m) /\ Expected(m)' = Expected(m)
    BY <1>2, <1>8, TopStays
  <2>2. /\ Places(m)' = Places(m)
        /\ \A i \in Places(m) : events'[i] = events[i]
    <3>1. CASE proc = "down"
      BY <1>3, <3>1 DEF Places
    <3>2. CASE proc # "down"
      BY <1>1, <1>3, <1>8, <3>2, PlacesAppended DEF Places
    <3> QED BY <3>1, <3>2
  <2>3. Accounted(m)' => Accounted(m)
    BY <1>1, <1>3, <1>7, <1>8, <2>2 DEF Accounted
  <2>4. InLine(m) => InLine(m)'
    BY <1>3, <1>7, <2>2 DEF InLine
  <2>5. LastIsTop(m) => LastIsTop(m)'
    BY <1>7, <2>1, <2>2, <2>3 DEF LastIsTop
  <2> QED BY <1>3, <1>8, <2>1, <2>2, <2>3, <2>4, <2>5
<1>9. CASE m = k /\ proc = "down"
  <2>1. events' = <<>> /\ Places(m)' = {} /\ Places(m) = {} /\ InHand(m) = {}
    BY <1>3, <1>9 DEF TurnOK, Places, InHand
  <2>2. ~Accounted(m)'
    BY <1>1, <1>3, <1>9, <2>1 DEF Accounted
  <2> QED BY <1>3, <1>7, <1>9, <2>1, <2>2 DEF InLine, LastIsTop
<1>10. CASE m = k /\ proc # "down"
  <2> DEFINE n == Len(events) + 1
  <2>1. /\ Places(m)' = Places(m) \cup {n}
        /\ \A i \in Places(m) : i \in Int /\ i < n /\ events'[i] = events[i]
        /\ n \in Int /\ n \notin Places(m)
        /\ events'[n] = ev
    BY <1>1, <1>3, <1>4, <1>10, PlacesAppended DEF Places
  <2>2. /\ \A i \in Places(m) : Rank(events[i]) \in Int /\ Rank(events[i]) < Rank(ev)
        /\ \A e \in InHand(m) : Rank(e) \in Int /\ Rank(e) < Rank(ev)
    <3>1. \A e \in PublishedEvents : About(e) = m => Rank(e) < Rank(ev)
      BY <1>1, <1>2, <1>5, <1>6, <1>10
    <3> QED BY <1>4, <1>5, <3>1 DEF Places, InHand
  <2> HIDE DEF n
  <2>3. InLine(m) => InLine(m)'
    BY <1>3, <1>7, <2>1, <2>2 DEF InLine
  <2>4. LastIsTop(m)'
    <3>1. ASSUME NEW i \in Places(m)', \A j \in Places(m)' : j <= i
          PROVE  Rank(events'[i]) = Top(m)'
      <4>1. n <= i
        BY <2>1, <3>1
      <4>2. i = n
        BY <2>1, <3>1, <4>1
      <4> QED BY <1>1, <1>10, <2>1, <4>2
    <3>2. Places(m)' # {}
      BY <2>1
    <3> QED BY <3>1, <3>2 DEF LastIsTop
  <2> QED BY <1>3, <1>10, <2>1, <2>3, <2>4
<1> QED BY <1>8, <1>9, <1>10

(* A repeated message is no longer in line; the others are where they were. *)
LEMMA LineRepeated ==
    ASSUME PipeInv, NEW m \in Messages, Redeliver
    PROVE  /\ Accounted(m)' => Accounted(m)
           /\ Accounted(m)' => Places(m)' = Places(m)
           /\ InLine(m) => InLine(m)'
           /\ LastIsTop(m) => LastIsTop(m)'
<1>1. PICK ev \in unacked \ resent :
          events' = Append(events, ev) /\ resent' = resent \cup {ev}
  BY DEF Redeliver
<1>2. UNCHANGED <<version, gone, unacked, current, lost, call>>
  BY DEF Redeliver, slack
<1>3. CASE About(ev) = m
  <2>1. Repeated(m)' /\ ~Accounted(m)'
    BY <1>1, <1>3 DEF Repeated, Accounted
  <2> QED BY <2>1 DEF InLine, LastIsTop
<1>4. CASE About(ev) # m
  <2>1. /\ Places(m)' = Places(m)
        /\ \A i \in Places(m) : events'[i] = events[i]
    BY <1>1, <1>4, PlacesAppended DEF Places
  <2>2. /\ Repeated(m) => Repeated(m)'
        /\ InHand(m)' = InHand(m)
        /\ Top(m)' = Top(m)
    BY <1>1, <1>2, TopStays DEF Repeated, InHand
  <2>3. Accounted(m)' => Accounted(m)
    BY <1>1, <1>2, <2>1, <2>2 DEF Accounted
  <2>4. InLine(m) => InLine(m)'
    BY <1>2, <2>1, <2>2 DEF InLine
  <2>5. LastIsTop(m) => LastIsTop(m)'
    BY <2>1, <2>2, <2>3 DEF LastIsTop
  <2> QED BY <2>1, <2>3, <2>4, <2>5
<1> QED BY <1>3, <1>4

(* The first event of the channel is acknowledged and in hand.             *)
LEMMA LineTaken ==
    ASSUME PipeInv, TurnOK, NEW m \in Messages, Take
    PROVE  /\ Accounted(m)' => Accounted(m)
           /\ current = {} /\ current' = {Head(events)}
           /\ About(Head(events)) # m =>
                 /\ Places(m)' = {} => Places(m) = {}
                 /\ InHand(m)' = {}
           /\ InLine(m) => InLine(m)'
           /\ LastIsTop(m) => LastIsTop(m)'
<1> DEFINE ev == Head(events)
<1>1. /\ events # <<>> /\ events' = Tail(events)
      /\ current' = {ev} /\ unacked' = unacked \ {ev}
      /\ UNCHANGED <<version, gone, resent, lost>>
      /\ call[Consumer].pc = "idle"
  BY DEF Take, slack
<1>2. current = {} /\ InHand(m) = {}
  BY <1>1 DEF TurnOK, InHand
<1>3. /\ Len(events) \in Nat \ {0}
      /\ ev = events[1]
      /\ 1 \in Places(m) <=> About(ev) = m
      /\ \A i \in Places(m)' : /\ i \in Nat \ {0}
                               /\ i + 1 \in Places(m)
                               /\ events'[i] = events[i + 1]
      /\ \A i \in Places(m) : i = 1 \/ /\ i - 1 \in Places(m)'
                                       /\ events'[i - 1] = events[i]
  BY <1>1, PlacesTaken
<1> HIDE DEF ev
<1>4. /\ InHand(m)' = IF About(ev) = m THEN {ev} ELSE {}
      /\ Repeated(m)' = Repeated(m)
      /\ Top(m)' = Top(m)
  BY <1>1, TopStays DEF InHand, Repeated
<1>5. Accounted(m)' => Accounted(m)
  <2> SUFFICES ASSUME Accounted(m)', NEW e \in unacked, About(e) = m
               PROVE  \E i \in Places(m) : events[i] = e
    BY <1>1 DEF Accounted
  <2>1. CASE e = ev
    BY <1>3, <2>1
  <2>2. CASE e # ev
    <3>1. PICK i \in Places(m)' : events'[i] = e
      BY <1>1, <2>2 DEF Accounted
    <3> QED BY <1>3, <3>1
  <2> QED BY <2>1, <2>2
<1>6. InLine(m) => InLine(m)'
  <2> SUFFICES ASSUME InLine(m), ~Repeated(m) PROVE InLine(m)'
    BY <1>4 DEF InLine
  <2>1. \A i, j \in Places(m)' : i < j => Rank(events'[i]) < Rank(events'[j])
    <3> SUFFICES ASSUME NEW i \in Places(m)', NEW j \in Places(m)', i < j
                 PROVE  Rank(events'[i]) < Rank(events'[j])
      OBVIOUS
    <3>1. /\ i + 1 \in Places(m) /\ j + 1 \in Places(m) /\ i + 1 < j + 1
          /\ events'[i] = events[i + 1] /\ events'[j] = events[j + 1]
      BY <1>3
    <3> QED BY <3>1 DEF InLine
  <2>2. \A i \in Places(m)' : About(ev) = m => Rank(ev) < Rank(events'[i])
    <3> SUFFICES ASSUME NEW i \in Places(m)', About(ev) = m
                 PROVE  Rank(ev) < Rank(events'[i])
      OBVIOUS
    <3>1. i + 1 \in Places(m) /\ 1 \in Places(m) /\ 1 < i + 1
      BY <1>3
    <3> QED BY <1>3, <3>1 DEF InLine
  <2>3. \A i \in Places(m)' : events'[i] \in unacked'
    <3> SUFFICES ASSUME NEW i \in Places(m)' PROVE events'[i] \in unacked'
      OBVIOUS
    <3>1. i + 1 \in Places(m) /\ events'[i] = events[i + 1]
      BY <1>3
    <3>2. events'[i] \in unacked /\ About(events'[i]) = m
      BY <3>1 DEF InLine, Places
    <3>3. events'[i] # ev
      <4>1. CASE About(ev) = m
        <5>1. events[i + 1] \in PublishedEvents
          BY <3>1 DEF Places, PipeInv, Genuine
        <5>2. Rank(events'[i]) \in Int
          BY <3>1, <5>1, EventFacts DEF PipeInv
        <5> QED BY <2>2, <4>1, <5>2
      <4>2. CASE About(ev) # m
        BY <3>2, <4>2
      <4> QED BY <4>1, <4>2
    <3> QED BY <1>1, <3>2, <3>3
  <2> QED BY <1>4, <2>1, <2>2, <2>3 DEF InLine
<1>7. LastIsTop(m) => LastIsTop(m)'
  <2> SUFFICES ASSUME LastIsTop(m), Accounted(m)' PROVE LastIsTop(m)'
    BY DEF LastIsTop
  <2>0. \A i \in Places(m) : (\A j \in Places(m) : j <= i) => Rank(events[i]) = Top(m)
    BY <1>5 DEF LastIsTop
  <2>1. ASSUME NEW i \in Places(m)', \A j \in Places(m)' : j <= i
        PROVE  Rank(events'[i]) = Top(m)'
    <3>1. \A j \in Places(m) : j <= i + 1
      <4> SUFFICES ASSUME NEW j \in Places(m), j # 1 PROVE j <= i + 1
        BY <1>3
      <4>1. j - 1 \in Places(m)'
        BY <1>3
      <4>2. j - 1 <= i /\ j \in Int /\ i \in Int
        BY <1>3, <2>1, <4>1 DEF Places
      <4> QED BY <4>2
    <3> QED BY <1>3, <1>4, <2>0, <3>1
  <2>2. ASSUME Places(m)' = {}, About(ev) = m PROVE Rank(ev) = Top(m)'
    <3>1. 1 \in Places(m) /\ \A j \in Places(m) : j <= 1
      BY <1>3, <2>2
    <3> QED BY <1>3, <1>4, <2>0, <3>1
  <2> QED BY <1>4, <2>1, <2>2 DEF LastIsTop
<1> QED BY <1>1, <1>2, <1>3, <1>4, <1>5, <1>6, <1>7 DEF ev

(* With the process go the channel and the event in hand; a message that is *)
(* still accounted for had none of either.                                  *)
LEMMA LineCut ==
    ASSUME PipeInv, TurnOK, NEW m \in Messages, InLine(m), Exit
    PROVE  /\ Accounted(m)' => /\ Accounted(m)
                               /\ Places(m) = {}
                               /\ InHand(m) = {} \/ call[Consumer].pc = "done"
           /\ Places(m)' = {} /\ InHand(m)' = {}
           /\ InLine(m)'
           /\ LastIsTop(m)'
<1>1. /\ events' = <<>> /\ current' = {}
      /\ UNCHANGED <<version, gone, unacked, resent>>
      /\ lost' = IF call[Consumer].pc = "done" THEN lost ELSE lost \cup current
  BY DEF Exit, slack
<1>2. Places(m)' = {} /\ InHand(m)' = {}
  BY <1>1 DEF Places, InHand
<1>3. ASSUME Accounted(m)'
      PROVE  /\ Accounted(m) /\ Places(m) = {}
             /\ InHand(m) = {} \/ call[Consumer].pc = "done"
  <2>1. \A e \in unacked : About(e) # m
    BY <1>1, <1>2, <1>3 DEF Accounted
  <2>2. ~Repeated(m)
    BY <1>1, <1>3 DEF Accounted, Repeated
  <2>3. Places(m) = {}
    BY <2>1, <2>2 DEF InLine, Places
  <2>4. InHand(m) = {} \/ call[Consumer].pc = "done"
    BY <1>1, <1>3 DEF Accounted, InHand
  <2>5. \A e \in lost \cup resent : About(e) # m
    BY <1>1, <1>3 DEF Accounted
  <2> QED BY <2>1, <2>3, <2>4, <2>5 DEF Accounted
<1> QED BY <1>2, <1>3 DEF InLine, LastIsTop

(* The channel is empty at first.                                          *)
LEMMA OrderedInit == Init => Ordered
<1> SUFFICES ASSUME Init, NEW m \in Messages PROVE InLine(m) /\ LastIsTop(m)
  BY DEF Ordered
<1>1. Places(m) = {} /\ InHand(m) = {}
  BY DEF Init, Places, InHand
<1> QED BY <1>1 DEF InLine, LastIsTop

(* No step takes a message out of line.                                    *)
LEMMA OrderedStep == PipeInv /\ TurnOK /\ Ordered /\ [Next]_vars => Ordered'
<1> SUFFICES ASSUME PipeInv, TurnOK, Ordered, [Next]_vars, NEW m \in Messages
             PROVE  InLine(m)' /\ LastIsTop(m)'
  BY DEF Ordered
<1>0. InLine(m) /\ LastIsTop(m)
  BY DEF Ordered
<1>1. ASSUME NEW k \in Messages, PublishWrite(k) \/ PublishRemove(k)
      PROVE  InLine(m)' /\ LastIsTop(m)'
  BY <1>0, <1>1, LinePublished
<1>2. CASE Redeliver
  BY <1>0, <1>2, LineRepeated
<1>3. CASE Take
  BY <1>0, <1>3, LineTaken
<1>4. CASE Exit
  BY <1>0, <1>4, LineCut
<1>5. CASE Step \/ StepFails \/ Return
  BY <1>0, <1>5, LineStays DEF Step, StepFails, Return, slack, delivery
<1>6. CASE Sigterm \/ Restart \/ UNCHANGED vars
  BY <1>0, <1>6, LineStays DEF Sigterm, Restart, vars, slack
<1> QED BY <1>1, <1>2, <1>3, <1>4, <1>5, <1>6 DEF Next, Deliver, Loop
-----------------------------------------------------------------------------
(* There are no rows at first.                                             *)
LEMMA SoundInit == Init => RowsSound
BY DEF Init, ApplyInit, RowsSound

(* What Mirror allows never leaves a row of a version that was not published.*)
LEMMA SoundStep ==
    ASSUME PipeInv, RowsSound, [M!Next]_(M!vars)
    PROVE  RowsSound'
<1>0. version \in [Messages -> 0..MaxVersion] /\ messages \in [Messages -> 0..MaxVersion]
  BY DEF PipeInv, TypeInv
<1>1. ASSUME NEW k \in Messages, M!Publish(k) PROVE RowsSound'
  BY <1>0, <1>1, SlackAssumption DEF M!Publish, RowsSound, Admitted
<1>2. ASSUME NEW k \in Messages, M!Remove(k) PROVE RowsSound'
  BY <1>2 DEF M!Remove, RowsSound, Admitted
<1>3. ASSUME NEW k \in Messages, M!Copy(k) PROVE RowsSound'
  BY <1>0, <1>3, SlackAssumption DEF M!Copy, RowsSound, Admitted
<1>4. ASSUME NEW k \in Messages, M!Drop(k) PROVE RowsSound'
  BY <1>0, <1>4 DEF M!Drop, RowsSound, Admitted
<1>5. CASE UNCHANGED M!vars
  BY <1>5 DEF M!vars, RowsSound, Admitted
<1> QED BY <1>1, <1>2, <1>3, <1>4, <1>5 DEF M!Next

(* What the loop writes while it handles an event.                         *)
LEMMA LoopWrites ==
    ASSUME PipeInv, TurnOK, Step \/ StepFails
    PROVE  \E ev \in PublishedEvents :
             /\ current = {ev} /\ current' = {ev}
             /\ \A m \in Messages : m # About(ev) => messages'[m] = messages[m]
             /\ \/ /\ Rank(ev) = MaxVersion + 1
                   /\ About(ev) \in gone
                   /\ messages'[About(ev)] \in {0, messages[About(ev)]}
                   /\ call'[Consumer].pc = "done" => messages'[About(ev)] = 0
                \/ /\ Rank(ev) \in 1..MaxVersion
                   /\ About(ev) \in Admitted
                   /\ messages'[About(ev)] \in {Rank(ev), messages[About(ev)]}
                   /\ call'[Consumer].pc = "done" => messages'[About(ev)] = Rank(ev)
<1> DEFINE p == Consumer
<1>1. /\ p \in Processes
      /\ Apply(p) \/ WriteFails(p)
      /\ current' = current
  BY PipelineAssumption DEF Step, StepFails, delivery
<1>2. PICK ev \in PublishedEvents :
          current = {ev} /\ call[p].act = Dispatch(ChannelOf[About(ev)], ev)
  <2>1. call[p] # Idle
    BY <1>1, ApplyActs DEF Idle
  <2> QED BY <2>1 DEF TurnOK
<1>3. /\ call[p].pc \in {"channel", "user", "upsert", "delete"}
      /\ call'[p].pc = "done" => call[p].pc \in {"upsert", "delete"}
      /\ call'[p].pc = "done" =>
            \/ /\ call[p].pc = "upsert"
               /\ messages' = [messages EXCEPT ![Msg(p)] = call[p].act.version]
            \/ /\ call[p].pc = "delete"
               /\ messages' = [messages EXCEPT ![Msg(p)] = 0]
      /\ \/ UNCHANGED messages
         \/ /\ call[p].pc = "upsert"
            /\ messages' = [messages EXCEPT ![Msg(p)] = call[p].act.version]
         \/ /\ call[p].pc = "delete"
            /\ messages' = [messages EXCEPT ![Msg(p)] = 0]
  BY <1>1, ApplyActs
<1>4. /\ call[p].pc \in {"channel", "user", "upsert"} => call[p].act.kind = "upsert"
      /\ call[p].pc = "delete" => call[p].act.kind = "delete"
  BY <1>1, UpsertCall, DeleteCall DEF PipeInv, Genuine, ActionDelete
<1>5. About(ev) \in Messages /\ messages \in [Messages -> 0..MaxVersion]
  BY EventFacts DEF PipeInv, TypeInv
<1>6. \/ /\ call[p].act = ActionDelete(About(ev))
         /\ Rank(ev) = MaxVersion + 1
         /\ About(ev) \in gone
      \/ /\ call[p].act = [kind |-> "upsert", ts |-> About(ev), version |-> Rank(ev)]
         /\ About(ev) \in Admitted
         /\ Rank(ev) \in 1..MaxVersion
  <2>1. call[p].act # ActionSkip
    BY <1>3, <1>4 DEF ActionSkip
  <2> QED BY <1>2, <2>1, ActionFacts DEF PipeInv
<1> HIDE DEF p
<1>7. CASE /\ call[p].act = ActionDelete(About(ev))
           /\ Rank(ev) = MaxVersion + 1
           /\ About(ev) \in gone
  <2>1. call[p].pc = "delete" /\ Msg(p) = About(ev)
    BY <1>3, <1>4, <1>7 DEF ActionDelete, Msg
  <2> QED BY <1>1, <1>2, <1>3, <1>5, <1>7, <2>1 DEF p
<1>8. CASE /\ call[p].act = [kind |-> "upsert", ts |-> About(ev), version |-> Rank(ev)]
           /\ About(ev) \in Admitted
           /\ Rank(ev) \in 1..MaxVersion
  <2>1. call[p].pc # "delete" /\ Msg(p) = About(ev) /\ call[p].act.version = Rank(ev)
    BY <1>3, <1>4, <1>8 DEF Msg
  <2> QED BY <1>1, <1>2, <1>3, <1>5, <1>8, <2>1 DEF p
<1> QED BY <1>6, <1>7, <1>8

(* A step of the live path keeps a row right, or on its way to be.         *)
LEMMA RowStep ==
    ASSUME PipeInv, TurnOK, Ordered, RowsSound, [Next]_vars,
           NEW m \in Messages, RowOK(m)
    PROVE  RowOK(m)'
<1> SUFFICES ASSUME Accounted(m)', Places(m)' = {}
             PROVE  \/ messages'[m] = Expected(m)'
                    \/ m \in Past /\ messages'[m] = 0
                    \/ InHand(m)' # {} /\ call'[Consumer].pc \notin {"done", "error"}
  BY DEF RowOK
<1>0. /\ Consumer \in Processes
      /\ InLine(m) /\ LastIsTop(m)
      /\ messages \in [Messages -> 0..MaxVersion]
  BY PipelineAssumption DEF Ordered, PipeInv, TypeInv
<1>1. ASSUME NEW k \in Messages, PublishWrite(k) \/ PublishRemove(k)
      PROVE  RowOK(m)'
  <2>1. m # k
    BY <1>1, LinePublished
  <2>2. /\ Accounted(m) /\ Places(m) = {}
        /\ Expected(m)' = Expected(m)
        /\ UNCHANGED <<messages, call, current>>
    BY <1>1, <2>1, LinePublished DEF store
  <2> QED BY <2>2 DEF RowOK, InHand
<1>2. CASE UNCHANGED <<messages, version, gone, current, call>>
           /\ Accounted(m) /\ Places(m) = {}
  BY <1>2, TopStays DEF RowOK, InHand
<1>3. CASE Redeliver
  BY <1>2, <1>3, LineRepeated DEF Redeliver, slack, store
<1>4. CASE Sigterm \/ Restart \/ UNCHANGED vars
  <2>1. UNCHANGED <<version, gone, unacked, resent, events, current, lost, call, messages>>
    BY <1>4 DEF Sigterm, Restart, vars, slack, store
  <2>2. Accounted(m) /\ Places(m) = {}
    BY <2>1, LineStays DEF Places
  <2> QED BY <1>2, <2>1, <2>2
<1>5. CASE Take
  <2> DEFINE ev == Head(events)
  <2>1. /\ Accounted(m) /\ current = {} /\ current' = {ev}
        /\ About(ev) # m => Places(m) = {}
        /\ UNCHANGED <<messages, version, gone>>
        /\ events # <<>> /\ events' = Tail(events)
    BY <1>5, LineTaken DEF Take, store, slack
  <2>2. Expected(m)' = Expected(m) /\ InHand(m) = {}
    BY <2>1, TopStays DEF InHand
  <2>3. CASE About(ev) # m
    BY <2>1, <2>2, <2>3 DEF RowOK
  <2>4. CASE About(ev) = m
    <3>1. ev \in PublishedEvents
      BY <2>1 DEF PipeInv, Genuine
    <3> DEFINE act == Dispatch(ChannelOf[About(ev)], ev)
    <3>2. /\ call'[Consumer].pc = FirstStep(act.kind)
          /\ InHand(m)' # {}
      BY <1>0, <1>5, <2>1, <2>4 DEF Take, Begin, InHand, PipeInv, TypeInv
    <3>3. CASE act = ActionSkip /\ m \notin Admitted
      BY <2>1, <3>3 DEF RowsSound, Expected, Admitted
    <3>4. CASE act # ActionSkip
      <4>1. act.kind \in {"upsert", "delete"}
        BY <3>1, <3>4, ActionFacts DEF PipeInv, ActionDelete
      <4>2. FirstStep(act.kind) \notin {"done", "error"}
        BY <4>1 DEF FirstStep
      <4> QED BY <3>2, <4>2
    <3>5. act = ActionSkip => About(ev) \notin Admitted
      BY <3>1, ActionFacts DEF PipeInv, ActionDelete, ActionSkip
    <3> QED BY <2>4, <3>3, <3>4, <3>5
  <2> QED BY <2>3, <2>4
<1>6. CASE Step \/ StepFails
  <2>1. /\ UNCHANGED <<version, gone, unacked, resent, events>>
        /\ Apply(Consumer) \/ WriteFails(Consumer)
    BY <1>6 DEF Step, StepFails, slack, delivery
  <2>2. Accounted(m) /\ Places(m) = {} /\ Expected(m)' = Expected(m)
    BY <1>6, <2>1, LineStays, TopStays DEF Places
  <2>3. PICK ev \in PublishedEvents :
             /\ current = {ev} /\ current' = {ev}
             /\ \A n \in Messages : n # About(ev) => messages'[n] = messages[n]
             /\ \/ /\ Rank(ev) = MaxVersion + 1
                   /\ About(ev) \in gone
                   /\ call'[Consumer].pc = "done" => messages'[About(ev)] = 0
                \/ /\ Rank(ev) \in 1..MaxVersion
                   /\ About(ev) \in Admitted
                   /\ call'[Consumer].pc = "done" => messages'[About(ev)] = Rank(ev)
    BY <1>6, LoopWrites
  <2>4. CASE About(ev) # m
    BY <2>2, <2>3, <2>4 DEF RowOK, InHand
  <2>5. CASE About(ev) = m
    <3>1. InHand(m) = {ev} /\ InHand(m)' = {ev}
      BY <2>3, <2>5 DEF InHand
    <3>2. Rank(ev) = Top(m)
      BY <1>0, <2>2, <3>1 DEF LastIsTop
    <3>3. call'[Consumer].pc # "error"
      BY <3>1 DEF Accounted
    <3>4. call'[Consumer].pc = "done" => messages'[m] = Expected(m)
      BY <2>3, <2>5, <3>2, SlackAssumption DEF Top, Expected
    <3> QED BY <2>2, <3>1, <3>3, <3>4
  <2> QED BY <2>4, <2>5
<1>7. CASE Return
  <2>1. /\ UNCHANGED <<version, gone, unacked, resent, events, messages>>
        /\ call[Consumer].pc \in {"done", "error"}
    BY <1>7 DEF Return, slack, store
  <2>2. Accounted(m) /\ Places(m) = {} /\ Expected(m)' = Expected(m)
    BY <1>7, <2>1, LineStays, TopStays DEF Places
  <2> QED BY <2>1, <2>2 DEF RowOK
<1>8. CASE Exit
  <2>1. /\ Accounted(m) /\ Places(m) = {}
        /\ InHand(m) = {} \/ call[Consumer].pc = "done"
    BY <1>0, <1>8, LineCut
  <2>2. Expected(m)' = Expected(m) /\ UNCHANGED messages
    BY <1>8, TopStays DEF Exit, slack, store
  <2> QED BY <2>1, <2>2 DEF RowOK
<1> QED BY <1>1, <1>3, <1>4, <1>5, <1>6, <1>7, <1>8 DEF Next, Deliver, Loop, RowOK

Delivery == TurnOK /\ Ordered /\ RowsSound /\ \A m \in Messages : RowOK(m)

(* Before the first event every row is as Slack shows it, or of the past.  *)
LEMMA DeliveryInit == Init => Delivery
<1> SUFFICES ASSUME Init, NEW m \in Messages PROVE RowOK(m)
  BY TurnInit, OrderedInit, SoundInit DEF Delivery
<1>1. messages[m] = 0
  BY DEF Init, ApplyInit
<1>2. m \notin Past => Expected(m) = 0
  BY DEF Init, SlackInit, Expected, Admitted
<1> QED BY <1>1, <1>2 DEF RowOK

(* The parts of Delivery, each kept by every step.                         *)
LEMMA DeliveryStep == PipeInv /\ Delivery /\ [Next]_vars => Delivery'
BY TurnStep, OrderedStep, MirrorStep, SoundStep, RowStep DEF Delivery

(* What was delivered in full is in the row.                               *)
LEMMA QuietRows ==
    ASSUME NEW m \in Messages, RowOK(m), Quiet,
           \A ev \in lost \cup resent : About(ev) # m
    PROVE  messages[m] = Expected(m) \/ (m \in Past /\ messages[m] = 0)
<1>1. Places(m) = {} /\ InHand(m) = {}
  BY DEF Quiet, Places, InHand
<1>2. Accounted(m)
  BY <1>1 DEF Quiet, Accounted
<1> QED BY <1>1, <1>2 DEF RowOK

\* Whatever fails, and however often the process is killed or stopped: a row
\* disagrees with Slack only if an event about that very message failed after
\* it was acknowledged, or came twice.  The mirror has to see a message posted:
\* what was posted before is for backfill.
THEOREM RowsDivergeOnlyByLossOrRetry ==
    ASSUME Past = {}
    PROVE  Spec => []DivergesOnlyByLossOrRetry
<1>1. Delivery => DivergesOnlyByLossOrRetry
  BY QuietRows DEF Delivery, DivergesOnlyByLossOrRetry
<1> QED BY PipeInit, PipeStep, DeliveryInit, DeliveryStep, <1>1, PTL DEF Spec
-----------------------------------------------------------------------------
\* Each envelope comes once, no statement fails, and nobody stops the process.
Reliable == MaxResent = 0 /\ Faults \cap {"db", "crash", "sigterm"} = {}

NothingLost ==
    /\ resent = {} /\ lost = {}
    /\ proc = "up"
    /\ call[Consumer].pc # "error"

(* Nothing is lost at first.                                               *)
LEMMA LossInit == Init => NothingLost
BY PipelineAssumption DEF Init, ApplyInit, Idle, NothingLost

(* With nothing to fail, an event that is taken is handled.                *)
LEMMA LossStep ==
    ASSUME Reliable, PipeInv, NothingLost, [Next]_vars
    PROVE  NothingLost'
<1>0. Consumer \in Processes /\ DOMAIN call = Processes
  BY PipelineAssumption DEF PipeInv, TypeInv
<1>1. CASE Deliver
  <2>1. ~Redeliver
    BY FS_EmptySet DEF Reliable, NothingLost, Redeliver
  <2> QED BY <1>1, <2>1
          DEF Deliver, PublishWrite, PublishRemove, Publish, NothingLost
<1>2. CASE Take
  <2>1. \A a : FirstStep(a.kind) # "error"
    BY DEF FirstStep
  <2> QED BY <1>0, <1>2, <2>1 DEF Take, Begin, NothingLost
<1>3. CASE Step
  BY <1>0, <1>3, ApplyActs DEF Step, delivery, NothingLost
<1>4. CASE Return
  BY <1>0, <1>4 DEF Return, Idle, NothingLost
<1>5. CASE StepFails \/ Sigterm \/ Exit \/ Restart
  BY <1>5 DEF StepFails, Sigterm, Exit, Restart, Reliable, NothingLost
<1>6. CASE UNCHANGED vars
  BY <1>6 DEF vars, NothingLost
<1> QED BY <1>1, <1>2, <1>3, <1>4, <1>5, <1>6 DEF Next, Loop

\* Once every delivery was handled the mirror shows what Slack shows, whatever
\* was posted, edited and removed meanwhile, and whatever the Web API answered.
THEOREM MirrorInSync ==
    ASSUME Past = {}, Reliable
    PROVE  Spec => []InSync
<1>1. Delivery /\ NothingLost => InSync
  BY QuietRows DEF Delivery, InSync, NothingLost
<1> QED BY PipeInit, PipeStep, DeliveryInit, DeliveryStep, LossInit, LossStep,
           <1>1, PTL DEF Spec
-----------------------------------------------------------------------------
(* Without redelivery no envelope comes twice.                             *)
LEMMA OnceStep ==
    ASSUME MaxResent = 0, resent = {}, [Next]_vars
    PROVE  resent' = {}
<1>1. ~Redeliver
  BY FS_EmptySet DEF Redeliver
<1> QED BY <1>1 DEF Next, Deliver, Loop, PublishWrite, PublishRemove, Publish, Take,
           Step, StepFails, Return, Sigterm, Exit, Restart, delivery, vars

AheadInv == resent = {} /\ \A m \in Messages : NotAhead(m)

(* Without rows none is ahead.                                             *)
LEMMA AheadInit == Init => AheadInv
<1> SUFFICES ASSUME Init, NEW m \in Messages PROVE NotAhead(m)
  BY DEF AheadInv, Init
<1>1. Places(m) = {} /\ InHand(m) = {}
  BY DEF Init, Places, InHand
<1> QED BY <1>1 DEF NotAhead

(* A row does not get ahead of what is still to come.                      *)
LEMMA AheadStep ==
    ASSUME MaxResent = 0, PipeInv, Delivery, AheadInv, [Next]_vars
    PROVE  AheadInv'
<1> SUFFICES ASSUME NEW m \in Messages PROVE NotAhead(m)'
  BY OnceStep DEF AheadInv
<1>0. /\ ~Repeated(m) /\ ~Repeated(m)'
      /\ InLine(m) /\ NotAhead(m)
      /\ messages \in [Messages -> 0..MaxVersion]
      /\ version \in [Messages -> 0..MaxVersion]
  BY OnceStep DEF AheadInv, Repeated, Delivery, Ordered, PipeInv, TypeInv
\* The row, the channel and the event in hand stay, or some of them go.
<1>1. ASSUME UNCHANGED <<messages, unacked, gone>>,
             Places(m)' = {} \/ UNCHANGED events,
             InHand(m)' \subseteq InHand(m)
      PROVE  NotAhead(m)'
  BY <1>0, <1>1 DEF NotAhead, Places
<1>2. ASSUME NEW k \in Messages, PublishWrite(k) \/ PublishRemove(k)
      PROVE  NotAhead(m)'
  <2>1. PICK ev \in PublishedEvents' :
            /\ Publish(ev)
            /\ About(ev) = k
            /\ Rank(ev) = Top(k)'
            /\ k \in gone' => ev = Deleted(k)
    BY <1>2, NewEvent
  <2>2. /\ Top(k) < Top(k)' /\ k \notin gone
        /\ m # k => (m \in gone' <=> m \in gone)
    BY <1>2, NewEvent
  <2>3. UNCHANGED messages /\ InHand(m)' = InHand(m)
    BY <2>1 DEF Publish, store, InHand
  <2>4. /\ unacked' = unacked \cup {ev}
        /\ proc = "down" => events' = events
        /\ proc # "down" => events' = Append(events, ev)
    BY <2>1 DEF Publish
  <2>5. /\ \A i \in Places(m) : i \in Places(m)' /\ events'[i] = events[i]
        /\ \A i \in Places(m)' : \/ i \in Places(m)
                                 \/ events'[i] = ev /\ m = k
    <3>1. CASE proc = "down"
      BY <2>4, <3>1 DEF Places
    <3>2. CASE proc # "down"
      BY <2>1, <2>4, <3>2, PlacesAppended DEF Places
    <3> QED BY <3>1, <3>2
  <2>6. m = k => messages[m] <= Rank(ev)
    <3>1. messages[k] <= version[k]
      BY <1>0, SlackAssumption DEF Delivery, RowsSound
    <3>2. PipeInv'
      BY <1>2, WriteKeeps, RemoveKeeps
    <3>3. Top(k)' \in Int
      BY <3>2, SlackAssumption DEF Top, PipeInv, TypeInv
    <3> QED BY <1>0, <2>1, <2>2, <3>1, <3>3 DEF Top
  <2>7. m \in gone' /\ Deleted(m) \notin unacked' =>
            m # k /\ m \in gone /\ Deleted(m) \notin unacked
    BY <2>1, <2>2, <2>4
  <2> QED BY <1>0, <2>3, <2>5, <2>6, <2>7 DEF NotAhead
<1>3. CASE Take
  <2> DEFINE ev == Head(events)
  <2>1. /\ events # <<>> /\ events' = Tail(events)
        /\ unacked' = unacked \ {ev} /\ current' = {ev}
        /\ UNCHANGED <<messages, gone>>
    BY <1>3 DEF Take, store, slack
  <2>2. /\ ev = events[1]
        /\ 1 \in Places(m) <=> About(ev) = m
        /\ \A i \in Places(m)' : /\ i \in Nat \ {0}
                                 /\ i + 1 \in Places(m)
                                 /\ events'[i] = events[i + 1]
    BY <2>1, PlacesTaken
  <2> HIDE DEF ev
  <2>3. InHand(m)' = IF About(ev) = m THEN {ev} ELSE {}
    BY <2>1 DEF InHand
  <2>4. \A i \in Places(m)' : messages'[m] <= Rank(events'[i])
    BY <1>0, <2>1, <2>2 DEF NotAhead
  <2>5. \A e \in InHand(m)' : messages'[m] <= Rank(e)
    BY <1>0, <2>1, <2>2, <2>3 DEF NotAhead
  <2>6. CASE m \in gone /\ Deleted(m) \notin unacked
    BY <1>0, <2>1, <2>2, <2>3, <2>4, <2>5, <2>6 DEF NotAhead
  <2>7. CASE m \in gone /\ ev = Deleted(m)
    <3>1. About(ev) = m /\ Rank(ev) = MaxVersion + 1
      BY <2>7 DEF About, Rank, Deleted, subtypeChanged, subtypeDeleted
    <3>2. \A i \in Places(m)' : Rank(ev) < Rank(events'[i])
      BY <1>0, <2>2, <3>1 DEF InLine
    <3>3. \A i \in Places(m)' : Rank(events'[i]) <= MaxVersion + 1
      <4> SUFFICES ASSUME NEW i \in Places(m)'
                   PROVE  Rank(events'[i]) <= MaxVersion + 1
        OBVIOUS
      <4>1. events[i + 1] \in PublishedEvents /\ events'[i] = events[i + 1]
        BY <2>2 DEF Places, PipeInv, Genuine
      <4> QED BY <4>1, EventFacts, SlackAssumption DEF PipeInv
    <3>4. Places(m)' = {}
      <4> SUFFICES ASSUME NEW i \in Places(m)' PROVE FALSE
        OBVIOUS
      <4>1. events[i + 1] \in PublishedEvents /\ events'[i] = events[i + 1]
        BY <2>2 DEF Places, PipeInv, Genuine
      <4>2. Rank(events'[i]) \in Int
        BY <4>1, EventFacts DEF PipeInv
      <4> QED BY <3>1, <3>2, <3>3, <4>2, SlackAssumption
    <3> QED BY <2>3, <2>5, <3>1, <3>4, SlackAssumption DEF NotAhead
  <2>8. CASE ~(m \in gone /\ Deleted(m) \notin unacked')
    BY <2>1, <2>4, <2>5, <2>8 DEF NotAhead
  <2> QED BY <2>1, <2>6, <2>7, <2>8
<1>4. CASE Step \/ StepFails
  <2>1. UNCHANGED <<gone, unacked, resent, events, current>>
    BY <1>4 DEF Step, StepFails, slack, delivery
  <2>2. PICK ev \in PublishedEvents :
             /\ current = {ev}
             /\ \A n \in Messages : n # About(ev) => messages'[n] = messages[n]
             /\ \/ messages'[About(ev)] \in {0, messages[About(ev)]}
                \/ messages'[About(ev)] = Rank(ev)
    BY <1>4, LoopWrites DEF Delivery
  <2>3. CASE messages'[m] = messages[m]
    BY <1>1, <1>0, <2>1, <2>3 DEF NotAhead, Places, InHand
  <2>4. CASE m = About(ev) /\ messages'[m] \in {0, Rank(ev)}
    <3>1. InHand(m) = {ev} /\ Rank(ev) \in Int
      BY <2>2, <2>4, EventFacts DEF InHand, PipeInv
    <3>2. \A i \in Places(m) : Rank(events[i]) \in 1..MaxVersion + 1
      <4> SUFFICES ASSUME NEW i \in Places(m) PROVE events[i] \in PublishedEvents
        BY EventFacts DEF PipeInv
      <4> QED BY DEF Places, PipeInv, Genuine
    <3>3. Rank(ev) \in 1..MaxVersion + 1
      BY EventFacts DEF PipeInv
    <3>4. \A i \in Places(m) : messages'[m] <= Rank(events[i])
      BY <1>0, <2>4, <3>1, <3>2, <3>3, SlackAssumption DEF InLine
    <3>5. messages'[m] <= Rank(ev)
      BY <2>4, <3>3, SlackAssumption
    <3> QED BY <1>0, <2>1, <3>1, <3>4, <3>5 DEF NotAhead, Places, InHand
  <2> QED BY <2>2, <2>3, <2>4
<1>5. CASE Return \/ Exit
  BY <1>1, <1>5 DEF Return, Exit, store, slack, Places, InHand
<1>6. CASE Sigterm \/ Restart \/ UNCHANGED vars
  BY <1>1, <1>6 DEF Sigterm, Restart, store, slack, vars, InHand
<1>7. ~Redeliver
  BY FS_EmptySet DEF Redeliver, AheadInv
<1> QED BY <1>2, <1>3, <1>4, <1>5, <1>6, <1>7 DEF Next, Deliver, Loop

\* Without redelivery a row never goes back to an older version, and a message
\* never comes back once its delete has been through the loop: not after failed
\* statements, a crash or a restart either.
THEOREM RowsNeverOlder ==
    ASSUME MaxResent = 0
    PROVE  Spec => NeverOlder
<1>1. PipeInv /\ Delivery /\ AheadInv /\ [Next]_vars =>
          [\A m \in Messages : (messages'[m] # messages[m] /\ messages'[m] # 0) =>
               messages'[m] > messages[m] /\ ~DeleteSettled(m)]_vars
  <2> SUFFICES ASSUME PipeInv, Delivery, AheadInv, [Next]_vars,
                      NEW m \in Messages, messages'[m] # messages[m], messages'[m] # 0
               PROVE  messages'[m] > messages[m] /\ ~DeleteSettled(m)
    OBVIOUS
  <2>1. Step \/ StepFails
    BY DEF Next, Deliver, Loop, PublishWrite, PublishRemove, Publish, Redeliver, Take,
           Return, Sigterm, Exit, Restart, store, vars
  <2>2. PICK ev \in PublishedEvents :
             /\ current = {ev}
             /\ \A n \in Messages : n # About(ev) => messages'[n] = messages[n]
             /\ \/ messages'[About(ev)] \in {0, messages[About(ev)]}
                \/ /\ Rank(ev) \in 1..MaxVersion
                   /\ messages'[About(ev)] \in {Rank(ev), messages[About(ev)]}
    BY <2>1, LoopWrites DEF Delivery
  <2>3. m = About(ev) /\ messages'[m] = Rank(ev) /\ Rank(ev) \in 1..MaxVersion
    BY <2>2
  <2>4. InHand(m) = {ev} /\ ~Repeated(m) /\ NotAhead(m)
    BY <2>2, <2>3 DEF InHand, AheadInv, Repeated
  <2>5. messages[m] <= Rank(ev) /\ messages[m] \in 0..MaxVersion
    BY <2>4 DEF NotAhead, PipeInv, TypeInv
  <2>6. ~(m \in gone /\ Deleted(m) \notin unacked)
    BY <2>3, <2>4, SlackAssumption DEF NotAhead
  <2> QED BY <2>3, <2>5, <2>6, SlackAssumption DEF DeleteSettled
<1> QED BY PipeInit, PipeStep, DeliveryInit, DeliveryStep, AheadInit, AheadStep,
           <1>1, PTL DEF Spec, NeverOlder
-----------------------------------------------------------------------------
(* The bounds, the process, and the events that left the channel.          *)
Bounded ==
    /\ published \in 0..MaxEvents
    /\ IsFiniteSet(resent) /\ Cardinality(resent) <= MaxResent
    /\ proc \in {"up", "stopping", "down"}
    /\ resent \subseteq Event /\ lost \subseteq Event
    /\ current \in {{}} \cup {{ev} : ev \in Event}

(* The bounds hold at first.                                               *)
LEMMA BoundedInit == Init => Bounded
BY FS_EmptySet, SlackAssumption, PipelineAssumption DEF Init, SlackInit, Bounded

(* What was published is an event about a message, in a version it had.    *)
LEMMA PublishedTypes ==
    ASSUME PipeInv
    PROVE  unacked \subseteq Event /\ events \in Seq(Event)
<1>1. PublishedEvents \subseteq Event
  BY SlackAssumption DEF PublishedEvents, Event, PipeInv, TypeInv
<1> QED BY <1>1 DEF PipeInv, Genuine

(* The guards of Deliver keep the bounds, and the loop takes what was      *)
(* published.                                                              *)
LEMMA BoundedStep == PipeInv /\ Bounded /\ [Next]_vars => Bounded'
<1> SUFFICES ASSUME PipeInv, Bounded, [Next]_vars PROVE Bounded'
  OBVIOUS
<1>0. unacked \subseteq Event /\ events \in Seq(Event)
  BY PublishedTypes
<1>1. ASSUME NEW m \in Messages, PublishWrite(m) \/ PublishRemove(m) PROVE Bounded'
  BY <1>1, SlackAssumption DEF PublishWrite, PublishRemove, Write, Remove, Publish, Bounded
<1>2. CASE Redeliver
  <2>1. PICK ev \in unacked \ resent : resent' = resent \cup {ev}
    BY <1>2 DEF Redeliver
  <2>2. /\ IsFiniteSet(resent')
        /\ Cardinality(resent') = Cardinality(resent) + 1
        /\ Cardinality(resent) \in Nat
    BY <2>1, FS_AddElement, FS_CardinalityType DEF Bounded
  <2>3. Cardinality(resent) < MaxResent
    BY <1>2 DEF Redeliver
  <2>4. resent' \subseteq Event
    BY <1>0, <2>1 DEF Bounded
  <2> QED BY <1>2, <2>2, <2>3, <2>4, PipelineAssumption DEF Redeliver, slack, Bounded
<1>3. CASE Take
  <2>1. Head(events) \in Event /\ current' = {Head(events)}
    BY <1>0, <1>3 DEF Take
  <2>2. UNCHANGED <<published, resent, proc, lost>>
    BY <1>3 DEF Take, slack
  <2> QED BY <2>1, <2>2 DEF Bounded
<1>4. CASE Step \/ Return \/ StepFails \/ Sigterm \/ Exit \/ Restart \/ UNCHANGED vars
  <2>1. UNCHANGED <<published, resent>> /\ proc' \in {"up", "stopping", "down"}
    BY <1>4 DEF Step, StepFails, Return, Sigterm, Exit, Restart,
                slack, delivery, vars, Bounded
  <2>2. current' \in {{}, current} /\ lost' \in {lost, lost \cup current}
    BY <1>4 DEF Step, StepFails, Return, Sigterm, Exit, Restart, delivery, vars
  <2>3. current \subseteq Event
    BY DEF Bounded
  <2> QED BY <2>1, <2>2, <2>3 DEF Bounded
<1> QED BY <1>1, <1>2, <1>3, <1>4 DEF Next, Deliver, Loop

(* What CallOK says of a call covers its type.                             *)
LEMMA CallTypes ==
    ASSUME PipeInv, NEW p \in Processes
    PROVE  call[p] \in Calls
<1>1. CallOK(call[p])
  BY DEF PipeInv, Genuine
<1>2. ASSUME NEW pc \in Positions, pc # "delete",
             NEW a \in [kind : {"upsert"}, ts : Admitted, version : 1..MaxVersion],
             call[p] = [pc |-> pc, act |-> a]
      PROVE  call[p] \in Calls
  <2>1. a \in [kind : {"upsert"}, ts : Messages, version : 1..MaxVersion]
    BY DEF Admitted
  <2>2. pc \in {"channel", "user", "upsert", "done", "error"}
    BY <1>2 DEF Positions
  <2> QED BY <1>2, <2>1, <2>2 DEF Calls
<1>3. ASSUME NEW pc \in {"delete", "done", "error"}, NEW m \in gone,
             call[p] = [pc |-> pc, act |-> ActionDelete(m)]
      PROVE  call[p] \in Calls
  <2>1. ActionDelete(m) \in [kind : {"delete"}, ts : Messages]
    BY DEF ActionDelete, PipeInv, TypeInv
  <2> QED BY <1>3, <2>1 DEF Calls
<1>4. /\ Idle \in Calls /\ [pc |-> "done"] \in Calls
      /\ [pc |-> "done", act |-> ActionSkip] \in Calls
  BY DEF Calls, ActionSkip
<1> QED BY <1>1, <1>2, <1>3, <1>4 DEF CallOK

\* Every variable of the live path keeps to values of its kind, on every road
\* of an event: what is unacknowledged, in the channel, in hand, lost or sent
\* once more is an event about a message of the workspace, in a version it can
\* have, and a call only ever works on such a message.
THEOREM LivePathTypes == Spec => []TypeOK
<1>1. PipeInv /\ Bounded => TypeOK
  BY CallTypes, PublishedTypes
     DEF PipeInv, TypeInv, Bounded, TypeOK, ApplyTypeOK, SlackTypeOK
<1> QED BY PipeInit, PipeStep, BoundedInit, BoundedStep, <1>1, PTL DEF Spec
=============================================================================
