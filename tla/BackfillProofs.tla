--------------------------- MODULE BackfillProofs ---------------------------
(***************************************************************************)
(* Theorems about LiveBackfill: what `serve` and `backfill` keep together, *)
(* for any workspace, page size and interleaving.                          *)
(***************************************************************************)
EXTENDS LiveBackfill, DeliveryProofs

\* No channel is on both lists: backfill reads the allowlist and never looks
\* at the denylist.
ListsApart == Allow \cap Deny = {}

-----------------------------------------------------------------------------
(* The newest and the oldest of some messages.                             *)
LEMMA HighIs ==
    ASSUME NEW S, S \subseteq Messages, S # {}
    PROVE  /\ High(S) \in S
           /\ \A k \in S : High(S) >= k
<1>1. IsFiniteSet(S) /\ \A n \in S : n \in Nat
  BY BackfillAssumption, FS_Subset
<1> DEFINE Above(n) == {k \in S : k > n}
           T == {Above(n) : n \in S}
<1>2. T \subseteq FiniteSubsetsOf(S) /\ T # {}
  <2>1. \A n \in S : Above(n) \in FiniteSubsetsOf(S)
    <3> SUFFICES ASSUME NEW n \in S PROVE Above(n) \in FiniteSubsetsOf(S)
      OBVIOUS
    <3>1. Above(n) \in SUBSET S
      OBVIOUS
    <3>2. IsFiniteSet(Above(n))
      BY <1>1, <3>1, FS_Subset
    <3> QED BY <3>1, <3>2 DEF FiniteSubsetsOf
  <2> QED BY <2>1
<1>3. IsWellFoundedOn(StrictSubsetOrdering(S), FiniteSubsetsOf(S))
  BY FS_StrictSubsetOrderingWellFounded
<1>4. PICK x \in T : \A y \in T : ~(<<y, x>> \in StrictSubsetOrdering(S))
  <2> HIDE DEF T
  <2> QED BY <1>2, <1>3, WFMin
<1>5. PICK n \in S : x = Above(n)
  BY <1>4
<1>6. Above(n) = {}
  <2> SUFFICES ASSUME NEW k \in S, k > n PROVE FALSE
    OBVIOUS
  <2>1. Above(k) \subseteq Above(n) /\ k \in Above(n) /\ k \notin Above(k)
    BY <1>1
  <2>2. <<Above(k), x>> \in StrictSubsetOrdering(S)
    BY <1>5, <2>1 DEF StrictSubsetOrdering
  <2> QED BY <1>4, <2>2
<1>7. \E m \in S : \A k \in S : m >= k
  BY <1>1, <1>6
<1> QED BY <1>7 DEF High

(* Likewise the oldest.                                                    *)
LEMMA LowIs ==
    ASSUME NEW S, S \subseteq Messages, S # {}
    PROVE  /\ Low(S) \in S
           /\ \A k \in S : Low(S) <= k
<1>1. IsFiniteSet(S) /\ \A n \in S : n \in Nat
  BY BackfillAssumption, FS_Subset
<1> DEFINE Below(n) == {k \in S : k < n}
           T == {Below(n) : n \in S}
<1>2. T \subseteq FiniteSubsetsOf(S) /\ T # {}
  <2>1. \A n \in S : Below(n) \in FiniteSubsetsOf(S)
    <3> SUFFICES ASSUME NEW n \in S PROVE Below(n) \in FiniteSubsetsOf(S)
      OBVIOUS
    <3>1. Below(n) \in SUBSET S
      OBVIOUS
    <3>2. IsFiniteSet(Below(n))
      BY <1>1, <3>1, FS_Subset
    <3> QED BY <3>1, <3>2 DEF FiniteSubsetsOf
  <2> QED BY <2>1
<1>3. IsWellFoundedOn(StrictSubsetOrdering(S), FiniteSubsetsOf(S))
  BY FS_StrictSubsetOrderingWellFounded
<1>4. PICK x \in T : \A y \in T : ~(<<y, x>> \in StrictSubsetOrdering(S))
  <2> HIDE DEF T
  <2> QED BY <1>2, <1>3, WFMin
<1>5. PICK n \in S : x = Below(n)
  BY <1>4
<1>6. Below(n) = {}
  <2> SUFFICES ASSUME NEW k \in S, k < n PROVE FALSE
    OBVIOUS
  <2>1. Below(k) \subseteq Below(n) /\ k \in Below(n) /\ k \notin Below(k)
    BY <1>1
  <2>2. <<Below(k), x>> \in StrictSubsetOrdering(S)
    BY <1>5, <2>1 DEF StrictSubsetOrdering
  <2> QED BY <1>4, <2>2
<1>7. \E m \in S : \A k \in S : m <= k
  BY <1>1, <1>6
<1> QED BY <1>7 DEF Low

(* A page is not empty unless there is nothing to show, and what it leaves *)
(* out lies behind it.                                                     *)
LEMMA NewestFirst ==
    ASSUME NEW S, S \subseteq Messages
    PROVE  /\ Newest(S) \subseteq S
           /\ S # {} => Newest(S) # {}
           /\ \A m \in S \ Newest(S), n \in Newest(S) : m < n
<1>1. IsFiniteSet(S) /\ \A n \in S : n \in Nat
  BY BackfillAssumption, FS_Subset
<1>2. ASSUME S # {} PROVE Newest(S) # {}
  <2> DEFINE rest == {n \in S : n > High(S)}
  <2>1. High(S) \in S /\ rest = {}
    BY <1>1, <1>2, HighIs
  <2> HIDE DEF rest
  <2>2. Cardinality(rest) = 0
    BY <2>1, FS_EmptySet
  <2>3. Cardinality(rest) < PageSize
    BY <2>2, BackfillAssumption
  <2> QED BY <2>1, <2>3 DEF Newest, rest
<1>3. ASSUME NEW m \in S \ Newest(S), NEW n \in Newest(S)
      PROVE  m < n
  <2> DEFINE A == {k \in S : k > m}
             B == {k \in S : k > n}
  <2>1. n \in S /\ Cardinality(B) < PageSize /\ ~(Cardinality(A) < PageSize)
    BY <1>3 DEF Newest
  <2>2. CASE n <= m
    <3>1. A \in SUBSET B
      BY <1>1, <2>1, <2>2
    <3>2. IsFiniteSet(B)
      <4>1. B \in SUBSET S
        OBVIOUS
      <4> QED BY <1>1, <4>1, FS_Subset
    <3> HIDE DEF A, B
    <3>3. Cardinality(A) <= Cardinality(B)
      BY <3>1, <3>2, FS_Subset
    <3>4. Cardinality(A) \in Nat /\ Cardinality(B) \in Nat
      BY <3>1, <3>2, FS_Subset, FS_CardinalityType
    <3> QED BY <2>1, <3>3, <3>4, BackfillAssumption
  <2> QED BY <1>1, <2>1, <2>2
<1> QED BY <1>2, <1>3 DEF Newest

(* Likewise for a page of replies, from the oldest up.                     *)
LEMMA EldestFirst ==
    ASSUME NEW S, S \subseteq Messages
    PROVE  /\ Eldest(S) \subseteq S
           /\ S # {} => Eldest(S) # {}
           /\ \A m \in S \ Eldest(S), n \in Eldest(S) : m > n
<1>1. IsFiniteSet(S) /\ \A n \in S : n \in Nat
  BY BackfillAssumption, FS_Subset
<1>2. ASSUME S # {} PROVE Eldest(S) # {}
  <2> DEFINE rest == {n \in S : n < Low(S)}
  <2>1. Low(S) \in S /\ rest = {}
    BY <1>1, <1>2, LowIs
  <2> HIDE DEF rest
  <2>2. Cardinality(rest) = 0
    BY <2>1, FS_EmptySet
  <2>3. Cardinality(rest) < PageSize
    BY <2>2, BackfillAssumption
  <2> QED BY <2>1, <2>3 DEF Eldest, rest
<1>3. ASSUME NEW m \in S \ Eldest(S), NEW n \in Eldest(S)
      PROVE  m > n
  <2> DEFINE A == {k \in S : k < m}
             B == {k \in S : k < n}
  <2>1. n \in S /\ Cardinality(B) < PageSize /\ ~(Cardinality(A) < PageSize)
    BY <1>3 DEF Eldest
  <2>2. CASE n >= m
    <3>1. A \in SUBSET B
      BY <1>1, <2>1, <2>2
    <3>2. IsFiniteSet(B)
      <4>1. B \in SUBSET S
        OBVIOUS
      <4> QED BY <1>1, <4>1, FS_Subset
    <3> HIDE DEF A, B
    <3>3. Cardinality(A) <= Cardinality(B)
      BY <3>1, <3>2, FS_Subset
    <3>4. Cardinality(A) \in Nat /\ Cardinality(B) \in Nat
      BY <3>1, <3>2, FS_Subset, FS_CardinalityType
    <3> QED BY <2>1, <3>3, <3>4, BackfillAssumption
  <2> QED BY <1>1, <2>1, <2>2
<1> QED BY <1>2, <1>3 DEF Eldest
-----------------------------------------------------------------------------
(***************************************************************************)
(* The run by itself.                                                      *)
(***************************************************************************)
Reading == {"history", "page", "message", "replies", "thread page", "reply"}

\* A copy that the run holds was shown by Slack, in a channel of the allowlist.
CopyOK(s) ==
    /\ s \in Snapshot
    /\ s.subtype = SubtypeOf[s.ts]
    /\ s.version <= version[s.ts]
    /\ ChannelOf[s.ts] \in Allow

RunType ==
    /\ DOMAIN run = {"pc", "todo", "channel", "cursor", "more", "page", "after",
                     "rest", "replies", "since"}
    /\ run.pc \in Steps
    /\ run.todo \subseteq Allow
    /\ run.pc \in Reading => run.channel \in Allow
    /\ \A s \in run.page : CopyOK(s)
    /\ \A s \in run.replies : CopyOK(s)
    /\ \A s, t \in run.page : s.ts = t.ts => s = t
    /\ run.since \in [Messages -> 0..MaxVersion]

\* The call of the run is for the copy whose turn it is.
WorksOn(s) ==
    \/ /\ ~SubtypePersisted(s.subtype)
       /\ call[Backfiller] = [pc |-> "done"]
    \/ /\ SubtypePersisted(s.subtype)
       /\ \E pc \in {"channel", "user", "upsert", "done", "error"} :
             call[Backfiller] = [pc |-> pc, act |-> messageToRow(s)]

TaskOK ==
    /\ run.pc \in {"message", "replies", "thread page", "reply"} => run.page # {}
    /\ run.pc = "reply" => run.replies # {}
    /\ run.pc = "message" => WorksOn(Current)
    /\ run.pc = "reply" => WorksOn(CurrentReply)
    /\ run.pc \notin {"message", "reply"} => call[Backfiller] = Idle

RunInv == RunType /\ TaskOK

(* A run that is off holds nothing.                                        *)
LEMMA RunInit == BothInit => RunInv
<1> SUFFICES ASSUME BothInit PROVE RunInv
  OBVIOUS
<1>1. /\ DOMAIN run = {"pc", "todo", "channel", "cursor", "more", "page", "after",
                       "rest", "replies", "since"}
      /\ run.pc = "off" /\ run.todo = {} /\ run.page = {} /\ run.replies = {}
      /\ run.since = [m \in Messages |-> 0]
  BY DEF BothInit, OffRun
<1>2. call[Backfiller] = Idle
  BY BackfillAssumption DEF BothInit, Init, ApplyInit
<1> QED BY <1>1, <1>2, SlackAssumption DEF RunInv, RunType, TaskOK, Steps, Reading

(* A page that is not empty has a message whose turn it is.                *)
LEMMA CurrentIs ==
    ASSUME RunType, run.page # {}
    PROVE  Current \in run.page
<1> DEFINE T == {s.ts : s \in run.page}
<1>1. T \subseteq Messages /\ T # {}
  BY DEF RunType, CopyOK, Snapshot
<1> HIDE DEF T
<1>2. High(T) \in T /\ \A k \in T : High(T) >= k
  BY <1>1, HighIs
<1>3. \E s \in run.page : \A t \in run.page : s.ts >= t.ts
  BY <1>2 DEF T
<1> QED BY <1>3 DEF Current

(* Likewise a page of replies.                                             *)
LEMMA CurrentReplyIs ==
    ASSUME RunType, run.replies # {}
    PROVE  CurrentReply \in run.replies
<1> DEFINE T == {s.ts : s \in run.replies}
<1>1. T \subseteq Messages /\ T # {}
  BY DEF RunType, CopyOK, Snapshot
<1> HIDE DEF T
<1>2. Low(T) \in T /\ \A k \in T : Low(T) <= k
  BY <1>1, LowIs
<1>3. \E s \in run.replies : \A t \in run.replies : s.ts <= t.ts
  BY <1>2 DEF T
<1> QED BY <1>3 DEF CurrentReply

(* What Slack shows is a copy.                                             *)
LEMMA ShownIs ==
    ASSUME TypeInv, NEW m \in Visible, ChannelOf[m] \in Allow
    PROVE  /\ CopyOK(Shown(m))
           /\ Shown(m).ts = m
           /\ Shown(m).version = version[m]
<1>1. m \in Messages /\ version[m] \in 1..MaxVersion
  BY SlackAssumption DEF Visible, TypeInv
<1>2. (Replies(m) \cap Visible # {}) \in BOOLEAN
  OBVIOUS
<1> QED BY <1>1, <1>2, SlackAssumption DEF Shown, CopyOK, Snapshot

(* A copy of a persisted subtype makes a sound action.                     *)
LEMMA SoundCopy ==
    ASSUME ListsApart, TypeInv, NEW s, CopyOK(s), SubtypePersisted(s.subtype)
    PROVE  /\ Sound(messageToRow(s))
           /\ messageToRow(s) =
                 [kind |-> "upsert", ts |-> s.ts, version |-> s.version]
           /\ s.ts \in Admitted
<1>1. /\ s.ts \in Messages
      /\ s.version \in 1..version[s.ts]
      /\ s.subtype = SubtypeOf[s.ts]
  BY SlackAssumption DEF CopyOK, Snapshot, TypeInv
<1>2. ChannelAllowed(ChannelOf[s.ts])
  BY DEF ListsApart, CopyOK, ChannelAllowed
<1> QED BY <1>1, <1>2 DEF Admitted, messageToRow, Sound
-----------------------------------------------------------------------------
(* Steps that only read, or move on: the call stays idle.                  *)
LEMMA ReadingKeeps ==
    ASSUME TypeInv, RunInv,
           Start \/ NextChannel \/ GetHistory \/ NextPage \/ GetReplies \/ NextReplies
    PROVE  RunInv'
<1>0. /\ \A s : CopyOK(s) => CopyOK(s)'
      /\ call[Backfiller] = Idle /\ call' = call
      /\ run.page # {} => Current \in run.page
  BY CurrentIs DEF Start, NextChannel, GetHistory, NextPage, GetReplies, NextReplies,
                   slack, CopyOK, RunInv, TaskOK
<1>1. CASE Start
  <2>1. /\ run' = [OffRun EXCEPT !.pc = "channels", !.todo = Allow, !.since = run'.since]
        /\ run'.since \in [Messages -> 0..MaxVersion]
    BY <1>1, SlackAssumption DEF Start, OffRun, TypeInv
  <2>2. /\ DOMAIN run' = DOMAIN OffRun
        /\ run'.pc = "channels" /\ run'.todo = Allow
        /\ run'.page = {} /\ run'.replies = {}
    BY <2>1 DEF OffRun
  <2> QED BY <1>0, <2>1, <2>2 DEF OffRun, RunInv, RunType, TaskOK, Steps, Reading
<1>2. CASE NextChannel
  <2>1. PICK c \in run.todo :
          run' = [run EXCEPT !.pc = "history", !.todo = @ \ {c}, !.channel = c,
                             !.cursor = High(Messages) + 1]
    BY <1>2 DEF NextChannel
  <2>2. /\ DOMAIN run' = DOMAIN run
        /\ run'.pc = "history" /\ run'.todo = run.todo \ {c} /\ run'.channel = c
        /\ run'.page = run.page /\ run'.replies = run.replies
        /\ run'.since = run.since
    BY <2>1 DEF RunInv, RunType
  <2> QED BY <1>0, <2>2 DEF RunInv, RunType, TaskOK, Steps
<1>3. CASE GetHistory
  <2> DEFINE below == {m \in TopLevel(run.channel) : m < run.cursor}
             shown == Newest(below)
  <2>1. /\ DOMAIN run' = DOMAIN run
        /\ run'.pc = "page" /\ run'.page = {Shown(m) : m \in shown}
        /\ run'.todo = run.todo /\ run'.channel = run.channel
        /\ run'.replies = run.replies /\ run'.since = run.since
        /\ run.channel \in Allow
    BY <1>3 DEF GetHistory, RunInv, RunType, Reading
  <2>2. shown \subseteq below /\ below \subseteq Visible
        /\ \A m \in below : ChannelOf[m] \in Allow
    <3>1. below \subseteq Visible /\ below \subseteq Messages
      BY DEF TopLevel, Visible
    <3> QED BY <2>1, <3>1, NewestFirst DEF TopLevel
  <2>3. /\ \A s \in run'.page : CopyOK(s)
        /\ \A s, t \in run'.page : s.ts = t.ts => s = t
    <3>1. \A m \in shown : CopyOK(Shown(m)) /\ Shown(m).ts = m
      BY <2>2, ShownIs
    <3> HIDE DEF shown
    <3> QED BY <2>1, <3>1
  <2> QED BY <1>0, <2>1, <2>3 DEF RunInv, RunType, TaskOK, Steps
<1>4. CASE NextPage
  <2>1. /\ DOMAIN run' = DOMAIN run
        /\ run'.pc = (IF run.more THEN "history" ELSE "channels")
        /\ run.pc = "page"
        /\ run'.page = run.page /\ run'.replies = run.replies
        /\ run'.todo = run.todo /\ run'.channel = run.channel
        /\ run'.since = run.since
    BY <1>4 DEF NextPage, RunInv, RunType
  <2> QED BY <1>0, <2>1 DEF RunInv, RunType, TaskOK, Steps, Reading
<1>5. CASE GetReplies
  <2> DEFINE above == {m \in (Replies(Current.ts) \cup {Current.ts}) \cap Visible :
                           m > run.after}
             shown == Eldest(above)
  <2>1. /\ DOMAIN run' = DOMAIN run
        /\ run'.pc = "thread page" /\ run.pc = "replies"
        /\ run'.replies = {Shown(m) : m \in shown}
        /\ run'.page = run.page
        /\ run'.todo = run.todo /\ run'.channel = run.channel
        /\ run'.since = run.since
    BY <1>5 DEF GetReplies, RunInv, RunType
  <2>2. Current \in run.page /\ run.page # {}
    BY <1>0, <2>1 DEF RunInv, TaskOK
  <2>3. Current.ts \in Messages /\ ChannelOf[Current.ts] \in Allow
    BY <2>2 DEF RunInv, RunType, CopyOK, Snapshot
  <2>4. /\ above \subseteq Visible /\ above \subseteq Messages
        /\ \A m \in above : ChannelOf[m] \in Allow
    BY <2>3, BackfillAssumption DEF Replies, Visible
  <2>5. shown \subseteq above
    BY <2>4, EldestFirst
  <2>6. \A s \in run'.replies : CopyOK(s)
    BY <2>1, <2>4, <2>5, ShownIs
  <2> QED BY <1>0, <2>1, <2>2, <2>6 DEF RunInv, RunType, TaskOK, Steps, Reading
<1>6. CASE NextReplies
  <2>1. /\ DOMAIN run' = DOMAIN run
        /\ run'.pc = (IF run.rest THEN "replies" ELSE "page")
        /\ run.pc = "thread page"
        /\ run'.page = (IF run.rest THEN run.page ELSE run.page \ {Current})
        /\ run'.replies = run.replies
        /\ run'.todo = run.todo /\ run'.channel = run.channel
        /\ run'.since = run.since
    BY <1>6 DEF NextReplies, RunInv, RunType
  <2> QED BY <1>0, <2>1 DEF RunInv, RunType, TaskOK, Steps, Reading
<1> QED BY <1>1, <1>2, <1>3, <1>4, <1>5, <1>6

(* The run hands a copy to Apply, or passes over its subtype.              *)
LEMMA UpsertKeeps ==
    ASSUME ListsApart, PipeInv, RunInv, UNCHANGED delivery,
           UpsertMessageOfPage \/ UpsertReply
    PROVE  PipeInv' /\ RunInv'
<1>0. Backfiller \in Processes
  BY BackfillAssumption
<1>1. PICK s \in run.page \cup run.replies, pc \in {"message", "reply"} :
          /\ upsert(s, pc)
          /\ \/ pc = "message" /\ s = Current /\ run.page # {}
             \/ pc = "reply" /\ s = CurrentReply /\ run.replies # {}
                /\ run.pc = "thread page"
  BY CurrentIs, CurrentReplyIs DEF UpsertMessageOfPage, UpsertReply, RunInv
<1>2. /\ call[Backfiller] = Idle
      /\ run.pc \in {"page", "thread page"}
  BY DEF UpsertMessageOfPage, UpsertReply, RunInv, TaskOK
<1>3. CopyOK(s)
  BY <1>1 DEF RunInv, RunType
<1>4. /\ UNCHANGED <<store, seen, version, gone, unacked, events>>
      /\ run' = [run EXCEPT !.pc = pc]
  BY <1>1 DEF upsert, slack, delivery
<1>5. /\ DOMAIN run' = DOMAIN run
      /\ run'.pc = pc /\ run'.page = run.page /\ run'.replies = run.replies
      /\ run'.todo = run.todo /\ run'.channel = run.channel
      /\ run'.since = run.since
      /\ Current' = Current /\ CurrentReply' = CurrentReply
  BY <1>4 DEF RunInv, RunType, Current, CurrentReply
<1>6. RunType'
  <2>1. \A t : CopyOK(t) => CopyOK(t)'
    BY <1>4 DEF CopyOK
  <2> QED BY <1>1, <1>2, <1>5, <2>1 DEF RunInv, RunType, Steps, Reading
<1>7. PipeInv' /\ WorksOn(s)'
  <2>1. CASE SubtypePersisted(s.subtype)
    <3>1. Begin(Backfiller, messageToRow(s))
      BY <1>1, <2>1 DEF upsert
    <3>2. /\ Sound(messageToRow(s)) /\ messageToRow(s).kind = "upsert"
      BY <1>3, <2>1, SoundCopy DEF PipeInv
    <3>3. PipeInv'
      BY <1>0, <1>4, <3>1, <3>2, BeginKeeps DEF PipeInv, Genuine
    <3>4. call'[Backfiller] = [pc |-> "channel", act |-> messageToRow(s)]
      BY <1>0, <3>1, <3>2 DEF Begin, FirstStep, PipeInv, TypeInv
    <3> QED BY <2>1, <3>3, <3>4 DEF WorksOn
  <2>2. CASE ~SubtypePersisted(s.subtype)
    <3>1. call' = [call EXCEPT ![Backfiller].pc = "done"]
      BY <1>1, <2>2 DEF upsert
    <3>2. /\ call'[Backfiller] = [pc |-> "done"]
          /\ DOMAIN call' = Processes
          /\ \A q \in Processes \ {Backfiller} : call'[q] = call[q]
      BY <1>0, <1>2, <3>1 DEF Idle, PipeInv, TypeInv
    <3>3. \A c : CallOK(c) => CallOK(c)'
      <4>1. UNCHANGED <<version, gone>>
        BY <1>4
      <4> QED BY <4>1 DEF CallOK, Admitted
    <3>4. \A q \in Processes : CallOK(call[q])'
      <4> SUFFICES ASSUME NEW q \in Processes PROVE CallOK(call[q])'
        OBVIOUS
      <4>1. CASE q = Backfiller
        BY <3>2, <4>1 DEF CallOK
      <4>2. CASE q # Backfiller
        BY <3>2, <3>3, <4>2 DEF PipeInv, Genuine
      <4> QED BY <4>1, <4>2
    <3>5. PublishedEvents' = PublishedEvents
      BY <1>4 DEF PublishedEvents
    <3>6. TypeInv'
      BY <1>4, <3>2 DEF store, PipeInv, TypeInv
    <3> QED BY <1>4, <2>2, <3>2, <3>4, <3>5, <3>6 DEF PipeInv, Genuine, WorksOn
  <2> QED BY <2>1, <2>2
<1>8. TaskOK'
  BY <1>1, <1>2, <1>5, <1>7 DEF RunInv, TaskOK
<1> QED BY <1>6, <1>7, <1>8 DEF RunInv

(* A copy is in the mirror, or the run is over: the call is forgotten.     *)
LEMMA DoneKeeps ==
    ASSUME PipeInv, RunInv, UNCHANGED delivery,
           \/ MessageDone \/ ReplyDone
           \/ \E pc \in {"done", "failed"}, since \in {run.since, OffRun.since} :
                 Exits(pc, since)
    PROVE  PipeInv' /\ RunInv'
<1>0. /\ Backfiller \in Processes
      /\ run.page # {} => Current \in run.page
      /\ run.replies # {} => CurrentReply \in run.replies
  BY BackfillAssumption, CurrentIs, CurrentReplyIs DEF RunInv
<1>1. /\ UNCHANGED <<store, version, gone, unacked, events>>
      /\ call' = [call EXCEPT ![Backfiller] = Idle]
      /\ seen' \in {seen, [seen EXCEPT ![Backfiller] = NoneSeen]}
  BY DEF MessageDone, ReplyDone, Exits, slack, delivery
<1>2. PipeInv'
  BY <1>0, <1>1, RestKeeps DEF PipeInv, Genuine
<1>3. call'[Backfiller] = Idle /\ \A s : CopyOK(s) => CopyOK(s)'
  BY <1>0, <1>1 DEF CopyOK, PipeInv, TypeInv
<1>4. CASE MessageDone
  <2>1. /\ DOMAIN run' = DOMAIN run
        /\ run.pc = "message"
        /\ \/ run'.pc = "replies" /\ run'.page = run.page
           \/ run'.pc = "page" /\ run'.page = run.page \ {Current}
        /\ run'.replies = run.replies
        /\ run'.todo = run.todo /\ run'.channel = run.channel
        /\ run'.since = run.since
    BY <1>4 DEF MessageDone, RunInv, RunType
  <2> QED BY <1>2, <1>3, <2>1 DEF RunInv, RunType, TaskOK, Steps, Reading
<1>5. CASE ReplyDone
  <2>1. /\ DOMAIN run' = DOMAIN run
        /\ run.pc = "reply" /\ run'.pc = "thread page"
        /\ run'.page = run.page
        /\ run'.replies = run.replies \ {CurrentReply}
        /\ run'.todo = run.todo /\ run'.channel = run.channel
        /\ run'.since = run.since
    BY <1>5 DEF ReplyDone, RunInv, RunType
  <2> QED BY <1>2, <1>3, <2>1 DEF RunInv, RunType, TaskOK, Steps, Reading
<1>6. ASSUME NEW pc \in {"done", "failed"}, NEW since \in {run.since, OffRun.since},
             Exits(pc, since)
      PROVE  PipeInv' /\ RunInv'
  <2>1. run' = [OffRun EXCEPT !.pc = pc, !.since = since]
    BY <1>6 DEF Exits
  <2>2. /\ DOMAIN run' = DOMAIN OffRun
        /\ run'.pc = pc /\ run'.todo = {} /\ run'.page = {} /\ run'.replies = {}
        /\ run'.since = since
    BY <2>1 DEF OffRun
  <2>3. since \in [Messages -> 0..MaxVersion]
    BY SlackAssumption DEF OffRun, RunInv, RunType
  <2> QED BY <1>2, <1>3, <2>2, <2>3
          DEF OffRun, RunInv, RunType, TaskOK, Steps, Reading
<1> QED BY <1>4, <1>5, <1>6

(* A step of the call itself.                                              *)
LEMMA CallKeeps ==
    ASSUME PipeInv, RunInv, UNCHANGED delivery, ApplyStep \/ ApplyFails
    PROVE  PipeInv' /\ RunInv'
<1>0. /\ Backfiller \in Processes
      /\ Apply(Backfiller) \/ WriteFails(Backfiller)
      /\ UNCHANGED <<slack, unacked, events, run, version>>
  BY BackfillAssumption DEF ApplyStep, ApplyFails, delivery, slack
<1>1. PipeInv'
  BY <1>0, ApplyKeeps
<1>2. /\ call[Backfiller].pc \in {"channel", "user", "upsert", "delete"}
      /\ call'[Backfiller].pc \in {"user", "upsert", "done", "error"}
      /\ call'[Backfiller].act = call[Backfiller].act
  BY <1>0, ApplyActs
<1>3. \E pc : call'[Backfiller] = [call[Backfiller] EXCEPT !.pc = pc]
  <2>1. PICK pc : Goto(Backfiller, pc)
    BY <1>0 DEF Apply, EnsureChannel, EnsureUser, UpsertMessage, DeleteMessage, WriteFails
  <2> QED BY <1>0, <2>1 DEF Goto, PipeInv, TypeInv
<1>4. run.pc \in {"message", "reply"}
  <2>1. call[Backfiller] # Idle
    BY <1>2 DEF Idle
  <2> QED BY <2>1 DEF RunInv, TaskOK
<1>5. \A s : WorksOn(s) => WorksOn(s)'
  <2> SUFFICES ASSUME NEW s, WorksOn(s) PROVE WorksOn(s)'
    OBVIOUS
  <2>0. call[Backfiller] # [pc |-> "done"]
    BY <1>2
  <2>1. PICK pc \in {"channel", "user", "upsert", "done", "error"} :
            call[Backfiller] = [pc |-> pc, act |-> messageToRow(s)]
    BY <2>0 DEF WorksOn
  <2>2. SubtypePersisted(s.subtype)
    BY <2>0 DEF WorksOn
  <2>3. PICK next : call'[Backfiller] = [call[Backfiller] EXCEPT !.pc = next]
    BY <1>3
  <2>4. call'[Backfiller] = [pc |-> next, act |-> messageToRow(s)]
    BY <2>1, <2>3
  <2>5. next \in {"user", "upsert", "done", "error"}
    BY <1>2, <2>4
  <2> QED BY <2>2, <2>4, <2>5 DEF WorksOn
<1>6. RunType'
  BY <1>0 DEF RunInv, RunType, CopyOK
<1>7. TaskOK'
  <2>1. run' = run
    BY <1>0
  <2>2. Current' = Current /\ CurrentReply' = CurrentReply
    BY <2>1 DEF Current, CurrentReply
  <2>3. WorksOn(Current) => WorksOn(Current)'
    <3>1. PICK s : s = Current
      OBVIOUS
    <3>2. WorksOn(s) => WorksOn(s)'
      BY <1>5
    <3>3. WorksOn(Current)' <=> WorksOn(s)'
      BY <2>2, <3>1 DEF WorksOn
    <3>4. WorksOn(Current) <=> WorksOn(s)
      BY <3>1
    <3> QED BY <3>2, <3>3, <3>4
  <2>4. WorksOn(CurrentReply) => WorksOn(CurrentReply)'
    <3>1. PICK s : s = CurrentReply
      OBVIOUS
    <3>2. WorksOn(s) => WorksOn(s)'
      BY <1>5
    <3>3. WorksOn(CurrentReply)' <=> WorksOn(s)'
      BY <2>2, <3>1 DEF WorksOn
    <3>4. WorksOn(CurrentReply) <=> WorksOn(s)
      BY <3>1
    <3> QED BY <3>2, <3>3, <3>4
  <2> QED BY <1>4, <2>1, <2>3, <2>4 DEF RunInv, TaskOK
<1> QED BY <1>1, <1>6, <1>7 DEF RunInv

(* A step of serve leaves the run, its call and its cache alone.           *)
LEMMA ServeApart ==
    ASSUME PipeInv, [Next]_vars
    PROVE  /\ call'[Backfiller] = call[Backfiller]
           /\ seen'[Backfiller] = seen[Backfiller]
           /\ \A s : CopyOK(s) => CopyOK(s)'
<1>0. /\ Backfiller \in Processes \ {Consumer} /\ Consumer \in Processes
      /\ DOMAIN call = Processes /\ DOMAIN seen = Processes
      /\ TypeInv /\ TypeInv'
  BY BackfillAssumption, PipelineAssumption, TwoProcesses, PipeStep DEF PipeInv, TypeInv
<1>a. version \in [Messages -> Nat]
  BY <1>0, SlackAssumption DEF TypeInv
<1>1. ASSUME NEW m \in Messages, PublishWrite(m) \/ PublishRemove(m)
      PROVE  /\ UNCHANGED <<call, seen>>
             /\ \A n \in Messages : version[n] <= version'[n]
  <2>1. CASE PublishWrite(m)
    <3>1. version' = [version EXCEPT ![m] = version[m] + 1]
      BY <2>1 DEF PublishWrite, Write
    <3>2. \A n \in Messages : version[n] <= version'[n]
      BY <1>a, <3>1
    <3> QED BY <2>1, <3>2 DEF PublishWrite, Write, Publish
  <2>2. CASE PublishRemove(m)
    BY <1>a, <2>2 DEF PublishRemove, Remove, Publish
  <2> QED BY <1>1, <2>1, <2>2
<1>2. ASSUME Step \/ StepFails
      PROVE  /\ call'[Backfiller] = call[Backfiller]
             /\ seen'[Backfiller] = seen[Backfiller]
             /\ \A m \in Messages : version[m] <= version'[m]
  <2>1. Apply(Consumer) \/ WriteFails(Consumer)
    BY <1>2 DEF Step, StepFails
  <2>2. \A q \in Processes \ {Consumer} : call'[q] = call[q]
    BY <1>0, <2>1, ApplyActs
  <2>3. \A q \in Processes \ {Consumer} : seen'[q] = seen[q]
    BY <1>0, <2>1 DEF Apply, EnsureChannel, EnsureUser, UpsertMessage, DeleteMessage,
                      WriteFails
  <2>4. version' = version /\ gone' = gone
    BY <1>2 DEF Step, StepFails, slack
  <2>5. \A n \in Messages : version[n] <= version'[n]
    BY <1>a, <2>4
  <2> QED BY <1>0, <2>2, <2>3, <2>5
<1>3. ASSUME Redeliver \/ Take \/ Return \/ Sigterm \/ Exit \/ Restart \/ UNCHANGED vars
      PROVE  /\ call'[Backfiller] = call[Backfiller]
             /\ seen'[Backfiller] = seen[Backfiller]
             /\ \A m \in Messages : version[m] <= version'[m]
  <2>1. UNCHANGED <<version, gone>>
    BY <1>3 DEF Redeliver, Take, Return, Sigterm, Exit, Restart, vars, slack
  <2>2. /\ call'[Backfiller] = call[Backfiller]
        /\ seen'[Backfiller] = seen[Backfiller]
    BY <1>0, <1>3 DEF Redeliver, Take, Begin, Return, Sigterm, Exit, Restart, vars
  <2>3. \A n \in Messages : version[n] <= version'[n]
    BY <1>a, <2>1
  <2> QED BY <2>2, <2>3
<1>4. /\ call'[Backfiller] = call[Backfiller]
      /\ seen'[Backfiller] = seen[Backfiller]
      /\ \A m \in Messages : version[m] <= version'[m]
  BY <1>1, <1>2, <1>3 DEF Next, Deliver, Loop
<1>5. \A s : CopyOK(s) => CopyOK(s)'
  <2> SUFFICES ASSUME NEW s, CopyOK(s) PROVE s.version <= version'[s.ts]
    BY DEF CopyOK
  <2>1. s.ts \in Messages /\ s.version \in 1..MaxVersion /\ s.version <= version[s.ts]
    BY DEF CopyOK, Snapshot
  <2> QED BY <1>0, <1>4, <2>1, SlackAssumption DEF TypeInv
<1> QED BY <1>4, <1>5

(* The steps of a run, by what they leave alone.                           *)
LEMMA BackfillCases ==
    ASSUME BackfillStep
    PROVE  /\ UNCHANGED <<delivery, slack>>
           /\ \/ Start \/ NextChannel \/ GetHistory \/ NextPage \/ GetReplies
              \/ NextReplies
              \/ UpsertMessageOfPage \/ UpsertReply
              \/ MessageDone \/ ReplyDone
              \/ \E pc \in {"done", "failed"}, since \in {run.since, OffRun.since} :
                    Exits(pc, since)
              \/ ApplyStep \/ ApplyFails
           /\ UNCHANGED store \/ ApplyStep \/ ApplyFails
<1>1. UNCHANGED delivery /\ BackfillNext
  BY DEF BackfillStep
<1>2. CASE Complete \/ ReadFails \/ HandleFails \/ ApplyError \/ CrashRun
  <2>1. \E pc \in {"done", "failed"}, since \in {run.since, OffRun.since} :
            Exits(pc, since)
    BY <1>2 DEF Complete, ReadFails, HandleFails, ApplyError, CrashRun, Abort
  <2> QED BY <1>1, <2>1 DEF Exits
<1>3. CASE \/ Start \/ NextChannel \/ GetHistory \/ NextPage \/ GetReplies
           \/ NextReplies
           \/ UpsertMessageOfPage \/ UpsertReply
           \/ MessageDone \/ ReplyDone
  BY <1>1, <1>3 DEF Start, NextChannel, GetHistory, NextPage, GetReplies, NextReplies,
                    UpsertMessageOfPage, UpsertReply, upsert, MessageDone, ReplyDone
<1>4. CASE ApplyStep \/ ApplyFails
  BY <1>1, <1>4 DEF ApplyStep, ApplyFails
<1> QED BY <1>1, <1>2, <1>3, <1>4 DEF BackfillNext, Progress

BothInv == PipeInv /\ RunInv

(* A step of either process keeps what both rely on.                       *)
LEMMA BothStep ==
    ASSUME ListsApart, BothInv, [BothNext]_allVars
    PROVE  BothInv'
<1>1. CASE ServeStep \/ UNCHANGED allVars
  <2>1. [Next]_vars /\ run' = run
    BY <1>1 DEF ServeStep, allVars
  <2>2. PipeInv'
    BY <2>1, PipeStep DEF BothInv
  <2>3. call'[Backfiller] = call[Backfiller] /\ \A s : CopyOK(s) => CopyOK(s)'
    BY <2>1, ServeApart DEF BothInv
  <2>4. Current' = Current /\ CurrentReply' = CurrentReply
    BY <2>1 DEF Current, CurrentReply
  <2>5. RunInv'
    BY <2>1, <2>3, <2>4 DEF BothInv, RunInv, RunType, TaskOK, WorksOn
  <2> QED BY <2>2, <2>5 DEF BothInv
<1>2. CASE BackfillStep
  <2>1. UNCHANGED <<delivery, slack>>
    BY <1>2, BackfillCases
  <2>2. CASE Start \/ NextChannel \/ GetHistory \/ NextPage \/ GetReplies \/ NextReplies
    <3>1. RunInv'
      BY <2>2, ReadingKeeps DEF BothInv, PipeInv
    <3>2. UNCHANGED <<store, seen, call>>
      BY <2>2 DEF Start, NextChannel, GetHistory, NextPage, GetReplies, NextReplies
    <3>3. UNCHANGED <<version, gone, unacked, events>>
      BY <2>1 DEF slack, delivery
    <3>4. PipeInv'
      BY <3>2, <3>3, RestKeeps, BackfillAssumption DEF BothInv, PipeInv, Genuine
    <3> QED BY <3>1, <3>4 DEF BothInv
  <2> QED BY <1>2, <2>1, <2>2, BackfillCases, UpsertKeeps, DoneKeeps, CallKeeps DEF BothInv
<1> QED BY <1>1, <1>2 DEF BothNext

(* Both processes start with nothing in hand.                              *)
LEMMA BothInitial == BothInit => BothInv
BY PipeInit, RunInit DEF BothInit, BothInv
-----------------------------------------------------------------------------
\* Backfill writes from copies that serve may have overtaken, and both may fail
\* or be killed: still a row only ever holds a version that Slack published of
\* an admitted message, and goes only after Slack dropped the message.
THEOREM BothImplementMirror ==
    ASSUME ListsApart
    PROVE  BothSpec => ImplementsMirror
<1>1. BothInv /\ [BothNext]_allVars => [M!Next]_(M!vars)
  <2> SUFFICES ASSUME BothInv, [BothNext]_allVars PROVE M!Next \/ UNCHANGED M!vars
    OBVIOUS
  <2>1. CASE ServeStep \/ UNCHANGED allVars
    <3>1. [Next]_vars
      BY <2>1 DEF ServeStep, allVars
    <3> QED BY <3>1, MirrorStep DEF BothInv
  <2>2. CASE BackfillStep
    <3>1. CASE ApplyStep \/ ApplyFails
      BY <2>2, <3>1, BackfillCases, ApplyMirrors, BackfillAssumption
         DEF BothInv, ApplyStep, ApplyFails, M!Next
    <3>2. CASE UNCHANGED store
      BY <2>2, <3>2, BackfillCases DEF store, slack, M!vars
    <3> QED BY <2>2, <3>1, <3>2, BackfillCases
  <2> QED BY <2>1, <2>2 DEF BothNext
<1>2. BothInit => M!Init
  BY MirrorInit DEF BothInit
<1>3. BothSpec => M!Spec
  BY BothInitial, BothStep, <1>1, <1>2, PTL DEF BothSpec, M!Spec
<1> QED BY <1>3 DEF ImplementsMirror
-----------------------------------------------------------------------------
(* A step is one of the live path, which leaves the run alone, or one of    *)
(* backfill.                                                               *)
LEMMA EitherSteps ==
    ASSUME [BothNext]_allVars
    PROVE  \/ [Next]_vars /\ run' = run
           \/ BackfillStep
BY DEF BothNext, ServeStep, allVars

BothBounds == Bounded /\ overtaken \subseteq Messages

(* The bounds of the live path are kept by both.                           *)
LEMMA BothBounded ==
    ASSUME BothInv, BothBounds, [BothNext]_allVars
    PROVE  BothBounds'
<1>1. CASE ServeStep \/ UNCHANGED allVars
  <2>1. [Next]_vars
    BY <1>1 DEF ServeStep, allVars
  <2>2. overtaken' \subseteq Messages
    BY <1>1 DEF ServeStep, allVars, Changed, BothBounds
  <2> QED BY <2>1, <2>2, BoundedStep DEF BothBounds, BothInv
<1>2. CASE BackfillStep
  BY <1>2, BackfillCases DEF BackfillStep, delivery, slack, Bounded, BothBounds
<1> QED BY <1>1, <1>2 DEF BothNext

(* Where the run has got to: its channel, and the places of its pages.     *)
Whereabouts ==
    /\ run.channel \in Allow \cup {""}
    /\ run.cursor \in Messages \cup {0, High(Messages) + 1}
    /\ run.after \in Messages \cup {0}
    /\ run.more \in BOOLEAN /\ run.rest \in BOOLEAN

(* A run that is off, or has just begun, is nowhere yet.                   *)
LEMMA NowhereYet ==
    /\ OffRun.channel = "" /\ OffRun.cursor = 0 /\ OffRun.after = 0
    /\ OffRun.more = FALSE /\ OffRun.rest = FALSE
BY DEF OffRun

(* A page begins after a message, or at either end.                        *)
LEMMA WhereaboutsStep ==
    ASSUME RunInv, Whereabouts, [BothNext]_allVars
    PROVE  Whereabouts'
<1>0. DOMAIN run = {"pc", "todo", "channel", "cursor", "more", "page", "after",
                    "rest", "replies", "since"}
  BY DEF RunInv, RunType
<1>1. CASE run' = run
  BY <1>1 DEF Whereabouts
<1>2. CASE Start \/ Complete \/ ReadFails \/ HandleFails \/ ApplyError \/ CrashRun
  <2>1. /\ run'.channel = "" /\ run'.cursor = 0 /\ run'.after = 0
        /\ run'.more = FALSE /\ run'.rest = FALSE
    BY <1>2 DEF Start, Complete, ReadFails, HandleFails, ApplyError, CrashRun,
                Abort, Exits, OffRun
  <2> QED BY <2>1 DEF Whereabouts
<1>3. CASE NextChannel
  <2>1. PICK c \in run.todo :
            run' = [run EXCEPT !.pc = "history", !.todo = @ \ {c}, !.channel = c,
                               !.cursor = High(Messages) + 1]
    BY <1>3 DEF NextChannel
  <2>2. c \in Allow
    BY DEF RunInv, RunType
  <2> QED BY <1>0, <2>1, <2>2 DEF Whereabouts
<1>4. CASE GetHistory
  <2> DEFINE below == {m \in TopLevel(run.channel) : m < run.cursor}
             shown == Newest(below)
             cursor == IF shown = {} THEN run.cursor ELSE Low(shown)
             copies == {Shown(m) : m \in shown}
             more   == shown # below
  <2>1. run' = [run EXCEPT !.pc = "page", !.page = copies, !.more = more,
                           !.cursor = cursor]
    BY <1>4 DEF GetHistory
  <2>2. shown \subseteq Messages
    BY DEF Newest, TopLevel, Visible
  <2>3. shown # {} => Low(shown) \in Messages
    BY <2>2, LowIs
  <2>4. more \in BOOLEAN /\ cursor \in Messages \cup {run.cursor}
    BY <2>3
  <2> HIDE DEF copies, more, cursor
  <2> QED BY <1>0, <2>1, <2>4 DEF Whereabouts
<1>5. CASE GetReplies
  <2> DEFINE above == {m \in (Replies(Current.ts) \cup {Current.ts}) \cap Visible :
                           m > run.after}
             shown == Eldest(above)
             after == IF shown = {} THEN run.after ELSE High(shown)
             copies == {Shown(m) : m \in shown}
             rest   == shown # above
  <2>1. run' = [run EXCEPT !.pc = "thread page", !.replies = copies, !.rest = rest,
                           !.after = after]
    BY <1>5 DEF GetReplies
  <2>2. shown \subseteq Messages
    BY DEF Eldest, Visible
  <2>3. shown # {} => High(shown) \in Messages
    BY <2>2, HighIs
  <2>4. rest \in BOOLEAN /\ after \in Messages \cup {run.after}
    BY <2>3
  <2> HIDE DEF copies, rest, after
  <2> QED BY <1>0, <2>1, <2>4 DEF Whereabouts
<1>6. CASE UpsertMessageOfPage \/ UpsertReply
  <2>1. \E pc \in {"message", "reply"} : run' = [run EXCEPT !.pc = pc]
    BY <1>6 DEF UpsertMessageOfPage, UpsertReply, upsert
  <2> QED BY <1>0, <2>1 DEF Whereabouts
<1>7. CASE NextPage \/ MessageDone \/ ReplyDone \/ NextReplies
  <2>1. /\ UNCHANGED <<run.channel, run.cursor, run.rest>>
        /\ run'.after \in {0, run.after} /\ run'.more \in {FALSE, run.more}
    BY <1>0, <1>7 DEF NextPage, MessageDone, ReplyDone, NextReplies
  <2> QED BY <2>1 DEF Whereabouts
<1>8. CASE ApplyStep \/ ApplyFails
  <2>1. run' = run
    BY <1>8 DEF ApplyStep, ApplyFails
  <2> QED BY <1>1, <2>1
<1> QED BY <1>1, <1>2, <1>3, <1>4, <1>5, <1>6, <1>7, <1>8, EitherSteps
        DEF BackfillStep, BackfillNext, Progress

\* Every variable of both processes keeps to values of its kind: the copies of
\* a run are of messages that Slack showed, in versions they had, one each, and
\* its channel, its cursors and its flags are those of a channel of the
\* allowlist and of pages of it.
THEOREM BothTypes ==
    ASSUME ListsApart
    PROVE  BothSpec => []BothTypeOK
<1>1. BothInv /\ BothBounds /\ Whereabouts => BothTypeOK
  <2> SUFFICES ASSUME BothInv, BothBounds, Whereabouts PROVE BothTypeOK
    OBVIOUS
  <2>1. TypeOK
    BY CallTypes, PublishedTypes
       DEF BothInv, PipeInv, TypeInv, BothBounds, Bounded, TypeOK, ApplyTypeOK, SlackTypeOK
  <2>2. BackfillTypeOK
    BY DEF BothInv, RunInv, RunType, CopyOK, Whereabouts, BackfillTypeOK
  <2> QED BY <2>1, <2>2 DEF BothBounds, BothTypeOK
<1>2. BothInit => BothBounds /\ Whereabouts
  BY BoundedInit, NowhereYet DEF BothInit, BothBounds, Whereabouts
<1>3. BothInv /\ Whereabouts /\ [BothNext]_allVars => Whereabouts'
  BY WhereaboutsStep DEF BothInv
<1> QED BY BothInitial, BothStep, BothBounded, <1>1, <1>2, <1>3, PTL DEF BothSpec
-----------------------------------------------------------------------------
(* Both caches follow the tables, and no message goes before its channel.  *)
LEMMA BothWritten ==
    ASSUME BothInv, Written, [BothNext]_allVars
    PROVE  Written'
<1>0. Backfiller \in Processes
  BY BackfillAssumption
<1>1. CASE [Next]_vars
  BY <1>1, WrittenStep DEF BothInv
<1>2. CASE ApplyStep \/ ApplyFails
  <2>1. Apply(Backfiller) \/ WriteFails(Backfiller)
    BY <1>2 DEF ApplyStep, ApplyFails
  <2> QED BY <1>0, <2>1, CacheFollows, ChannelStays DEF BothInv, Written
<1>3. CASE BackfillStep /\ UNCHANGED store
  <2>1. DOMAIN call = Processes /\ DOMAIN seen = Processes
    BY DEF BothInv, PipeInv, TypeInv
  <2>2. CASE Start \/ NextChannel \/ GetHistory \/ NextPage \/ GetReplies \/ NextReplies
    BY <1>3, <2>2, WrittenStays
       DEF BothInv, store, Start, NextChannel, GetHistory, NextPage, GetReplies, NextReplies
  <2>3. CASE UpsertMessageOfPage \/ UpsertReply
    <3>1. PICK s, pc : upsert(s, pc)
      BY <2>3 DEF UpsertMessageOfPage, UpsertReply
    <3>2. call[Backfiller] = Idle
      BY <2>3 DEF UpsertMessageOfPage, UpsertReply, BothInv, RunInv, TaskOK
    <3>3. \A p \in Processes : \/ call'[p] = call[p]
                               \/ call'[p].pc \notin {"user", "upsert"}
      <4>1. \A a : FirstStep(a.kind) \notin {"user", "upsert"}
        BY DEF FirstStep
      <4>2. CASE Begin(Backfiller, messageToRow(s))
        BY <1>0, <2>1, <4>1, <4>2 DEF Begin
      <4>3. CASE call' = [call EXCEPT ![Backfiller].pc = "done"]
        <5>1. call'[Backfiller].pc = "done"
          BY <1>0, <2>1, <3>2, <4>3 DEF Idle
        <5> QED BY <2>1, <4>3, <5>1
      <4> QED BY <3>1, <4>2, <4>3 DEF upsert
    <3> QED BY <3>1, <3>3, WrittenStays DEF BothInv, upsert, store
  <2>4. ASSUME call' = [call EXCEPT ![Backfiller] = Idle],
               seen' \in {seen, [seen EXCEPT ![Backfiller] = NoneSeen]}
        PROVE  Written'
    <3>1. /\ \A p \in Processes : seen'[p] \in {seen[p], NoneSeen}
          /\ \A p \in Processes : \/ call'[p] = call[p]
                                  \/ call'[p].pc \notin {"user", "upsert"}
      BY <2>1, <2>4 DEF Idle
    <3> QED BY <1>3, <3>1, WrittenStays DEF BothInv, store
  <2>5. CASE MessageDone \/ ReplyDone
    BY <2>4, <2>5 DEF MessageDone, ReplyDone
  <2>6. ASSUME NEW pc, NEW since, Exits(pc, since) PROVE Written'
    BY <2>4, <2>6 DEF Exits
  <2> QED BY <1>2, <1>3, <2>2, <2>3, <2>5, <2>6, BackfillCases
<1> QED BY <1>1, <1>2, <1>3, EitherSteps, BackfillCases

\* With two processes on one database, each with a cache of its own, what
\* either believes to be written is written.
THEOREM BothCachesFollow ==
    ASSUME ListsApart
    PROVE  BothSpec => []SeenIsWritten
<1>1. Written => SeenIsWritten
  BY DEF Written
<1>2. BothInit => Written
  BY WrittenInit DEF BothInit
<1> QED BY BothInitial, BothStep, BothWritten, <1>1, <1>2, PTL DEF BothSpec

\* Neither process ever writes a message before its channel is there, so that
\* the foreign key fails neither.
THEOREM BothChannelsFirst ==
    ASSUME ListsApart
    PROVE  BothSpec => []ChannelBeforeMessage
<1>1. Written => ChannelBeforeMessage
  BY DEF Written
<1>2. BothInit => Written
  BY WrittenInit DEF BothInit
<1> QED BY BothInitial, BothStep, BothWritten, <1>1, <1>2, PTL DEF BothSpec
-----------------------------------------------------------------------------
(***************************************************************************)
(* Backfill against the live path.                                         *)
(***************************************************************************)
\* The copies that are still to be written: those whose ts are Held.
Pending == (run.page \ (IF run.pc \in {"replies", "thread page", "reply"}
                        THEN {Current} ELSE {})) \cup run.replies

\* A copy shows the message as it is, unless it was overtaken.
Fresh(s) == s.ts \in overtaken \/ (s.version = version[s.ts] /\ s.ts \notin gone)

(* A step of backfill leaves the live path alone.                          *)
LEMMA BackfillApart ==
    ASSUME BothInv, BackfillStep
    PROVE  /\ call'[Consumer] = call[Consumer]
           /\ TurnOK => TurnOK'
           /\ Ordered => Ordered'
           /\ RowsSound => RowsSound'
           /\ NothingLost => NothingLost'
           /\ \A m \in Messages :
                 RowOK(m) /\ messages'[m] = messages[m] => RowOK(m)'
<1>0. /\ Consumer \in Processes \ {Backfiller} /\ Backfiller \in Processes
      /\ DOMAIN call = Processes
  BY BackfillAssumption, PipelineAssumption, TwoProcesses DEF BothInv, PipeInv, TypeInv
<1>1. call'[Consumer] = call[Consumer]
  <2>1. CASE ApplyStep \/ ApplyFails
    <3>1. Apply(Backfiller) \/ WriteFails(Backfiller)
      BY <2>1 DEF ApplyStep, ApplyFails
    <3> QED BY <1>0, <3>1, ApplyActs DEF BothInv
  <2>2. CASE UpsertMessageOfPage \/ UpsertReply
    BY <1>0, <2>2 DEF UpsertMessageOfPage, UpsertReply, upsert, Begin
  <2> QED BY <1>0, <2>1, <2>2, BackfillCases
          DEF Start, NextChannel, GetHistory, NextPage, GetReplies, NextReplies,
              MessageDone, ReplyDone, Exits
<1>2. /\ UNCHANGED <<version, gone, unacked, resent, events, current, proc, lost>>
      /\ PublishedEvents' = PublishedEvents
  BY BackfillCases DEF slack, delivery, PublishedEvents
<1>3. /\ \A m : /\ Places(m)' = Places(m) /\ InHand(m)' = InHand(m)
                /\ Repeated(m)' = Repeated(m) /\ Top(m)' = Top(m)
                /\ Expected(m)' = Expected(m)
  BY <1>2 DEF Places, InHand, Repeated, Top, Expected, Admitted
<1>4. /\ TurnOK => TurnOK'
      /\ NothingLost => NothingLost'
  BY <1>1, <1>2 DEF TurnOK, NothingLost
<1>5. \A m : Accounted(m)' = Accounted(m)
  BY <1>1, <1>2, <1>3 DEF Accounted
<1>6. Ordered => Ordered'
  BY <1>2, <1>3, <1>5 DEF Ordered, InLine, LastIsTop
<1>7. RowsSound => RowsSound'
  <2>1. CASE ApplyStep \/ ApplyFails
    <3>1. [M!Next]_(M!vars)
      BY <1>0, <2>1, ApplyMirrors DEF BothInv, ApplyStep, ApplyFails, M!Next
    <3> QED BY <3>1, SoundStep DEF BothInv
  <2>2. CASE UNCHANGED store
    BY <1>2, <2>2 DEF store, RowsSound, Admitted
  <2> QED BY <2>1, <2>2, BackfillCases
<1>8. ASSUME NEW m \in Messages, RowOK(m), messages'[m] = messages[m]
      PROVE  RowOK(m)'
  BY <1>1, <1>3, <1>5, <1>8 DEF RowOK
<1> QED BY <1>1, <1>4, <1>6, <1>7, <1>8

(* What the call of a run writes: the copy whose turn it is.               *)
LEMMA BackfillWrites ==
    ASSUME ListsApart, BothInv, ApplyStep \/ ApplyFails
    PROVE  \E s \in Pending :
             /\ CopyOK(s) /\ s.ts \in Admitted
             /\ messages' \in {messages, [messages EXCEPT ![s.ts] = s.version]}
             /\ call'[Backfiller].pc = "done" => messages'[s.ts] = s.version
             /\ s = (IF run.pc = "message" THEN Current ELSE CurrentReply)
             /\ run.pc \in {"message", "reply"}
<1>0. /\ Backfiller \in Processes
      /\ Apply(Backfiller) \/ WriteFails(Backfiller)
  BY BackfillAssumption DEF ApplyStep, ApplyFails
<1>1. call[Backfiller].pc \in {"channel", "user", "upsert", "delete"}
  BY <1>0, ApplyActs DEF BothInv
<1>2. run.pc \in {"message", "reply"}
  <2>1. call[Backfiller] # Idle
    BY <1>1 DEF Idle
  <2> QED BY <2>1 DEF BothInv, RunInv, TaskOK
<1>3. PICK s : s = (IF run.pc = "message" THEN Current ELSE CurrentReply)
  OBVIOUS
<1>4. s \in Pending /\ CopyOK(s)
  <2>1. CASE run.pc = "message"
    BY <1>3, <2>1, CurrentIs DEF BothInv, RunInv, TaskOK, RunType, Pending
  <2>2. CASE run.pc = "reply"
    BY <1>3, <2>2, CurrentReplyIs DEF BothInv, RunInv, TaskOK, RunType, Pending
  <2> QED BY <1>2, <2>1, <2>2
<1>5. WorksOn(s)
  BY <1>2, <1>3 DEF BothInv, RunInv, TaskOK
<1>6. /\ SubtypePersisted(s.subtype)
      /\ call[Backfiller].act = messageToRow(s)
      /\ call[Backfiller].pc # "delete"
  <2>1. call[Backfiller] # [pc |-> "done"]
    BY <1>1
  <2>2. /\ SubtypePersisted(s.subtype)
        /\ \E pc \in {"channel", "user", "upsert", "done", "error"} :
              call[Backfiller] = [pc |-> pc, act |-> messageToRow(s)]
    BY <1>5, <2>1 DEF WorksOn
  <2> QED BY <2>2
<1>7. /\ call[Backfiller].act = [kind |-> "upsert", ts |-> s.ts, version |-> s.version]
      /\ s.ts \in Admitted
      /\ s.ts \in Messages
  BY <1>4, <1>6, SoundCopy DEF BothInv, PipeInv, Admitted
<1>8. Msg(Backfiller) = s.ts /\ call[Backfiller].act.version = s.version
  BY <1>7 DEF Msg
<1>9. messages' \in {messages, [messages EXCEPT ![s.ts] = s.version]}
  <2>1. CASE Apply(Backfiller)
    BY <1>6, <1>8, <2>1 DEF Apply, EnsureChannel, EnsureUser, UpsertMessage, DeleteMessage,
                            WriteChannel, WriteUser, WriteMessage, store
  <2>2. CASE WriteFails(Backfiller)
    BY <1>6, <1>8, <2>2 DEF WriteFails, WriteChannel, WriteUser, WriteMessage, store
  <2> QED BY <1>0, <2>1, <2>2
<1>10. call'[Backfiller].pc = "done" => messages'[s.ts] = s.version
  <2> SUFFICES ASSUME call'[Backfiller].pc = "done" PROVE messages'[s.ts] = s.version
    OBVIOUS
  <2>1. messages' = [messages EXCEPT ![s.ts] = s.version]
    BY <1>0, <1>6, <1>8, ApplyActs DEF BothInv
  <2> QED BY <1>7, <2>1 DEF BothInv, PipeInv, TypeInv
<1> QED BY <1>2, <1>3, <1>4, <1>7, <1>9, <1>10

(* A run comes by a copy only from what Slack shows at that time.          *)
LEMMA PendingStep ==
    ASSUME BothInv, BackfillStep
    PROVE  \A s \in Pending' :
              \/ s \in Pending
              \/ s.ts \in Visible /\ s.version = version[s.ts]
<1>0. /\ DOMAIN run = {"pc", "todo", "channel", "cursor", "more", "page", "after",
                       "rest", "replies", "since"}
      /\ TypeInv
  BY DEF BothInv, PipeInv, RunInv, RunType
<1>1. CASE Start \/ (\E pc, since : Exits(pc, since))
  <2>1. run'.page = {} /\ run'.replies = {}
    BY <1>1 DEF Start, Exits, OffRun
  <2> QED BY <2>1 DEF Pending
<1>2. CASE NextChannel \/ NextPage
  <2>1. /\ run'.page = run.page /\ run'.replies = run.replies
        /\ run.pc \notin {"replies", "thread page", "reply"}
    BY <1>0, <1>2 DEF NextChannel, NextPage
  <2> QED BY <2>1 DEF Pending
<1>3. CASE GetHistory
  <2> DEFINE below == {m \in TopLevel(run.channel) : m < run.cursor}
  <2>1. /\ run'.page = {Shown(m) : m \in Newest(below)}
        /\ run'.replies = run.replies
        /\ run.pc = "history"
    BY <1>0, <1>3 DEF GetHistory
  <2>2. Newest(below) \subseteq Visible
    BY DEF Newest, TopLevel
  <2>3. \A s \in run'.page : s.ts \in Visible /\ s.version = version[s.ts]
    <3> HIDE DEF below
    <3> QED BY <2>1, <2>2 DEF Shown
  <2> QED BY <2>1, <2>3 DEF Pending
<1>4. CASE GetReplies
  <2> DEFINE above == {m \in (Replies(Current.ts) \cup {Current.ts}) \cap Visible :
                           m > run.after}
  <2>1. /\ run'.replies = {Shown(m) : m \in Eldest(above)}
        /\ run'.page = run.page
        /\ run.pc = "replies" /\ run'.pc = "thread page"
    BY <1>0, <1>4 DEF GetReplies
  <2>2. Eldest(above) \subseteq Visible
    BY DEF Eldest
  <2>3. ASSUME NEW s \in run'.replies
        PROVE  s.ts \in Visible /\ s.version = version[s.ts]
    <3>1. PICK m \in Eldest(above) : s = Shown(m)
      BY <2>1
    <3> QED BY <2>2, <3>1 DEF Shown
  <2>4. Current' = Current
    BY <2>1 DEF Current
  <2> QED BY <2>1, <2>3, <2>4 DEF Pending
<1>5. CASE NextReplies
  <2>1. /\ run.pc = "thread page"
        /\ run'.replies = run.replies
        /\ \/ run'.pc = "replies" /\ run'.page = run.page
           \/ run'.pc = "page" /\ run'.page = run.page \ {Current}
    BY <1>0, <1>5 DEF NextReplies
  <2>2. run'.page = run.page => Current' = Current
    BY DEF Current
  <2> QED BY <2>1, <2>2 DEF Pending
<1>6. CASE UpsertMessageOfPage \/ UpsertReply
  <2>1. /\ run'.page = run.page /\ run'.replies = run.replies
        /\ \/ run.pc = "page" /\ run'.pc = "message"
           \/ run.pc = "thread page" /\ run'.pc = "reply"
    BY <1>0, <1>6 DEF UpsertMessageOfPage, UpsertReply, upsert
  <2>2. Current' = Current
    BY <2>1 DEF Current
  <2> QED BY <2>1, <2>2 DEF Pending
<1>7. CASE MessageDone
  <2>1. /\ run.pc = "message"
        /\ run'.replies = run.replies
        /\ \/ run'.pc = "replies" /\ run'.page = run.page
           \/ run'.pc = "page" /\ run'.page = run.page \ {Current}
    BY <1>0, <1>7 DEF MessageDone
  <2> QED BY <2>1 DEF Pending
<1>8. CASE ReplyDone
  <2>1. /\ run.pc = "reply" /\ run'.pc = "thread page"
        /\ run'.replies \subseteq run.replies /\ run'.page = run.page
    BY <1>0, <1>8 DEF ReplyDone
  <2>2. Current' = Current
    BY <2>1 DEF Current
  <2> QED BY <2>1, <2>2 DEF Pending
<1>9. CASE ApplyStep \/ ApplyFails
  <2>1. run' = run
    BY <1>9 DEF ApplyStep, ApplyFails
  <2>2. Current' = Current
    BY <2>1 DEF Current
  <2>3. Pending' = Pending
    BY <2>1, <2>2 DEF Pending
  <2> QED BY <2>3
<1> QED BY <1>1, <1>2, <1>3, <1>4, <1>5, <1>6, <1>7, <1>8, <1>9, BackfillCases

\* Of a message that no copy overtook, the row is right; and of the others the
\* run holds the copies that may yet put it wrong.
OvertakenInv ==
    /\ TurnOK /\ Ordered /\ RowsSound /\ NothingLost
    /\ \A s \in Pending : Fresh(s)
    /\ \A m \in Messages \ overtaken : RowOK(m)

(* The channel and the event in hand are as without backfill.              *)
LEMMA OvertakenInit == BothInit => OvertakenInv
<1> SUFFICES ASSUME BothInit PROVE OvertakenInv
  OBVIOUS
<1>1. Delivery /\ NothingLost
  BY DeliveryInit, LossInit DEF BothInit
<1>2. Pending = {}
  BY DEF BothInit, OffRun, Pending
<1> QED BY <1>1, <1>2 DEF Delivery, OvertakenInv

(* What Slack changes under a copy is overtaken from then on; every other row*)
(* is as right as before.                                                  *)
LEMMA OvertakenStep ==
    ASSUME ListsApart, Reliable, BothInv, OvertakenInv, [BothNext]_allVars
    PROVE  OvertakenInv'
<1>1. CASE ServeStep \/ UNCHANGED allVars
  <2>1. [Next]_vars /\ run' = run
    BY <1>1 DEF ServeStep, allVars
  <2>2. TurnOK' /\ Ordered' /\ RowsSound' /\ NothingLost'
    BY <2>1, TurnStep, OrderedStep, MirrorStep, SoundStep, LossStep
       DEF BothInv, OvertakenInv
  <2>3. Pending' = Pending
    <3>1. Current' = Current
      BY <2>1 DEF Current
    <3> QED BY <2>1, <3>1 DEF Pending
  <2>4. /\ overtaken \subseteq overtaken'
        /\ \A s \in Pending :
              \/ s.ts \in overtaken'
              \/ version'[s.ts] = version[s.ts] /\ (s.ts \in gone' => s.ts \in gone)
    <3>1. CASE UNCHANGED allVars
      BY <3>1 DEF allVars, vars
    <3>2. CASE ServeStep
      <4>1. overtaken' = overtaken \cup (Changed \cap Held)
        BY <3>2 DEF ServeStep
      <4>2. \A s \in Pending : s.ts \in Held /\ s.ts \in Messages
        BY DEF Pending, Held, BothInv, RunInv, RunType, CopyOK, Snapshot
      <4>3. \A m \in Messages \ Changed : /\ version'[m] = version[m]
                                          /\ m \in gone' => m \in gone
        BY DEF Changed
      <4>4. ASSUME NEW s \in Pending
            PROVE  \/ s.ts \in overtaken'
                   \/ version'[s.ts] = version[s.ts] /\ (s.ts \in gone' => s.ts \in gone)
        <5>1. s.ts \in Changed => s.ts \in overtaken'
          BY <4>1, <4>2
        <5>2. s.ts \notin Changed => /\ version'[s.ts] = version[s.ts]
                                     /\ s.ts \in gone' => s.ts \in gone
          BY <4>2, <4>3
        <5> QED BY <5>1, <5>2
      <4>5. overtaken \subseteq overtaken'
        BY <4>1
      <4> QED BY <4>4, <4>5
    <3> QED BY <1>1, <3>1, <3>2
  <2>5. \A s \in Pending' : Fresh(s)'
    <3> SUFFICES ASSUME NEW s \in Pending PROVE Fresh(s)'
      BY <2>3
    <3>1. Fresh(s)
      BY DEF OvertakenInv
    <3> QED BY <2>4, <3>1 DEF Fresh
  <2>6. \A m \in Messages \ overtaken' : RowOK(m)'
    <3> SUFFICES ASSUME NEW m \in Messages \ overtaken' PROVE RowOK(m)'
      OBVIOUS
    <3>1. RowOK(m)
      BY <2>4 DEF OvertakenInv
    <3> QED BY <2>1, <3>1, RowStep DEF BothInv, OvertakenInv
  <2> QED BY <2>2, <2>5, <2>6 DEF OvertakenInv
<1>2. CASE BackfillStep
  <2>1. TurnOK' /\ Ordered' /\ RowsSound' /\ NothingLost'
    BY <1>2, BackfillApart DEF OvertakenInv
  <2>2. UNCHANGED <<overtaken, version, gone>>
    BY <1>2, BackfillCases DEF BackfillStep, slack
  <2>3. \A s \in Pending' : Fresh(s)'
    <3> SUFFICES ASSUME NEW s \in Pending' PROVE Fresh(s)'
      OBVIOUS
    <3>1. CASE s \in Pending
      BY <2>2, <3>1 DEF OvertakenInv, Fresh
    <3>2. CASE s.ts \in Visible /\ s.version = version[s.ts]
      BY <2>2, <3>2 DEF Visible, Fresh
    <3> QED BY <1>2, <3>1, <3>2, PendingStep
  <2>4. \A m \in Messages \ overtaken' : RowOK(m)'
    <3> SUFFICES ASSUME NEW m \in Messages \ overtaken PROVE RowOK(m)'
      BY <2>2
    <3>1. CASE messages'[m] = messages[m]
      BY <1>2, <3>1, BackfillApart DEF OvertakenInv
    <3>2. CASE messages'[m] # messages[m]
      <4>1. ApplyStep \/ ApplyFails
        BY <1>2, <3>2, BackfillCases DEF store
      <4>2. PICK s \in Pending :
               /\ s.ts \in Admitted
               /\ messages' \in {messages, [messages EXCEPT ![s.ts] = s.version]}
        BY <4>1, BackfillWrites
      <4>3. s.ts = m /\ messages'[m] = s.version
        BY <3>2, <4>2 DEF BothInv, PipeInv, TypeInv
      <4>4. s.version = version[m] /\ m \notin gone /\ m \in Admitted
        BY <4>2, <4>3 DEF OvertakenInv, Fresh
      <4>5. messages'[m] = Expected(m)'
        BY <2>2, <4>3, <4>4 DEF Expected, Admitted
      <4> QED BY <4>5 DEF RowOK
    <3> QED BY <3>1, <3>2
  <2> QED BY <2>1, <2>3, <2>4 DEF OvertakenInv
<1> QED BY <1>1, <1>2 DEF BothNext

\* As long as the live path loses and repeats nothing, a row disagrees with
\* Slack only if the message changed while backfill held a copy of it, or if it
\* is one of the old messages that backfill has yet to bring: whatever fails in
\* backfill, wherever it is killed, and however often it runs.
THEOREM OnlyOvertakenDiverge ==
    ASSUME ListsApart, Reliable
    PROVE  BothSpec => []DivergesOnlyIfOvertaken
<1>1. OvertakenInv => DivergesOnlyIfOvertaken
  BY QuietRows DEF OvertakenInv, NothingLost, DivergesOnlyIfOvertaken
<1> QED BY BothInitial, BothStep, OvertakenInit, OvertakenStep, <1>1, PTL DEF BothSpec
-----------------------------------------------------------------------------
(***************************************************************************)
(* What paging brings.  A message that Slack showed when the run began is  *)
(* in the mirror, or serve will bring it from an event, or the run has     *)
(* still to come by: its channel, its page, its turn on the page, or the   *)
(* page of its thread.                                                     *)
(***************************************************************************)
ParentsVisible == \A m \in Visible : ParentOf[m] \in Visible

\* Every envelope that Slack holds is in the channel.
AllSent == \A ev \in unacked : \E i \in 1..Len(events) : events[i] = ev

\* The row of m is of version v or later, or an event of m is on its way.
Arrives(m, v) ==
    \/ messages[m] >= v
    \/ Places(m) # {}
    \/ InHand(m) # {} /\ call[Consumer].pc \notin {"done", "error"}

(* A thread goes before its parent does.                                   *)
LEMMA ParentsStay ==
    ASSUME PipeInv, ParentsVisible, [Next]_vars
    PROVE  ParentsVisible'
<1>0. /\ version \in [Messages -> Nat] /\ gone \subseteq Messages
      /\ ParentOf \in [Messages -> Messages]
  BY SlackAssumption DEF PipeInv, TypeInv
<1>1. ASSUME NEW k \in Messages, PublishWrite(k)
      PROVE  ParentsVisible'
  <2>1. /\ k \notin gone /\ gone' = gone
        /\ version' = [version EXCEPT ![k] = @ + 1]
        /\ ParentOf[k] \in Visible \cup {k}
    BY <1>1 DEF PublishWrite, Write
  <2>2. Visible' = Visible \cup {k}
    BY <1>0, <2>1 DEF Visible
  <2> QED BY <1>0, <2>1, <2>2 DEF ParentsVisible
<1>2. ASSUME NEW k \in Messages, PublishRemove(k)
      PROVE  ParentsVisible'
  <2>1. /\ gone' = gone \cup {k} /\ version' = version
        /\ Replies(k) \cap Visible = {}
    BY <1>2 DEF PublishRemove, Remove
  <2>2. Visible' = Visible \ {k}
    BY <2>1 DEF Visible
  <2> QED BY <2>1, <2>2 DEF ParentsVisible, Replies, Visible
<1>3. ASSUME UNCHANGED <<version, gone>> PROVE ParentsVisible'
  BY <1>3 DEF ParentsVisible, Visible
<1> QED BY <1>1, <1>2, <1>3 DEF Next, Deliver, Loop, Redeliver, Take, Step, StepFails,
           Return, Sigterm, Exit, Restart, slack, vars

(* A reliable process is sent every event and takes them in their order.   *)
LEMMA AllSentStep ==
    ASSUME PipeInv, NothingLost, NothingLost', AllSent, [Next]_vars
    PROVE  AllSent'
<1>1. ASSUME NEW k \in Messages, PublishWrite(k) \/ PublishRemove(k)
      PROVE  AllSent'
  <2>1. PICK ev : Publish(ev)
    BY <1>1 DEF PublishWrite, PublishRemove
  <2>2. unacked' = unacked \cup {ev} /\ events' = Append(events, ev)
    BY <2>1 DEF Publish, NothingLost
  <2>3. /\ Len(events) \in Nat /\ Len(events') = Len(events) + 1
        /\ events'[Len(events) + 1] = ev
        /\ \A i \in 1..Len(events) : events'[i] = events[i]
    BY <2>2 DEF PipeInv, Genuine
  <2> QED BY <2>2, <2>3 DEF AllSent
<1>2. CASE Take
  <2>1. /\ unacked' = unacked \ {Head(events)} /\ events' = Tail(events)
        /\ events # <<>>
    BY <1>2 DEF Take
  <2>2. /\ Len(events) \in Nat /\ Len(events') = Len(events) - 1
        /\ Head(events) = events[1]
        /\ \A i \in 1..Len(events') : events'[i] = events[i + 1]
    BY <2>1 DEF PipeInv, Genuine
  <2> SUFFICES ASSUME NEW ev \in unacked' PROVE \E i \in 1..Len(events') : events'[i] = ev
    BY DEF AllSent
  <2>3. PICK i \in 1..Len(events) : events[i] = ev
    BY <2>1 DEF AllSent
  <2>4. i - 1 \in 1..Len(events') /\ (i - 1) + 1 = i
    BY <2>1, <2>2, <2>3
  <2> QED BY <2>2, <2>3, <2>4
<1>3. ASSUME UNCHANGED <<unacked, events>> PROVE AllSent'
  BY <1>3 DEF AllSent
<1>4. ~Redeliver /\ ~Exit
  BY DEF Redeliver, Exit, NothingLost
<1> QED BY <1>1, <1>2, <1>3, <1>4 DEF Next, Deliver, Loop, Step, StepFails, delivery,
           Return, Sigterm, Restart, vars

(* So none is lost on its way.                                            *)
LEMMA AllAccounted ==
    ASSUME NothingLost, AllSent, NEW m PROVE Accounted(m)
BY DEF NothingLost, AllSent, Accounted, Places

(* What serve was sent of a message it handles in order, so that the row is *)
(* in the end no older than it was.                                        *)
LEMMA ArrivesStep ==
    ASSUME PipeInv, TurnOK, Ordered, NothingLost, NothingLost', AllSent, [Next]_vars,
           NEW m \in Admitted, m \notin gone', NEW v \in 0..version[m], Arrives(m, v)
    PROVE  Arrives(m, v)'
<1>0. /\ Consumer \in Processes /\ m \in Messages
      /\ m \notin gone
      /\ DOMAIN call = Processes
  BY PipelineAssumption, SlackGrows DEF Admitted, PipeInv, TypeInv
<1>1. ASSUME UNCHANGED <<messages, call, current>>, Places(m) # {} => Places(m)' # {}
      PROVE  Arrives(m, v)'
  BY <1>1 DEF Arrives, InHand
<1>2. ASSUME NEW k \in Messages, PublishWrite(k) \/ PublishRemove(k)
      PROVE  Arrives(m, v)'
  <2>1. PICK ev : Publish(ev)
    BY <1>2 DEF PublishWrite, PublishRemove
  <2>2. /\ events' = Append(events, ev)
        /\ UNCHANGED <<messages, call, current>>
    BY <2>1 DEF Publish, NothingLost, store
  <2>3. Places(m) \subseteq Places(m)'
    BY <2>2, PlacesAppended
  <2> QED BY <1>1, <2>2, <2>3
<1>3. CASE Take
  <2> DEFINE ev == Head(events)
             act == Dispatch(ChannelOf[About(ev)], ev)
  <2>1. /\ events # <<>> /\ events' = Tail(events)
        /\ current' = {ev}
        /\ call' = [call EXCEPT ![Consumer] = [pc |-> FirstStep(act.kind), act |-> act]]
        /\ messages' = messages
        /\ call[Consumer].pc = "idle"
    BY <1>3 DEF Take, Begin, store
  <2>2. CASE About(ev) = m
    <3>1. InHand(m)' # {}
      BY <2>1, <2>2 DEF InHand
    <3>2. ev \in PublishedEvents
      BY <2>1 DEF PipeInv, Genuine
    <3>3. act.kind = "upsert"
      <4>1. \/ act = ActionSkip /\ About(ev) \notin Admitted
            \/ act = ActionDelete(About(ev)) /\ About(ev) \in gone
            \/ act = [kind |-> "upsert", ts |-> About(ev), version |-> Rank(ev)]
        BY <3>2, ActionFacts DEF PipeInv
      <4> HIDE DEF act, ev
      <4> QED BY <1>0, <2>2, <4>1
    <3>4. call'[Consumer].pc = "channel"
      <4> HIDE DEF act
      <4> QED BY <1>0, <2>1, <3>3 DEF FirstStep
    <3> QED BY <3>1, <3>4 DEF Arrives
  <2>3. CASE About(ev) # m
    <3>1. Places(m) # {} => Places(m)' # {}
      BY <2>1, <2>3, PlacesTaken
    <3>2. InHand(m) = {}
      BY <2>1 DEF InHand, TurnOK
    <3> QED BY <2>1, <3>1, <3>2 DEF Arrives
  <2> QED BY <2>2, <2>3
<1>4. CASE Step
  <2>1. /\ UNCHANGED <<version, gone, events>>
        /\ Places(m)' = Places(m)
    BY <1>4 DEF Step, slack, delivery, Places
  <2>2. PICK ev \in PublishedEvents :
             /\ current = {ev} /\ current' = {ev}
             /\ \A n \in Messages : n # About(ev) => messages'[n] = messages[n]
             /\ \/ Rank(ev) = MaxVersion + 1 /\ About(ev) \in gone
                \/ /\ messages'[About(ev)] \in {Rank(ev), messages[About(ev)]}
                   /\ call'[Consumer].pc = "done" => messages'[About(ev)] = Rank(ev)
    BY <1>4, LoopWrites
  <2>3. CASE Places(m) # {}
    BY <2>1, <2>3 DEF Arrives
  <2>4. CASE About(ev) # m
    <3>1. InHand(m) = {}
      BY <2>2, <2>4 DEF InHand
    <3> QED BY <1>0, <2>1, <2>2, <2>4, <3>1 DEF Arrives
  <2>5. CASE About(ev) = m /\ Places(m) = {}
    <3>1. ev \in InHand(m) /\ InHand(m)' # {}
      BY <2>2, <2>5 DEF InHand
    <3>2. LastIsTop(m) /\ Accounted(m)
      BY <1>0, AllAccounted DEF Ordered
    <3>3. Rank(ev) = version[m]
      BY <1>0, <2>5, <3>1, <3>2 DEF LastIsTop, Top
    <3>4. call'[Consumer].pc # "error"
      BY DEF NothingLost
    <3>5. call'[Consumer].pc = "done" => messages'[m] = version[m]
      BY <1>0, <2>2, <2>5, <3>3
    <3>6. version[m] >= v
      BY <1>0, SlackAssumption DEF PipeInv, TypeInv
    <3> QED BY <3>1, <3>4, <3>5, <3>6 DEF Arrives
  <2> QED BY <2>3, <2>4, <2>5
<1>5. CASE Return
  BY <1>5 DEF Return, Arrives, store, Places
<1>6. CASE UNCHANGED vars
  BY <1>1, <1>6 DEF vars, Places
<1>7. ~Redeliver /\ ~StepFails /\ ~Sigterm /\ ~Exit /\ ~Restart
  <2>1. ~StepFails
    <3> SUFFICES ASSUME StepFails PROVE FALSE
      OBVIOUS
    <3>1. call'[Consumer].pc = "error"
      <4>1. WriteFails(Consumer)
        BY DEF StepFails
      <4>2. Goto(Consumer, "error")
        BY <4>1 DEF WriteFails
      <4> QED BY <1>0, <4>2, <4>1, ApplyActs DEF Goto
    <3> QED BY <3>1 DEF NothingLost
  <2> QED BY <2>1 DEF Redeliver, Sigterm, Exit, Restart, NothingLost
<1> QED BY <1>2, <1>3, <1>4, <1>5, <1>6, <1>7 DEF Next, Deliver, Loop

\* What Slack showed of m when the run began, and still shows.
Due(m) == m \in Visible /\ SubtypePersisted(SubtypeOf[m]) /\ run.since[m] > 0

AwaitsChannel(m) ==
    run.pc \in Reading \cup {"channels"} /\ ChannelOf[m] \in run.todo

AwaitsPage(m) ==
    /\ run.pc = "history" \/ (run.pc \in Reading /\ run.more)
    /\ run.channel = ChannelOf[m]
    /\ ParentOf[m] < run.cursor

\* Of the message whose turn it is: it is yet to be written.
AwaitsMessage == run.pc = "message" /\ call[Backfiller].pc # "done"

\* Of its replies: the page of m is still to be read, or m is on it.
AwaitsReply(m) ==
    \/ run.pc = "message"
    \/ run.pc = "replies" /\ m > run.after
    \/ /\ run.pc \in {"thread page", "reply"}
       /\ \/ run.rest /\ m > run.after
          \/ \E r \in run.replies :
                /\ r.ts = m
                /\ run.pc = "reply" /\ r = CurrentReply => call[Backfiller].pc # "done"

\* s, on the page, is m or the parent in whose thread it is.
AwaitsTurn(m, s) ==
    /\ s.ts = ParentOf[m]
    /\ m # s.ts => s.threaded
    /\ \/ run.pc = "page"
       \/ /\ run.pc \in {"message", "replies", "thread page", "reply"}
          /\ s # Current \/ (IF m = s.ts THEN AwaitsMessage ELSE AwaitsReply(m))

Awaits(m) == \/ AwaitsChannel(m) \/ AwaitsPage(m)
             \/ \E s \in run.page : AwaitsTurn(m, s)

\* A run asks for no more than what was there when it began, and its copies
\* are at least that new.
SinceOK ==
    /\ \A m \in Messages : /\ run.since[m] <= version[m]
                           /\ run.since[m] > 0 => InScope(m)
    /\ \A s \in run.page \cup run.replies : s.version >= run.since[s.ts]
    /\ run.pc \in {"channels", "history", "page", "message"} => run.after = 0

Covered(m) == Due(m) => Arrives(m, run.since[m]) \/ Awaits(m)

PagingInv ==
    /\ ParentsVisible /\ AllSent /\ SinceOK
    /\ \A m \in Messages : Covered(m)

(* The run moves on to another channel.                                    *)
LEMMA NextChannelAwaits ==
    ASSUME BothInv, NextChannel, NEW m \in Messages, Awaits(m) PROVE Awaits(m)'
<1>1. PICK c \in run.todo :
        run' = [run EXCEPT !.pc = "history", !.todo = @ \ {c}, !.channel = c,
                           !.cursor = High(Messages) + 1]
  BY DEF NextChannel
<1>2. /\ run.pc = "channels" /\ run'.pc = "history"
      /\ run'.todo = run.todo \ {c} /\ run'.channel = c
      /\ run'.cursor = High(Messages) + 1
  BY <1>1 DEF BothInv, RunInv, RunType, NextChannel
<1>3. ChannelOf[m] \in run.todo
  BY <1>2 DEF Awaits, AwaitsChannel, AwaitsPage, AwaitsTurn, Reading
<1>4. ParentOf[m] < High(Messages) + 1
  <2>1. ParentOf[m] \in Messages /\ Messages \subseteq Nat
    BY SlackAssumption, BackfillAssumption
  <2>2. High(Messages) \in Messages /\ ParentOf[m] <= High(Messages)
    BY <2>1, HighIs
  <2> QED BY <2>1, <2>2
<1> QED BY <1>2, <1>3, <1>4 DEF Awaits, AwaitsChannel, AwaitsPage, Reading

(* The thread of m is on the page that is read, or behind it.              *)
LEMMA GetHistoryAwaits ==
    ASSUME BothInv, ParentsVisible, GetHistory,
           NEW m \in Visible, InScope(m), Awaits(m)
    PROVE  Awaits(m)'
<1> DEFINE below == {n \in TopLevel(run.channel) : n < run.cursor}
           shown == Newest(below)
           t == ParentOf[m]
<1>1. /\ run.pc = "history" /\ run'.pc = "page"
      /\ run'.page = {Shown(n) : n \in shown}
      /\ run'.more = (shown # below)
      /\ run'.cursor = (IF shown = {} THEN run.cursor ELSE Low(shown))
      /\ run'.todo = run.todo /\ run'.channel = run.channel
  BY DEF GetHistory, BothInv, RunInv, RunType
<1>2. AwaitsChannel(m) => AwaitsChannel(m)'
  BY <1>1 DEF AwaitsChannel, Reading
<1>3. ASSUME AwaitsPage(m) PROVE Awaits(m)'
  <2>0. below \subseteq Messages /\ m \in Messages
    BY DEF TopLevel, Visible
  <2>1. t \in below
    <3>1. t \in Visible /\ ParentOf[t] = t /\ ChannelOf[t] = ChannelOf[m]
      BY <2>0, BackfillAssumption DEF ParentsVisible
    <3> QED BY <1>3, <3>1 DEF AwaitsPage, TopLevel, InScope
  <2>2. /\ shown \subseteq below /\ shown # {}
        /\ \A n \in below \ shown, k \in shown : n < k
    <3> HIDE DEF below
    <3> QED BY <2>0, <2>1, NewestFirst
  <2> HIDE DEF shown, below
  <2>3. CASE t \in shown
    <3>1. Shown(t) \in run'.page
      BY <1>1, <2>3
    <3>2. m # t => m \in Replies(t)
      BY <2>0 DEF Replies
    <3>3. Shown(t).ts = t /\ (m # t => Shown(t).threaded)
      BY <3>2 DEF Shown
    <3>4. PICK s \in run'.page : s.ts = t /\ (m # t => s.threaded)
      BY <3>1, <3>3
    <3>5. AwaitsTurn(m, s)'
      BY <1>1, <3>4 DEF AwaitsTurn
    <3> QED BY <3>4, <3>5 DEF Awaits
  <2>4. CASE t \notin shown
    <3>1. Low(shown) \in shown
      BY <2>0, <2>2, LowIs
    <3>2. t < run'.cursor /\ run'.more
      BY <1>1, <2>1, <2>2, <2>4, <3>1
    <3> QED BY <1>1, <1>3, <3>2 DEF Awaits, AwaitsPage, Reading
  <2> QED BY <2>3, <2>4
<1>4. ~\E s \in run.page : AwaitsTurn(m, s)
  BY <1>1 DEF AwaitsTurn
<1> QED BY <1>2, <1>3, <1>4 DEF Awaits

(* The page is done: the next one, or the next channel.                    *)
LEMMA NextPageAwaits ==
    ASSUME BothInv, NextPage, NEW m \in Messages, Awaits(m) PROVE Awaits(m)'
<1>1. /\ run.pc = "page" /\ run.page = {}
      /\ run'.pc = (IF run.more THEN "history" ELSE "channels")
      /\ run'.todo = run.todo /\ run'.channel = run.channel /\ run'.cursor = run.cursor
  BY DEF NextPage, BothInv, RunInv, RunType
<1> QED BY <1>1 DEF Awaits, AwaitsChannel, AwaitsPage, Reading

(* The turn of the next message of the page, or of the next reply.         *)
LEMMA UpsertAwaits ==
    ASSUME BothInv, UpsertMessageOfPage \/ UpsertReply,
           NEW m \in Messages, SubtypePersisted(SubtypeOf[m]), Awaits(m)
    PROVE  Awaits(m)'
<1>1. /\ run' = [run EXCEPT !.pc = run'.pc]
      /\ \/ run.pc = "page" /\ run'.pc = "message" /\ upsert(Current, "message")
         \/ run.pc = "thread page" /\ run'.pc = "reply" /\ upsert(CurrentReply, "reply")
  BY DEF UpsertMessageOfPage, UpsertReply, upsert, BothInv, RunInv, RunType
<1>2. /\ run'.todo = run.todo /\ run'.channel = run.channel /\ run'.cursor = run.cursor
      /\ run'.more = run.more /\ run'.page = run.page /\ run'.after = run.after
      /\ run'.rest = run.rest /\ run'.replies = run.replies
      /\ Current' = Current /\ CurrentReply' = CurrentReply
  <2>1. DOMAIN run = {"pc", "todo", "channel", "cursor", "more", "page", "after",
                     "rest", "replies", "since"}
    BY DEF BothInv, RunInv, RunType
  <2>2. run'.page = run.page /\ run'.replies = run.replies
    BY <1>1, <2>1
  <2> QED BY <1>1, <2>1, <2>2 DEF Current, CurrentReply
<1>3. ASSUME NEW s, SubtypePersisted(s.subtype), NEW pc, upsert(s, pc)
      PROVE  call'[Backfiller].pc = "channel"
  BY <1>3, BackfillAssumption DEF upsert, Begin, messageToRow, FirstStep, BothInv,
                                  PipeInv, TypeInv
<1>4. \A s \in run.page \cup run.replies : s.subtype = SubtypeOf[s.ts]
  BY DEF BothInv, RunInv, RunType, CopyOK
<1>5. AwaitsChannel(m) \/ AwaitsPage(m) => AwaitsChannel(m)' \/ AwaitsPage(m)'
  BY <1>1, <1>2 DEF AwaitsChannel, AwaitsPage, Reading
<1>6. ASSUME NEW s \in run.page, AwaitsTurn(m, s)
      PROVE  AwaitsTurn(m, s)'
  <2>1. CASE run.pc = "page"
    <3>1. s = Current /\ m = s.ts => AwaitsMessage'
      BY <1>1, <1>3, <1>4, <2>1 DEF AwaitsMessage
    <3> QED BY <1>1, <1>2, <1>6, <2>1, <3>1 DEF AwaitsTurn, AwaitsReply
  <2>2. CASE run.pc = "thread page"
    <3>1. /\ run'.pc = "reply"
          /\ \A r \in run.replies : r.ts = m /\ r = CurrentReply =>
                 call'[Backfiller].pc # "done"
      BY <1>1, <1>3, <1>4, <2>2
    <3>2. AwaitsReply(m) => AwaitsReply(m)'
      BY <1>1, <1>2, <2>2, <3>1 DEF AwaitsReply
    <3>3. ~AwaitsMessage
      BY <2>2 DEF AwaitsMessage
    <3> QED BY <1>2, <1>6, <2>2, <3>1, <3>2, <3>3 DEF AwaitsTurn
  <2> QED BY <1>1, <2>1, <2>2
<1> QED BY <1>2, <1>5, <1>6 DEF Awaits

(* The message whose turn it was is written; its thread is read, if it has  *)
(* one.                                                                    *)
LEMMA MessageDoneAwaits ==
    ASSUME BothInv, SinceOK, MessageDone, NEW m \in Messages, Awaits(m)
    PROVE  Awaits(m)'
<1>1. /\ run.pc = "message" /\ call[Backfiller].pc = "done"
      /\ \/ /\ Current.threaded
            /\ run' = [run EXCEPT !.pc = "replies"]
         \/ /\ ~Current.threaded
            /\ run' = [run EXCEPT !.pc = "page", !.page = @ \ {Current}]
  BY DEF MessageDone
<1>2. /\ run'.todo = run.todo /\ run'.channel = run.channel /\ run'.cursor = run.cursor
      /\ run'.more = run.more /\ run'.after = run.after
      /\ \/ Current.threaded /\ run'.pc = "replies" /\ run'.page = run.page
         \/ ~Current.threaded /\ run'.pc = "page" /\ run'.page = run.page \ {Current}
  BY <1>1 DEF BothInv, RunInv, RunType
<1>3. AwaitsChannel(m) \/ AwaitsPage(m) => AwaitsChannel(m)' \/ AwaitsPage(m)'
  BY <1>1, <1>2 DEF AwaitsChannel, AwaitsPage, Reading
<1>4. ASSUME NEW s \in run.page, AwaitsTurn(m, s)
      PROVE  s \in run'.page /\ AwaitsTurn(m, s)'
  <2>1. CASE s # Current
    <3>1. run'.page = run.page => Current' = Current
      BY DEF Current
    <3> QED BY <1>1, <1>2, <1>4, <2>1, <3>1 DEF AwaitsTurn
  <2>2. CASE s = Current
    <3>1. m # s.ts /\ s.threaded
      BY <1>1, <1>4, <2>2 DEF AwaitsTurn, AwaitsMessage
    <3>2. run'.pc = "replies" /\ run'.page = run.page /\ run'.after = 0
      BY <1>1, <1>2, <2>2, <3>1 DEF SinceOK
    <3>3. m > 0
      BY BackfillAssumption
    <3> QED BY <1>4, <3>1, <3>2, <3>3 DEF AwaitsTurn, AwaitsReply
  <2> QED BY <2>1, <2>2
<1> QED BY <1>2, <1>3, <1>4 DEF Awaits

(* The replies of a thread are on the page that is read, or behind it.     *)
LEMMA GetRepliesAwaits ==
    ASSUME BothInv, GetReplies, NEW m \in Visible, Awaits(m)
    PROVE  Awaits(m)'
<1> DEFINE above == {n \in (Replies(Current.ts) \cup {Current.ts}) \cap Visible :
                         n > run.after}
           shown == Eldest(above)
<1>1. /\ run.pc = "replies" /\ run'.pc = "thread page"
      /\ run'.replies = {Shown(n) : n \in shown}
      /\ run'.rest = (shown # above)
      /\ run'.after = (IF shown = {} THEN run.after ELSE High(shown))
      /\ run'.page = run.page /\ run'.more = run.more
      /\ run'.todo = run.todo /\ run'.channel = run.channel /\ run'.cursor = run.cursor
  BY DEF GetReplies, BothInv, RunInv, RunType
<1>2. AwaitsChannel(m) \/ AwaitsPage(m) => AwaitsChannel(m)' \/ AwaitsPage(m)'
  BY <1>1 DEF AwaitsChannel, AwaitsPage, Reading
<1>3. Current' = Current
  BY <1>1 DEF Current
<1>4. ASSUME NEW s \in run.page, AwaitsTurn(m, s)
      PROVE  AwaitsTurn(m, s)'
  <2>1. CASE s # Current
    BY <1>1, <1>3, <1>4, <2>1 DEF AwaitsTurn
  <2>2. CASE s = Current
    <3>1. m # s.ts /\ m > run.after /\ s.ts = ParentOf[m]
      BY <1>1, <1>4, <2>2 DEF AwaitsTurn, AwaitsMessage, AwaitsReply
    <3>2. m \in above /\ above \subseteq Messages /\ m \in Messages
      BY <2>2, <3>1 DEF Replies, Visible
    <3>3. /\ shown \subseteq above /\ shown # {}
          /\ \A n \in above \ shown, k \in shown : n > k
      <4> HIDE DEF above
      <4> QED BY <3>2, EldestFirst
    <3> HIDE DEF shown, above
    <3>4. CASE m \in shown
      <4>1. Shown(m) \in run'.replies /\ Shown(m).ts = m
        BY <1>1, <3>4 DEF Shown
      <4>2. \E r \in run'.replies : r.ts = m
        BY <4>1
      <4>3. AwaitsReply(m)'
        BY <1>1, <4>2 DEF AwaitsReply
      <4> QED BY <1>1, <1>4, <3>1, <4>3 DEF AwaitsTurn
    <3>5. CASE m \notin shown
      <4>1. High(shown) \in shown
        BY <3>2, <3>3, HighIs
      <4>2. m > run'.after /\ run'.rest
        BY <1>1, <3>2, <3>3, <3>5, <4>1
      <4>3. AwaitsReply(m)'
        BY <1>1, <4>2 DEF AwaitsReply
      <4> QED BY <1>1, <1>4, <3>1, <4>3 DEF AwaitsTurn
    <3> QED BY <3>4, <3>5
  <2> QED BY <2>1, <2>2
<1> QED BY <1>1, <1>2, <1>4 DEF Awaits

(* The reply whose turn it was is written.                                 *)
LEMMA ReplyDoneAwaits ==
    ASSUME BothInv, ReplyDone, NEW m \in Messages, Awaits(m)
    PROVE  Awaits(m)'
<1>1. /\ run.pc = "reply" /\ run'.pc = "thread page"
      /\ call[Backfiller].pc = "done"
      /\ run'.replies = run.replies \ {CurrentReply}
      /\ run'.page = run.page /\ run'.more = run.more
      /\ run'.rest = run.rest /\ run'.after = run.after
      /\ run'.todo = run.todo /\ run'.channel = run.channel /\ run'.cursor = run.cursor
  BY DEF ReplyDone, BothInv, RunInv, RunType
<1>2. AwaitsChannel(m) \/ AwaitsPage(m) => AwaitsChannel(m)' \/ AwaitsPage(m)'
  BY <1>1 DEF AwaitsChannel, AwaitsPage, Reading
<1>3. Current' = Current
  BY <1>1 DEF Current
<1>4. AwaitsReply(m) => AwaitsReply(m)'
  BY <1>1 DEF AwaitsReply
<1>5. ~AwaitsMessage
  BY <1>1 DEF AwaitsMessage
<1>6. \A s \in run.page : AwaitsTurn(m, s) => AwaitsTurn(m, s)'
  BY <1>1, <1>3, <1>4, <1>5 DEF AwaitsTurn
<1> QED BY <1>1, <1>2, <1>6 DEF Awaits

(* The replies of the page are done: the next page of them, or the next     *)
(* message.                                                                *)
LEMMA NextRepliesAwaits ==
    ASSUME BothInv, NextReplies, NEW m \in Messages, Awaits(m)
    PROVE  Awaits(m)'
<1>1. /\ run.pc = "thread page" /\ run.replies = {}
      /\ \/ /\ run.rest
            /\ run'.pc = "replies" /\ run'.page = run.page /\ run'.after = run.after
         \/ /\ ~run.rest
            /\ run'.pc = "page" /\ run'.page = run.page \ {Current}
      /\ run'.more = run.more
      /\ run'.todo = run.todo /\ run'.channel = run.channel /\ run'.cursor = run.cursor
  BY DEF NextReplies, BothInv, RunInv, RunType
<1>2. AwaitsChannel(m) \/ AwaitsPage(m) => AwaitsChannel(m)' \/ AwaitsPage(m)'
  BY <1>1 DEF AwaitsChannel, AwaitsPage, Reading
<1>3. ASSUME NEW s \in run.page, AwaitsTurn(m, s)
      PROVE  s \in run'.page /\ AwaitsTurn(m, s)'
  <2>1. run'.page = run.page => Current' = Current
    BY DEF Current
  <2>2. s = Current => m # s.ts /\ run.rest /\ m > run.after
    BY <1>1, <1>3 DEF AwaitsTurn, AwaitsMessage, AwaitsReply
  <2> QED BY <1>1, <1>3, <2>1, <2>2 DEF AwaitsTurn, AwaitsReply
<1> QED BY <1>1, <1>2, <1>3 DEF Awaits

(* The call goes on; when it is done, its message is written.              *)
LEMMA CallAwaits ==
    ASSUME ListsApart, BothInv, SinceOK, ApplyStep \/ ApplyFails,
           NEW m \in Messages, Awaits(m)
    PROVE  Awaits(m)' \/ messages'[m] >= run.since[m]
<1>1. /\ run' = run
      /\ Current' = Current /\ CurrentReply' = CurrentReply
  <2>1. run' = run
    BY DEF ApplyStep, ApplyFails
  <2> QED BY <2>1 DEF Current, CurrentReply
<1>2. PICK s \in Pending :
         /\ call'[Backfiller].pc = "done" => messages'[s.ts] = s.version
         /\ s = (IF run.pc = "message" THEN Current ELSE CurrentReply)
         /\ run.pc \in {"message", "reply"}
  BY BackfillWrites
<1>3. call'[Backfiller].pc = "done" => messages'[s.ts] >= run.since[s.ts]
  BY <1>2 DEF SinceOK, Pending
<1>4. CASE m = s.ts /\ call'[Backfiller].pc = "done"
  BY <1>3, <1>4
<1>5. CASE m # s.ts \/ call'[Backfiller].pc # "done"
  <2>1. AwaitsChannel(m) \/ AwaitsPage(m) => AwaitsChannel(m)' \/ AwaitsPage(m)'
    BY <1>1 DEF AwaitsChannel, AwaitsPage
  <2>2. ASSUME NEW k \in run.page, AwaitsTurn(m, k)
        PROVE  AwaitsTurn(m, k)'
    <3>1. CASE k # Current \/ run.pc = "page"
      BY <1>1, <2>2, <3>1 DEF AwaitsTurn
    <3>2. CASE k = Current /\ m = k.ts
      BY <1>1, <1>2, <1>5, <2>2, <3>2 DEF AwaitsTurn, AwaitsMessage
    <3>3. CASE k = Current /\ m # k.ts
      <4>1. AwaitsReply(m)
        BY <1>2, <2>2, <3>3 DEF AwaitsTurn
      <4>2. AwaitsReply(m)'
        BY <1>1, <1>2, <1>5, <4>1 DEF AwaitsReply
      <4> QED BY <1>1, <2>2, <3>3, <4>2 DEF AwaitsTurn
    <3> QED BY <3>1, <3>2, <3>3
  <2> QED BY <1>1, <2>1, <2>2 DEF Awaits
<1> QED BY <1>4, <1>5

(* Every step of a run but the last brings what it awaits nearer.          *)
LEMMA AwaitsStep ==
    ASSUME ListsApart, BothInv, SinceOK, ParentsVisible,
           \/ NextChannel \/ GetHistory \/ NextPage \/ GetReplies \/ NextReplies
           \/ UpsertMessageOfPage \/ UpsertReply \/ MessageDone \/ ReplyDone
           \/ ApplyStep \/ ApplyFails,
           NEW m \in Messages, Due(m), Awaits(m)
    PROVE  Awaits(m)' \/ messages'[m] >= run.since[m]
<1>1. m \in Visible /\ InScope(m) /\ SubtypePersisted(SubtypeOf[m])
  BY DEF Due, SinceOK
<1> QED BY <1>1, NextChannelAwaits, GetHistoryAwaits, NextPageAwaits, GetRepliesAwaits,
           NextRepliesAwaits, UpsertAwaits, MessageDoneAwaits, ReplyDoneAwaits, CallAwaits

(* What backfill writes is as new as what the run was asked for; a row it   *)
(* does not write it leaves alone.                                         *)
LEMMA ArrivesApart ==
    ASSUME ListsApart, BothInv, SinceOK, BackfillStep,
           NEW m \in Messages, NEW v, v = run.since[m], Arrives(m, v)
    PROVE  Arrives(m, v)'
<1>1. /\ call'[Consumer] = call[Consumer]
      /\ Places(m)' = Places(m) /\ InHand(m)' = InHand(m)
  BY BackfillApart, BackfillCases DEF delivery, Places, InHand
<1>2. messages'[m] = messages[m] \/ messages'[m] >= v
  <2>1. CASE ApplyStep \/ ApplyFails
    <3>1. PICK s \in Pending :
             /\ s.ts \in Admitted
             /\ messages' \in {messages, [messages EXCEPT ![s.ts] = s.version]}
      BY <2>1, BackfillWrites
    <3>2. s.version >= run.since[s.ts]
      BY DEF SinceOK, Pending
    <3> QED BY <3>1, <3>2 DEF BothInv, PipeInv, TypeInv
  <2> QED BY <2>1, BackfillCases DEF store
<1> QED BY <1>1, <1>2 DEF Arrives

(* The run asks for the same until it ends; what it reads is as Slack shows *)
(* it then.                                                                *)
LEMMA SinceKeeps ==
    ASSUME BothInv, SinceOK, UNCHANGED slack,
           \/ NextChannel \/ GetHistory \/ NextPage \/ GetReplies \/ NextReplies
           \/ UpsertMessageOfPage \/ UpsertReply \/ MessageDone \/ ReplyDone
           \/ ApplyStep \/ ApplyFails
    PROVE  SinceOK' /\ run'.since = run.since
<1>0. /\ DOMAIN run = {"pc", "todo", "channel", "cursor", "more", "page", "after",
                       "rest", "replies", "since"}
      /\ UNCHANGED <<version, gone>>
  BY DEF BothInv, RunInv, RunType, slack
<1>1. SUFFICES /\ run'.since = run.since
               /\ \A s \in run'.page \cup run'.replies :
                     s \in run.page \cup run.replies \/ s.version >= run.since[s.ts]
               /\ run'.pc \in {"channels", "history", "page", "message"} => run'.after = 0
  BY <1>0 DEF SinceOK, InScope
<1>2. ASSUME NEW S, S \subseteq Visible
      PROVE  \A s \in {Shown(n) : n \in S} : s.version >= run.since[s.ts]
  <2> SUFFICES ASSUME NEW n \in S PROVE Shown(n).version >= run.since[Shown(n).ts]
    OBVIOUS
  <2>1. Shown(n).ts = n /\ Shown(n).version = version[n] /\ n \in Messages
    BY <1>2 DEF Shown, Visible
  <2>2. run.since[n] <= version[n] /\ version[n] \in Nat /\ run.since[n] \in Nat
    BY <2>1, SlackAssumption DEF SinceOK, BothInv, PipeInv, TypeInv, RunInv, RunType
  <2> QED BY <2>1, <2>2
<1>3. CASE GetHistory
  <2> DEFINE shown == Newest({n \in TopLevel(run.channel) : n < run.cursor})
  <2>1. /\ run.pc = "history" /\ run'.page = {Shown(n) : n \in shown}
        /\ run'.replies = run.replies
        /\ run'.since = run.since /\ run'.after = run.after
    BY <1>0, <1>3 DEF GetHistory
  <2>2. shown \subseteq Visible
    BY DEF Newest, TopLevel
  <2> HIDE DEF shown
  <2> QED BY <1>2, <2>1, <2>2 DEF SinceOK
<1>4. CASE GetReplies
  <2> DEFINE shown == Eldest({n \in (Replies(Current.ts) \cup {Current.ts}) \cap Visible :
                                 n > run.after})
  <2>1. /\ run'.pc = "thread page" /\ run'.replies = {Shown(n) : n \in shown}
        /\ run'.page = run.page /\ run'.since = run.since
    BY <1>0, <1>4 DEF GetReplies
  <2>2. shown \subseteq Visible
    BY DEF Eldest
  <2> HIDE DEF shown
  <2> QED BY <1>2, <2>1, <2>2
<1>5. CASE NextChannel \/ NextPage
  <2>1. /\ run.pc \in {"channels", "page"} /\ run'.page = run.page
        /\ run'.replies = run.replies /\ run'.since = run.since /\ run'.after = run.after
    BY <1>0, <1>5 DEF NextChannel, NextPage
  <2> QED BY <2>1 DEF SinceOK
<1>6. CASE UpsertMessageOfPage \/ UpsertReply
  <2>1. /\ \/ run.pc = "page"
           \/ run'.pc = "reply"
        /\ run'.page = run.page /\ run'.replies = run.replies
        /\ run'.since = run.since /\ run'.after = run.after
    BY <1>0, <1>6 DEF UpsertMessageOfPage, UpsertReply, upsert
  <2> QED BY <2>1 DEF SinceOK
<1>7. CASE MessageDone
  <2>1. /\ run.pc = "message" /\ run'.page \subseteq run.page /\ run'.replies = run.replies
        /\ run'.since = run.since /\ run'.after = run.after
    BY <1>0, <1>7 DEF MessageDone
  <2> QED BY <2>1 DEF SinceOK
<1>8. CASE ReplyDone
  <2>1. /\ run'.pc = "thread page" /\ run'.page = run.page
        /\ run'.replies \subseteq run.replies /\ run'.since = run.since
    BY <1>0, <1>8 DEF ReplyDone
  <2> QED BY <2>1
<1>9. CASE NextReplies
  <2>1. /\ run'.pc = "replies" \/ run'.after = 0
        /\ run'.page \subseteq run.page /\ run'.replies = run.replies
        /\ run'.since = run.since
    BY <1>0, <1>9 DEF NextReplies
  <2> QED BY <2>1
<1>10. CASE ApplyStep \/ ApplyFails
  BY <1>10 DEF ApplyStep, ApplyFails, SinceOK
<1> QED BY <1>3, <1>4, <1>5, <1>6, <1>7, <1>8, <1>9, <1>10

(* Nothing has been asked for yet.                                         *)
LEMMA PagingInit == BothInit => PagingInv
<1> SUFFICES ASSUME BothInit PROVE PagingInv
  OBVIOUS
<1>1. /\ run.pc = "off" /\ run.page = {} /\ run.replies = {} /\ run.after = 0
      /\ \A m \in Messages : run.since[m] = 0
      /\ unacked = {} /\ gone = {}
      /\ version = [m \in Messages |-> IF m \in Past THEN 1 ELSE 0]
  BY DEF BothInit, Init, SlackInit, OffRun
<1>2. ParentsVisible
  <2>1. Visible \subseteq Past /\ Past \subseteq Visible
    <3>1. ASSUME NEW m \in Messages
          PROVE  version[m] > 0 <=> m \in Past
      <4>1. version[m] = IF m \in Past THEN 1 ELSE 0
        BY <1>1
      <4> QED BY <4>1
    <3>2. Past \subseteq Messages
      BY SlackAssumption
    <3> QED BY <1>1, <3>1, <3>2 DEF Visible
  <2>2. \A m \in Past : ParentOf[m] \in Past
    BY SlackAssumption
  <2> QED BY <2>1, <2>2 DEF ParentsVisible
<1>3. AllSent
  BY <1>1 DEF AllSent
<1>4. SinceOK
  BY <1>1 DEF SinceOK
<1> QED BY <1>1, <1>2, <1>3, <1>4 DEF PagingInv, Covered, Due

(* A run begins, or goes on, or is over with nothing left that it awaits.   *)
LEMMA PagingByRun ==
    ASSUME ListsApart, BothInv, PagingInv, BackfillStep
    PROVE  PagingInv'
<1>1. UNCHANGED <<delivery, slack>> /\ BackfillNext
  BY BackfillCases DEF BackfillStep
<1>2. ParentsVisible' /\ AllSent' /\ Visible' = Visible
  BY <1>1 DEF PagingInv, ParentsVisible, AllSent, Visible, delivery, slack
<1>3. /\ \A m \in Messages : version[m] \in Nat /\ run.since[m] \in Nat
      /\ UNCHANGED <<version, gone>>
  BY <1>1, SlackAssumption DEF BothInv, PipeInv, TypeInv, RunInv, RunType, slack
<1>4. CASE Start
  <2>1. /\ run'.pc = "channels" /\ run'.todo = Allow
        /\ run'.page = {} /\ run'.replies = {} /\ run'.after = 0
        /\ run'.since = [m \in Messages |->
               IF m \in Visible /\ InScope(m) THEN version[m] ELSE 0]
    BY <1>4 DEF Start, OffRun
  <2>2. SinceOK'
    BY <1>3, <2>1 DEF SinceOK, InScope
  <2>3. ASSUME NEW m \in Messages, Due(m)' PROVE Covered(m)'
    <3>1. InScope(m)
      BY <2>1, <2>3 DEF Due
    <3> QED BY <2>1, <3>1 DEF Covered, Awaits, AwaitsChannel, InScope
  <2> QED BY <1>2, <2>2, <2>3 DEF PagingInv, Covered
<1>5. CASE Abort
  <2>1. /\ run'.page = {} /\ run'.replies = {} /\ run'.pc = "failed"
        /\ \A m \in Messages : run'.since[m] = 0
    BY <1>5 DEF Abort, Exits, OffRun
  <2>2. SinceOK'
    BY <1>3, <2>1 DEF SinceOK
  <2> QED BY <1>2, <2>1, <2>2 DEF PagingInv, Covered, Due
<1>6. CASE Complete
  <2>1. /\ run.pc = "channels" /\ run.todo = {}
        /\ run'.page = {} /\ run'.replies = {} /\ run'.pc = "done"
        /\ run'.since = run.since
    BY <1>6 DEF Complete, Exits, OffRun
  <2>2. SinceOK'
    BY <1>3, <2>1 DEF SinceOK, PagingInv, InScope
  <2>3. ASSUME NEW m \in Messages, Due(m)' PROVE Covered(m)'
    <3>1. Due(m)
      BY <1>2, <2>1, <2>3 DEF Due
    <3>2. ~Awaits(m)
      BY <2>1 DEF Awaits, AwaitsChannel, AwaitsPage, AwaitsTurn, Reading
    <3>3. PICK v : v = run.since[m]
      OBVIOUS
    <3>4. Arrives(m, v)
      BY <3>1, <3>2, <3>3 DEF PagingInv, Covered
    <3>5. Arrives(m, v)'
      BY <3>3, <3>4, ArrivesApart DEF PagingInv
    <3> QED BY <2>1, <3>3, <3>5 DEF Arrives, Covered
  <2> QED BY <1>2, <2>2, <2>3 DEF PagingInv, Covered
<1>7. CASE \/ NextChannel \/ GetHistory \/ NextPage \/ GetReplies \/ NextReplies
           \/ UpsertMessageOfPage \/ UpsertReply \/ MessageDone \/ ReplyDone
           \/ ApplyStep \/ ApplyFails
  <2>1. SinceOK' /\ run'.since = run.since
    BY <1>1, <1>7, SinceKeeps DEF PagingInv
  <2>2. ASSUME NEW m \in Messages, Due(m)'
        PROVE  Covered(m)'
    <3>1. Due(m)
      BY <1>2, <2>1, <2>2 DEF Due
    <3>2. PICK v : v = run.since[m]
      OBVIOUS
    <3>3. CASE Arrives(m, v)
      BY <2>1, <3>2, <3>3, ArrivesApart DEF PagingInv, Arrives, Covered
    <3>4. CASE Awaits(m)
      BY <1>7, <2>1, <3>1, <3>4, AwaitsStep DEF PagingInv, Arrives, Covered
    <3> QED BY <3>1, <3>2, <3>3, <3>4 DEF PagingInv, Covered
  <2> QED BY <1>2, <2>1, <2>2 DEF PagingInv, Covered
<1> QED BY <1>1, <1>4, <1>5, <1>6, <1>7
        DEF BackfillNext, Progress, ReadFails, HandleFails, ApplyError, CrashRun

(* While serve works, what the run has to come by stays; and Slack removes, *)
(* or changes for the better.                                              *)
LEMMA PagingByServe ==
    ASSUME ListsApart, Reliable, BothInv, OvertakenInv, PagingInv,
           [Next]_vars, run' = run
    PROVE  PagingInv'
<1>1. /\ ParentsVisible' /\ AllSent'
      /\ NothingLost /\ NothingLost' /\ TurnOK /\ Ordered
      /\ gone \subseteq gone' /\ \A m \in Messages : version[m] <= version'[m]
  BY LossStep, ParentsStay, AllSentStep, SlackGrows DEF PagingInv, OvertakenInv, BothInv
<1>2. \A m \in Messages : /\ version[m] \in Nat /\ version'[m] \in Nat
                          /\ run.since[m] \in Nat
  BY PipeStep, SlackAssumption DEF BothInv, PipeInv, TypeInv, RunInv, RunType
<1>3. SinceOK'
  BY <1>1, <1>2 DEF PagingInv, SinceOK, InScope
<1>4. /\ call'[Backfiller] = call[Backfiller]
      /\ Current' = Current /\ CurrentReply' = CurrentReply
  BY ServeApart DEF BothInv, Current, CurrentReply
<1>5. ASSUME NEW m \in Messages, Due(m)'
      PROVE  Covered(m)'
  <2>1. /\ m \notin gone' /\ run.since[m] > 0 /\ SubtypePersisted(SubtypeOf[m])
        /\ run.since[m] <= version[m] /\ InScope(m)
    BY <1>5 DEF Due, Visible, PagingInv, SinceOK
  <2>2. Due(m)
    BY <1>1, <1>2, <2>1 DEF Due, Visible
  <2>3. m \in Admitted
    BY <2>1 DEF ListsApart, InScope, ChannelAllowed, Admitted
  <2>4. CASE Awaits(m)
    BY <1>4, <2>4 DEF Awaits, AwaitsChannel, AwaitsPage, AwaitsTurn, AwaitsMessage,
                      AwaitsReply, Covered
  <2>5. CASE Arrives(m, run.since[m])
    <3>1. PICK v \in 0..version[m] : v = run.since[m]
      BY <1>2, <2>1
    <3>2. Arrives(m, v)
      BY <2>5, <3>1
    <3>3. Arrives(m, v)'
      BY <1>1, <2>1, <2>3, <3>1, <3>2, ArrivesStep DEF PagingInv, BothInv
    <3> QED BY <3>1, <3>3 DEF Arrives, Covered
  <2> QED BY <2>2, <2>4, <2>5 DEF PagingInv, Covered
<1> QED BY <1>1, <1>3, <1>5 DEF PagingInv, Covered

\* When a run is done, and what Slack sent meanwhile is handled, every message
\* and reply of its window that was there when it began and still is has a row,
\* at least as new as it was then: for any page size and any threads, whatever
\* is posted, edited or removed between two pages, and whatever failed before.
THEOREM PagingMissesNothing ==
    ASSUME ListsApart, Reliable
    PROVE  BothSpec => []MissesNothing
<1>1. BothInv /\ PagingInv => MissesNothing
  <2> SUFFICES ASSUME BothInv, PagingInv, run.pc = "done", Quiet, NEW m \in Visible,
                      SubtypePersisted(SubtypeOf[m])
               PROVE  messages[m] >= run.since[m]
    BY DEF MissesNothing
  <2>1. /\ m \in Messages /\ messages[m] \in Nat /\ run.since[m] \in Nat
    BY SlackAssumption DEF Visible, BothInv, PipeInv, TypeInv, RunInv, RunType
  <2>2. ~Awaits(m)
    BY DEF Awaits, AwaitsChannel, AwaitsPage, AwaitsTurn, Reading
  <2>3. Places(m) = {} /\ InHand(m) = {}
    BY DEF Quiet, Places, InHand
  <2> QED BY <2>1, <2>2, <2>3 DEF PagingInv, Covered, Due, Arrives
<1>2. BothInv /\ OvertakenInv /\ PagingInv /\ [BothNext]_allVars => PagingInv'
  BY EitherSteps, PagingByRun, PagingByServe
<1> QED BY BothInitial, BothStep, OvertakenInit, OvertakenStep, PagingInit, <1>1, <1>2, PTL
        DEF BothSpec
-----------------------------------------------------------------------------
(***************************************************************************)
(* A run that was begun runs out of things to do, whatever serve and the   *)
(* workspace do meanwhile: what it has left is five numbers, of which a    *)
(* step lowers one and leaves those before it as they are.                 *)
(*                                                                         *)
(* Below, r stands for the variables of the run and c for its call.        *)
(***************************************************************************)
Over(r) == r.pc \in {"done", "failed"}

(* The statements left to a call, and its end.                             *)
CallLeft(c) == CASE c.pc = "channel" -> 4
                 [] c.pc = "user"    -> 3
                 [] c.pc = "upsert"  -> 2
                 [] c.pc = "done"    -> 1
                 [] OTHER            -> 0

(* Where a page may still begin: history goes down, replies go up.         *)
Unread(r)    == {m \in Messages : m < r.cursor}
Unreplied(r) == {m \in Messages : m > r.after}

PagesLeft(r) == 2 * Cardinality(Unread(r))
                  + (IF r.pc = "history" \/ r.more THEN 1 ELSE 0)

MessagesLeft(r, c) ==
    CASE r.pc = "page"    -> 7 * Cardinality(r.page) + 7
      [] r.pc = "message" -> 7 * Cardinality(r.page) + 2 + CallLeft(c)
      [] r.pc \in {"replies", "thread page", "reply"}
                          -> 7 * Cardinality(r.page) + 1
      [] OTHER            -> 0

ReplyPagesLeft(r) == 2 * Cardinality(Unreplied(r))
                       + (IF r.pc = "replies" \/ r.rest THEN 1 ELSE 0)

RepliesLeft(r, c) ==
    CASE r.pc = "thread page" -> 6 * Cardinality(r.replies) + 6
      [] r.pc = "reply"       -> 6 * Cardinality(r.replies) + 1 + CallLeft(c)
      [] OTHER                -> 0

Left(r, c) == <<Cardinality(r.todo), PagesLeft(r), MessagesLeft(r, c),
                ReplyPagesLeft(r), RepliesLeft(r, c)>>

(* Such numbers are compared by the first that differs.                     *)
Fewer     == OpToRel(<, Nat)
Lefts     == [1..5 -> Nat]
LeftOrder == LexProductOrdering(Fewer, Nat, 5)

(* There is no endless sequence of ever fewer things left.                  *)
LEMMA LeftRunsOut == IsWellFoundedOn(LeftOrder, Lefts)
<1>1. IsWellFoundedOn(Fewer, Nat)
  BY NatLessThanWellFounded DEF Fewer
<1> QED BY <1>1, WFLexProductOrdering DEF LeftOrder, Lefts

(* One number less, the ones before it as they were.                       *)
LEMMA FewerLeft ==
    ASSUME NEW x \in Lefts, NEW y \in Lefts, NEW j \in 1..5, x[j] < y[j],
           \A i \in 1..(j - 1) : x[i] = y[i]
    PROVE  <<x, y>> \in LeftOrder
<1>1. <<x[j], y[j]>> \in Fewer
  <2>1. x[j] \in Nat /\ y[j] \in Nat
    BY DEF Lefts
  <2> QED BY <2>1 DEF Fewer, OpToRel
<1> DEFINE xy == <<x, y>>
<1>2. xy \in Lefts \X Lefts /\ xy[1] = x /\ xy[2] = y
  OBVIOUS
<1> HIDE DEF xy
<1>3. \E k \in 1..5 : /\ \A i \in 1..(k - 1) : xy[1][i] = xy[2][i]
                      /\ <<xy[1][k], xy[2][k]>> \in Fewer
  BY <1>1, <1>2
<1>4. xy \in LeftOrder
  BY <1>2, <1>3, Zenon DEF LeftOrder, LexProductOrdering, Lefts
<1> QED BY <1>4 DEF xy

(* What the numbers count is finite, and the places to read from are times. *)
Countable(r) ==
    /\ IsFiniteSet(r.todo) /\ IsFiniteSet(r.page) /\ IsFiniteSet(r.replies)
    /\ r.more \in BOOLEAN /\ r.rest \in BOOLEAN
    /\ r.cursor \in Nat \/ Messages = {}
    /\ r.after \in Nat

(* A page is as finite as what it shows.                                    *)
LEMMA ShownFinite ==
    ASSUME NEW S, S \subseteq Messages
    PROVE  IsFiniteSet({Shown(m) : m \in S})
<1> DEFINE T == {Shown(m) : m \in S}
           f == [m \in S |-> Shown(m)]
<1>1. IsFiniteSet(S)
  BY BackfillAssumption, FS_Subset
<1>2. f \in Surjection(S, T)
  BY Zenon DEF Surjection
<1> HIDE DEF T, f
<1>3. IsFiniteSet(T)
  BY <1>1, <1>2, FS_Surjection
<1> QED BY <1>3 DEF T

(* So they are numbers.                                                    *)
LEMMA LeftIs ==
    ASSUME NEW r, NEW c, Countable(r)
    PROVE  /\ CallLeft(c) \in 0..4
           /\ Cardinality(Unread(r)) \in Nat /\ Cardinality(Unreplied(r)) \in Nat
           /\ Cardinality(r.page) \in Nat /\ Cardinality(r.replies) \in Nat
           /\ Left(r, c) \in Lefts
<1>1. /\ Cardinality(r.todo) \in Nat
      /\ Cardinality(r.page) \in Nat /\ Cardinality(r.replies) \in Nat
  BY FS_CardinalityType DEF Countable
<1>2. Cardinality(Unread(r)) \in Nat /\ Cardinality(Unreplied(r)) \in Nat
  <2>1. IsFiniteSet(Unread(r)) /\ IsFiniteSet(Unreplied(r))
    BY BackfillAssumption, FS_Subset DEF Unread, Unreplied
  <2> QED BY <2>1, FS_CardinalityType
<1>3. CallLeft(c) \in 0..4
  BY DEF CallLeft
<1>4. PagesLeft(r) \in Nat /\ ReplyPagesLeft(r) \in Nat
  BY <1>2 DEF PagesLeft, ReplyPagesLeft
<1>5. MessagesLeft(r, c) \in Nat /\ RepliesLeft(r, c) \in Nat
  <2>1. ASSUME NEW p \in Nat, NEW l \in 0..4
        PROVE  /\ 7 * p + 7 \in Nat /\ 7 * p + 2 + l \in Nat /\ 7 * p + 1 \in Nat
               /\ 6 * p + 6 \in Nat /\ 6 * p + 1 + l \in Nat
    OBVIOUS
  <2>2. 0 \in Nat
    OBVIOUS
  <2>3. MessagesLeft(r, c) \in Nat
    BY <1>1, <1>3, <2>1, <2>2, Zenon DEF MessagesLeft
  <2>4. RepliesLeft(r, c) \in Nat
    BY <1>1, <1>3, <2>1, <2>2, Zenon DEF RepliesLeft
  <2> QED BY <2>3, <2>4
<1>6. Left(r, c) \in Lefts
  <2>1. ASSUME NEW h \in Nat, NEW i \in Nat, NEW j \in Nat, NEW k \in Nat, NEW l \in Nat
        PROVE  <<h, i, j, k, l>> \in Lefts
    BY DEF Lefts
  <2> QED BY <1>1, <1>4, <1>5, <2>1, Zenon DEF Left
<1> QED BY <1>1, <1>2, <1>3, <1>6

(* One number less, those before it as they were: a step towards the end.  *)
Sinks(r, c, s, d) == <<Left(s, d), Left(r, c)>> \in LeftOrder

(* A channel less, whatever is left of the others.                         *)
LEMMA FewerChannels ==
    ASSUME NEW r, NEW c, NEW s, NEW d, Countable(r), Countable(s),
           Cardinality(s.todo) < Cardinality(r.todo)
    PROVE  Sinks(r, c, s, d)
<1> DEFINE x == Left(s, d)
           y == Left(r, c)
<1>1. x \in Lefts /\ y \in Lefts
  BY LeftIs
<1>2. x[1] < y[1]
  BY DEF Left
<1> HIDE DEF x, y
<1>3. <<x, y>> \in LeftOrder
  BY <1>1, <1>2, FewerLeft
<1> QED BY <1>3 DEF Sinks, x, y

(* A page less of the channel.                                             *)
LEMMA FewerPages ==
    ASSUME NEW r, NEW c, NEW s, NEW d, Countable(r), Countable(s),
           s.todo = r.todo, PagesLeft(s) < PagesLeft(r)
    PROVE  Sinks(r, c, s, d)
<1> DEFINE x == Left(s, d)
           y == Left(r, c)
<1>1. x \in Lefts /\ y \in Lefts
  BY LeftIs
<1>2. x[2] < y[2] /\ x[1] = y[1]
  BY DEF Left
<1> HIDE DEF x, y
<1>3. <<x, y>> \in LeftOrder
  BY <1>1, <1>2, FewerLeft
<1> QED BY <1>3 DEF Sinks, x, y

(* Less to do for the page.                                                *)
LEMMA FewerMessages ==
    ASSUME NEW r, NEW c, NEW s, NEW d, Countable(r), Countable(s),
           s.todo = r.todo, PagesLeft(s) = PagesLeft(r),
           MessagesLeft(s, d) < MessagesLeft(r, c)
    PROVE  Sinks(r, c, s, d)
<1> DEFINE x == Left(s, d)
           y == Left(r, c)
<1>1. x \in Lefts /\ y \in Lefts
  BY LeftIs
<1>2. x[3] < y[3] /\ x[1] = y[1] /\ x[2] = y[2]
  BY DEF Left
<1> HIDE DEF x, y
<1>3. <<x, y>> \in LeftOrder
  BY <1>1, <1>2, FewerLeft
<1> QED BY <1>3 DEF Sinks, x, y

(* A page less of the thread.                                              *)
LEMMA FewerReplyPages ==
    ASSUME NEW r, NEW c, NEW s, NEW d, Countable(r), Countable(s),
           s.todo = r.todo, PagesLeft(s) = PagesLeft(r),
           MessagesLeft(s, d) = MessagesLeft(r, c),
           ReplyPagesLeft(s) < ReplyPagesLeft(r)
    PROVE  Sinks(r, c, s, d)
<1> DEFINE x == Left(s, d)
           y == Left(r, c)
<1>1. x \in Lefts /\ y \in Lefts
  BY LeftIs
<1>2. x[4] < y[4] /\ x[1] = y[1] /\ x[2] = y[2] /\ x[3] = y[3]
  BY DEF Left
<1> HIDE DEF x, y
<1>3. <<x, y>> \in LeftOrder
  BY <1>1, <1>2, FewerLeft
<1> QED BY <1>3 DEF Sinks, x, y

(* Less to do for the page of replies.                                     *)
LEMMA FewerReplies ==
    ASSUME NEW r, NEW c, NEW s, NEW d, Countable(r), Countable(s),
           s.todo = r.todo, PagesLeft(s) = PagesLeft(r),
           MessagesLeft(s, d) = MessagesLeft(r, c),
           ReplyPagesLeft(s) = ReplyPagesLeft(r),
           RepliesLeft(s, d) < RepliesLeft(r, c)
    PROVE  Sinks(r, c, s, d)
<1> DEFINE x == Left(s, d)
           y == Left(r, c)
<1>1. x \in Lefts /\ y \in Lefts
  BY LeftIs
<1>2. x[5] < y[5] /\ x[1] = y[1] /\ x[2] = y[2] /\ x[3] = y[3] /\ x[4] = y[4]
  BY DEF Left
<1> HIDE DEF x, y
<1>3. <<x, y>> \in LeftOrder
  BY <1>1, <1>2, FewerLeft
<1> QED BY <1>3 DEF Sinks, x, y

Counts == Countable(run)

\* What the step leaves to do is less than what there was.
Lowers == Sinks(run, call[Backfiller], run', call'[Backfiller])

(* The next channel is one less.                                           *)
LEMMA NextChannelLowers ==
    ASSUME RunInv, Counts, NextChannel
    PROVE  Counts' /\ Lowers
<1>1. PICK c \in run.todo :
        run' = [run EXCEPT !.pc = "history", !.todo = @ \ {c}, !.channel = c,
                           !.cursor = High(Messages) + 1]
  BY DEF NextChannel
<1>2. /\ run'.todo = run.todo \ {c}
      /\ run'.page = run.page /\ run'.replies = run.replies
      /\ run'.more = run.more /\ run'.rest = run.rest /\ run'.after = run.after
      /\ run'.cursor = High(Messages) + 1
  BY <1>1 DEF RunInv, RunType
<1>3. run'.cursor \in Nat \/ Messages = {}
  <2> SUFFICES ASSUME Messages # {} PROVE run'.cursor \in Nat
    OBVIOUS
  <2>1. High(Messages) \in Messages
    BY HighIs
  <2>2. High(Messages) \in Nat
    BY <2>1, BackfillAssumption
  <2>3. run'.cursor = High(Messages) + 1
    BY <1>2
  <2> HIDE DEF High
  <2> QED BY <2>2, <2>3
<1>4. /\ IsFiniteSet(run'.todo)
      /\ Cardinality(run'.todo) < Cardinality(run.todo)
  <2>1. IsFiniteSet(run.todo)
    BY DEF Counts, Countable
  <2>2. /\ IsFiniteSet(run.todo \ {c})
        /\ Cardinality(run.todo \ {c}) = Cardinality(run.todo) - 1
        /\ Cardinality(run.todo) \in Nat
    BY <2>1, FS_RemoveElement, FS_CardinalityType
  <2> QED BY <1>2, <2>2
<1>5. Countable(run')
  BY <1>2, <1>3, <1>4 DEF Counts, Countable
<1>6. Countable(run)
  BY DEF Counts
<1> QED BY <1>4, <1>5, <1>6, FewerChannels DEF Counts, Lowers

(* A page that shows something leaves fewer messages unread; one that shows *)
(* nothing is the last.                                                    *)
LEMMA GetHistoryLowers ==
    ASSUME RunInv, Counts, GetHistory
    PROVE  Counts' /\ Lowers
<1> DEFINE below == {m \in TopLevel(run.channel) : m < run.cursor}
           shown == Newest(below)
<1>1. /\ run.pc = "history" /\ run'.pc = "page"
      /\ run'.page = {Shown(m) : m \in shown}
      /\ run'.more = (shown # below)
      /\ run'.cursor = (IF shown = {} THEN run.cursor ELSE Low(shown))
      /\ run'.todo = run.todo /\ run'.replies = run.replies
      /\ run'.rest = run.rest /\ run'.after = run.after
  BY DEF GetHistory, RunInv, RunType
<1>2. /\ below \subseteq Messages /\ below \subseteq Unread(run)
      /\ shown \subseteq below
      /\ below # {} => shown # {}
  <2>1. below \subseteq Messages /\ below \subseteq Unread(run)
    BY DEF TopLevel, Visible, Unread
  <2> HIDE DEF below
  <2> QED BY <2>1, NewestFirst
<1> HIDE DEF below, shown
<1>3. shown # {} => Low(shown) \in shown
  BY <1>2, LowIs
<1>4. shown # {} => Low(shown) \in Nat /\ Low(shown) \in Unread(run)
  BY <1>2, <1>3, BackfillAssumption
<1>5. Countable(run) /\ Countable(run')
  <2>1. IsFiniteSet(run'.page)
    BY <1>1, <1>2, ShownFinite
  <2>2. run'.more \in BOOLEAN
    BY <1>1, Zenon
  <2> QED BY <1>1, <1>4, <2>1, <2>2 DEF Counts, Countable
<1>6. PagesLeft(run') < PagesLeft(run)
  <2>1. Cardinality(Unread(run)) \in Nat /\ Cardinality(Unread(run')) \in Nat
    BY <1>5, LeftIs
  <2>2. PagesLeft(run) = 2 * Cardinality(Unread(run)) + 1
    BY <1>1 DEF PagesLeft
  <2>3. CASE shown = {}
    <3>1. Unread(run') = Unread(run)
      BY <1>1, <2>3 DEF Unread
    <3>2. run'.more = FALSE
      BY <1>1, <1>2, <2>3
    <3>3. PagesLeft(run') = 2 * Cardinality(Unread(run'))
      BY <1>1, <2>1, <3>2 DEF PagesLeft
    <3> QED BY <2>1, <2>2, <3>1, <3>3
  <2>4. CASE shown # {}
    <3>1. /\ run'.cursor = Low(shown) /\ Low(shown) \in Nat
          /\ Low(shown) < run.cursor /\ Low(shown) \in Messages
          /\ run.cursor \in Nat
      BY <1>1, <1>4, <2>4 DEF Unread, Counts, Countable
    <3>2. Unread(run') \subseteq Unread(run) \ {Low(shown)}
      <4> SUFFICES ASSUME NEW m \in Unread(run')
                   PROVE  m \in Unread(run) /\ m # Low(shown)
        OBVIOUS
      <4>1. m \in Messages /\ m \in Nat /\ m < Low(shown)
        BY <3>1, BackfillAssumption DEF Unread
      <4>2. m < run.cursor
        BY <3>1, <4>1
      <4> QED BY <3>1, <4>1, <4>2 DEF Unread
    <3>3. IsFiniteSet(Unread(run))
      BY BackfillAssumption, FS_Subset DEF Unread
    <3>4. /\ IsFiniteSet(Unread(run) \ {Low(shown)})
          /\ Cardinality(Unread(run) \ {Low(shown)}) = Cardinality(Unread(run)) - 1
      BY <1>4, <2>4, <3>3, FS_RemoveElement
    <3>5. Cardinality(Unread(run')) <= Cardinality(Unread(run)) - 1
      BY <3>2, <3>4, FS_Subset
    <3>6. PagesLeft(run') <= 2 * Cardinality(Unread(run')) + 1
      BY <2>1 DEF PagesLeft
    <3>7. PagesLeft(run') \in Nat
      BY <2>1 DEF PagesLeft
    <3> QED BY <2>1, <2>2, <3>5, <3>6, <3>7
  <2> QED BY <2>3, <2>4
<1> QED BY <1>1, <1>5, <1>6, FewerPages DEF Counts, Lowers

(* A page that is through: on to the one after it, or to the next channel. *)
LEMMA NextPageLowers ==
    ASSUME RunInv, Counts, NextPage
    PROVE  Counts' /\ Lowers
<1>1. /\ run.pc = "page"
      /\ run'.pc = (IF run.more THEN "history" ELSE "channels")
      /\ run'.more = FALSE
      /\ run'.page = run.page /\ run'.replies = run.replies
      /\ run'.todo = run.todo /\ run'.cursor = run.cursor
      /\ run'.rest = run.rest /\ run'.after = run.after
  BY DEF NextPage, RunInv, RunType
<1>2. Countable(run) /\ Countable(run')
  BY <1>1 DEF Counts, Countable
<1>3. PagesLeft(run') = PagesLeft(run)
  <2>1. Unread(run') = Unread(run)
    BY <1>1 DEF Unread
  <2> QED BY <1>1, <1>2, <2>1 DEF PagesLeft, Countable
<1>4. MessagesLeft(run', call'[Backfiller]) < MessagesLeft(run, call[Backfiller])
  <2>1. MessagesLeft(run, call[Backfiller]) = 7 * Cardinality(run.page) + 7
    BY <1>1, Zenon DEF MessagesLeft
  <2>2. MessagesLeft(run', call'[Backfiller]) = 0
    BY <1>1 DEF MessagesLeft
  <2>3. Cardinality(run.page) \in Nat
    BY <1>2, LeftIs
  <2> QED BY <2>1, <2>2, <2>3
<1> QED BY <1>1, <1>2, <1>3, <1>4, FewerMessages DEF Counts, Lowers

(* A message of the page is taken in hand.                                 *)
LEMMA UpsertMessageLowers ==
    ASSUME RunInv, Counts, UpsertMessageOfPage
    PROVE  Counts' /\ Lowers
<1>1. /\ run.pc = "page" /\ run'.pc = "message"
      /\ run'.more = run.more
      /\ run'.page = run.page /\ run'.replies = run.replies
      /\ run'.todo = run.todo /\ run'.cursor = run.cursor
      /\ run'.rest = run.rest /\ run'.after = run.after
  BY DEF UpsertMessageOfPage, upsert, RunInv, RunType
<1>2. Countable(run) /\ Countable(run')
  BY <1>1 DEF Counts, Countable
<1>3. PagesLeft(run') = PagesLeft(run)
  <2>1. Unread(run') = Unread(run)
    BY <1>1 DEF Unread
  <2> QED BY <1>1, <2>1 DEF PagesLeft
<1>4. MessagesLeft(run', call'[Backfiller]) < MessagesLeft(run, call[Backfiller])
  <2>1. MessagesLeft(run, call[Backfiller]) = 7 * Cardinality(run.page) + 7
    BY <1>1, Zenon DEF MessagesLeft
  <2>2. MessagesLeft(run', call'[Backfiller]) =
            7 * Cardinality(run.page) + 2 + CallLeft(call'[Backfiller])
    BY <1>1 DEF MessagesLeft
  <2>3. Cardinality(run.page) \in Nat /\ CallLeft(call'[Backfiller]) \in 0..4
    BY <1>2, LeftIs
  <2> QED BY <2>1, <2>2, <2>3
<1> QED BY <1>1, <1>2, <1>3, <1>4, FewerMessages DEF Counts, Lowers

(* A reply is taken in hand.                                               *)
LEMMA UpsertReplyLowers ==
    ASSUME RunInv, Counts, UpsertReply
    PROVE  Counts' /\ Lowers
<1>1. /\ run.pc = "thread page" /\ run'.pc = "reply"
      /\ run'.more = run.more
      /\ run'.page = run.page /\ run'.replies = run.replies
      /\ run'.todo = run.todo /\ run'.cursor = run.cursor
      /\ run'.rest = run.rest /\ run'.after = run.after
  BY DEF UpsertReply, upsert, RunInv, RunType
<1>2. Countable(run) /\ Countable(run')
  BY <1>1 DEF Counts, Countable
<1>3. PagesLeft(run') = PagesLeft(run) /\ ReplyPagesLeft(run') = ReplyPagesLeft(run)
  <2>1. Unread(run') = Unread(run) /\ Unreplied(run') = Unreplied(run)
    BY <1>1 DEF Unread, Unreplied
  <2> QED BY <1>1, <2>1 DEF PagesLeft, ReplyPagesLeft
<1>4. MessagesLeft(run', call'[Backfiller]) = MessagesLeft(run, call[Backfiller])
  BY <1>1 DEF MessagesLeft
<1>5. RepliesLeft(run', call'[Backfiller]) < RepliesLeft(run, call[Backfiller])
  <2>1. RepliesLeft(run, call[Backfiller]) = 6 * Cardinality(run.replies) + 6
    BY <1>1, Zenon DEF RepliesLeft
  <2>2. RepliesLeft(run', call'[Backfiller]) =
            6 * Cardinality(run.replies) + 1 + CallLeft(call'[Backfiller])
    BY <1>1 DEF RepliesLeft
  <2>3. Cardinality(run.replies) \in Nat /\ CallLeft(call'[Backfiller]) \in 0..4
    BY <1>2, LeftIs
  <2> QED BY <2>1, <2>2, <2>3
<1> QED BY <1>1, <1>2, <1>3, <1>4, <1>5, FewerReplies DEF Counts, Lowers

(* A message is in the mirror: its thread is next, or it leaves the page.  *)
LEMMA MessageDoneLowers ==
    ASSUME RunInv, Counts, MessageDone
    PROVE  Counts' /\ Lowers
<1>1. /\ run.pc = "message" /\ call[Backfiller].pc = "done"
      /\ \/ run'.pc = "replies" /\ run'.page = run.page
         \/ run'.pc = "page" /\ run'.page = run.page \ {Current}
      /\ run'.more = run.more /\ run'.replies = run.replies
      /\ run'.todo = run.todo /\ run'.cursor = run.cursor
      /\ run'.rest = run.rest /\ run'.after = run.after
  BY DEF MessageDone, RunInv, RunType
<1>2. Current \in run.page
  BY <1>1, CurrentIs DEF RunInv, TaskOK
<1>3. /\ Countable(run) /\ Countable(run')
      /\ Cardinality(run.page \ {Current}) = Cardinality(run.page) - 1
  <2>1. /\ IsFiniteSet(run.page \ {Current})
        /\ Cardinality(run.page \ {Current}) = Cardinality(run.page) - 1
    BY <1>2, FS_RemoveElement DEF Counts, Countable
  <2> QED BY <1>1, <2>1 DEF Counts, Countable
<1>4. PagesLeft(run') = PagesLeft(run)
  <2>1. Unread(run') = Unread(run)
    BY <1>1 DEF Unread
  <2> QED BY <1>1, <2>1 DEF PagesLeft
<1>5. MessagesLeft(run', call'[Backfiller]) < MessagesLeft(run, call[Backfiller])
  <2>1. CallLeft(call[Backfiller]) = 1
    BY <1>1 DEF CallLeft
  <2>2. MessagesLeft(run, call[Backfiller]) = 7 * Cardinality(run.page) + 2 + 1
    BY <1>1, <2>1 DEF MessagesLeft
  <2>3. Cardinality(run.page) \in Nat
    BY <1>3, LeftIs
  <2>4. CASE run'.pc = "replies" /\ run'.page = run.page
    <3>1. MessagesLeft(run', call'[Backfiller]) = 7 * Cardinality(run.page) + 1
      BY <2>4 DEF MessagesLeft
    <3> QED BY <2>2, <2>3, <3>1
  <2>5. CASE run'.pc = "page" /\ run'.page = run.page \ {Current}
    <3>1. MessagesLeft(run', call'[Backfiller]) = 7 * (Cardinality(run.page) - 1) + 7
      BY <1>3, <2>5 DEF MessagesLeft
    <3> QED BY <2>2, <2>3, <3>1
  <2> QED BY <1>1, <2>4, <2>5
<1> QED BY <1>1, <1>3, <1>4, <1>5, FewerMessages DEF Counts, Lowers

(* A reply is in the mirror and leaves the page.                           *)
LEMMA ReplyDoneLowers ==
    ASSUME RunInv, Counts, ReplyDone
    PROVE  Counts' /\ Lowers
<1>1. /\ run.pc = "reply" /\ run'.pc = "thread page" /\ call[Backfiller].pc = "done"
      /\ run'.replies = run.replies \ {CurrentReply}
      /\ run'.more = run.more /\ run'.page = run.page
      /\ run'.todo = run.todo /\ run'.cursor = run.cursor
      /\ run'.rest = run.rest /\ run'.after = run.after
  BY DEF ReplyDone, RunInv, RunType
<1>2. CurrentReply \in run.replies
  BY <1>1, CurrentReplyIs DEF RunInv, TaskOK
<1>3. /\ Countable(run) /\ Countable(run')
      /\ Cardinality(run.replies \ {CurrentReply}) = Cardinality(run.replies) - 1
  <2>1. /\ IsFiniteSet(run.replies \ {CurrentReply})
        /\ Cardinality(run.replies \ {CurrentReply}) = Cardinality(run.replies) - 1
    BY <1>2, FS_RemoveElement DEF Counts, Countable
  <2> QED BY <1>1, <2>1 DEF Counts, Countable
<1>4. PagesLeft(run') = PagesLeft(run) /\ ReplyPagesLeft(run') = ReplyPagesLeft(run)
  <2>1. Unread(run') = Unread(run) /\ Unreplied(run') = Unreplied(run)
    BY <1>1 DEF Unread, Unreplied
  <2> QED BY <1>1, <2>1 DEF PagesLeft, ReplyPagesLeft
<1>5. MessagesLeft(run', call'[Backfiller]) = MessagesLeft(run, call[Backfiller])
  BY <1>1 DEF MessagesLeft
<1>6. RepliesLeft(run', call'[Backfiller]) < RepliesLeft(run, call[Backfiller])
  <2>1. CallLeft(call[Backfiller]) = 1
    BY <1>1 DEF CallLeft
  <2>2. RepliesLeft(run, call[Backfiller]) = 6 * Cardinality(run.replies) + 1 + 1
    BY <1>1, <2>1 DEF RepliesLeft
  <2>3. RepliesLeft(run', call'[Backfiller]) = 6 * (Cardinality(run.replies) - 1) + 6
    BY <1>1, <1>3 DEF RepliesLeft
  <2>4. Cardinality(run.replies) \in Nat
    BY <1>3, LeftIs
  <2> QED BY <2>2, <2>3, <2>4
<1> QED BY <1>1, <1>3, <1>4, <1>5, <1>6, FewerReplies DEF Counts, Lowers

(* A page of replies that shows something leaves fewer of them to read; one *)
(* that shows nothing is the last.                                         *)
LEMMA GetRepliesLowers ==
    ASSUME RunInv, Counts, GetReplies
    PROVE  Counts' /\ Lowers
<1> DEFINE above == {m \in (Replies(Current.ts) \cup {Current.ts}) \cap Visible :
                         m > run.after}
           shown == Eldest(above)
<1>1. /\ run.pc = "replies" /\ run'.pc = "thread page"
      /\ run'.replies = {Shown(m) : m \in shown}
      /\ run'.rest = (shown # above)
      /\ run'.after = (IF shown = {} THEN run.after ELSE High(shown))
      /\ run'.todo = run.todo /\ run'.page = run.page
      /\ run'.more = run.more /\ run'.cursor = run.cursor
  BY DEF GetReplies, RunInv, RunType
<1>2. /\ above \subseteq Messages /\ above \subseteq Unreplied(run)
      /\ shown \subseteq above
      /\ above # {} => shown # {}
  <2>1. above \subseteq Messages /\ above \subseteq Unreplied(run)
    BY DEF Visible, Unreplied
  <2> HIDE DEF above
  <2> QED BY <2>1, EldestFirst
<1> HIDE DEF above, shown
<1>3. shown # {} => High(shown) \in shown
  BY <1>2, HighIs
<1>4. shown # {} => High(shown) \in Nat /\ High(shown) \in Unreplied(run)
  BY <1>2, <1>3, BackfillAssumption
<1>5. Countable(run) /\ Countable(run')
  <2>1. IsFiniteSet(run'.replies)
    BY <1>1, <1>2, ShownFinite
  <2>2. run'.rest \in BOOLEAN
    BY <1>1, Zenon
  <2> QED BY <1>1, <1>4, <2>1, <2>2 DEF Counts, Countable
<1>6. PagesLeft(run') = PagesLeft(run)
  <2>1. Unread(run') = Unread(run)
    BY <1>1 DEF Unread
  <2> QED BY <1>1, <2>1 DEF PagesLeft
<1>7. MessagesLeft(run', call'[Backfiller]) = MessagesLeft(run, call[Backfiller])
  BY <1>1 DEF MessagesLeft
<1>8. ReplyPagesLeft(run') < ReplyPagesLeft(run)
  <2>1. Cardinality(Unreplied(run)) \in Nat /\ Cardinality(Unreplied(run')) \in Nat
    BY <1>5, LeftIs
  <2>2. ReplyPagesLeft(run) = 2 * Cardinality(Unreplied(run)) + 1
    BY <1>1 DEF ReplyPagesLeft
  <2>3. CASE shown = {}
    <3>1. Unreplied(run') = Unreplied(run)
      BY <1>1, <2>3 DEF Unreplied
    <3>2. run'.rest = FALSE
      BY <1>1, <1>2, <2>3
    <3>3. ReplyPagesLeft(run') = 2 * Cardinality(Unreplied(run'))
      <4>1. ~(run'.pc = "replies" \/ run'.rest)
        BY <1>1, <3>2
      <4> QED BY <2>1, <4>1 DEF ReplyPagesLeft
    <3> QED BY <2>1, <2>2, <3>1, <3>3
  <2>4. CASE shown # {}
    <3>1. /\ run'.after = High(shown) /\ High(shown) \in Nat
          /\ High(shown) > run.after /\ High(shown) \in Messages
          /\ run.after \in Nat
      BY <1>1, <1>4, <2>4 DEF Unreplied, Counts, Countable
    <3>2. Unreplied(run') \subseteq Unreplied(run) \ {High(shown)}
      <4> SUFFICES ASSUME NEW m \in Unreplied(run')
                   PROVE  m \in Unreplied(run) /\ m # High(shown)
        OBVIOUS
      <4>1. m \in Messages /\ m \in Nat /\ m > High(shown)
        BY <3>1, BackfillAssumption DEF Unreplied
      <4>2. m > run.after
        BY <3>1, <4>1
      <4> QED BY <3>1, <4>1, <4>2 DEF Unreplied
    <3>3. IsFiniteSet(Unreplied(run))
      BY BackfillAssumption, FS_Subset DEF Unreplied
    <3>4. /\ IsFiniteSet(Unreplied(run) \ {High(shown)})
          /\ Cardinality(Unreplied(run) \ {High(shown)}) =
                 Cardinality(Unreplied(run)) - 1
      BY <1>4, <2>4, <3>3, FS_RemoveElement
    <3>5. Cardinality(Unreplied(run')) <= Cardinality(Unreplied(run)) - 1
      BY <3>2, <3>4, FS_Subset
    <3>6. ReplyPagesLeft(run') <= 2 * Cardinality(Unreplied(run')) + 1
      BY <2>1 DEF ReplyPagesLeft
    <3>7. ReplyPagesLeft(run') \in Nat
      BY <2>1 DEF ReplyPagesLeft
    <3> QED BY <2>1, <2>2, <3>5, <3>6, <3>7
  <2> QED BY <2>3, <2>4
<1> QED BY <1>1, <1>5, <1>6, <1>7, <1>8, FewerReplyPages DEF Counts, Lowers

(* A page of replies that is through: on to the one after it, or the thread *)
(* is read and its parent leaves the page.                                 *)
LEMMA NextRepliesLowers ==
    ASSUME RunInv, Counts, NextReplies
    PROVE  Counts' /\ Lowers
<1>1. /\ run.pc = "thread page"
      /\ run'.pc = (IF run.rest THEN "replies" ELSE "page")
      /\ run'.page = (IF run.rest THEN run.page ELSE run.page \ {Current})
      /\ run'.after = (IF run.rest THEN run.after ELSE 0)
      /\ run'.rest = run.rest /\ run'.more = run.more
      /\ run'.replies = run.replies
      /\ run'.todo = run.todo /\ run'.cursor = run.cursor
  BY DEF NextReplies, RunInv, RunType
<1>2. Current \in run.page
  BY <1>1, CurrentIs DEF RunInv, TaskOK
<1>3. /\ Countable(run) /\ Countable(run')
      /\ Cardinality(run.page \ {Current}) = Cardinality(run.page) - 1
      /\ Cardinality(run.page) \in Nat /\ Cardinality(run.replies) \in Nat
  <2>1. /\ IsFiniteSet(run.page \ {Current})
        /\ Cardinality(run.page \ {Current}) = Cardinality(run.page) - 1
    BY <1>2, FS_RemoveElement DEF Counts, Countable
  <2>2. Countable(run)
    BY DEF Counts
  <2>3. IsFiniteSet(run'.page) /\ run'.after \in Nat
    <3>1. CASE run.rest
      <4>1. run'.page = run.page /\ run'.after = run.after
        BY <1>1, <3>1
      <4> QED BY <2>2, <4>1 DEF Countable
    <3>2. CASE ~run.rest
      <4>1. run'.page = run.page \ {Current} /\ run'.after = 0
        BY <1>1, <3>2
      <4> QED BY <2>1, <4>1
    <3> QED BY <3>1, <3>2
  <2>4. Countable(run')
    BY <1>1, <2>2, <2>3 DEF Countable
  <2> QED BY <2>1, <2>2, <2>4, LeftIs
<1>4. PagesLeft(run') = PagesLeft(run)
  <2>1. Unread(run') = Unread(run)
    BY <1>1 DEF Unread
  <2> QED BY <1>1, <2>1 DEF PagesLeft
<1>5. MessagesLeft(run, call[Backfiller]) = 7 * Cardinality(run.page) + 1
  BY <1>1 DEF MessagesLeft
<1>6. CASE run.rest
  <2>1. run'.pc = "replies" /\ run'.page = run.page /\ run'.after = run.after
    BY <1>1, <1>6
  <2>2. MessagesLeft(run', call'[Backfiller]) = MessagesLeft(run, call[Backfiller])
    BY <1>5, <2>1 DEF MessagesLeft
  <2>3. ReplyPagesLeft(run') = ReplyPagesLeft(run)
    <3>1. Unreplied(run') = Unreplied(run)
      BY <2>1 DEF Unreplied
    <3> QED BY <1>6, <2>1, <3>1 DEF ReplyPagesLeft
  <2>4. RepliesLeft(run', call'[Backfiller]) < RepliesLeft(run, call[Backfiller])
    <3>1. RepliesLeft(run, call[Backfiller]) = 6 * Cardinality(run.replies) + 6
      BY <1>1, Zenon DEF RepliesLeft
    <3>2. RepliesLeft(run', call'[Backfiller]) = 0
      BY <2>1 DEF RepliesLeft
    <3> QED BY <1>3, <3>1, <3>2
  <2> QED BY <1>1, <1>3, <1>4, <2>2, <2>3, <2>4, FewerReplies DEF Counts, Lowers
<1>7. CASE ~run.rest
  <2>1. run'.pc = "page" /\ run'.page = run.page \ {Current}
    BY <1>1, <1>7
  <2>2. MessagesLeft(run', call'[Backfiller]) = 7 * (Cardinality(run.page) - 1) + 7
    BY <1>3, <2>1 DEF MessagesLeft
  <2>3. MessagesLeft(run', call'[Backfiller]) < MessagesLeft(run, call[Backfiller])
    BY <1>3, <1>5, <2>2
  <2> QED BY <1>1, <1>3, <1>4, <2>3, FewerMessages DEF Counts, Lowers
<1> QED BY <1>6, <1>7

(* A statement of the call is one less, whether it succeeds or fails.      *)
LEMMA CallLowers ==
    ASSUME PipeInv, RunInv, Counts, ApplyStep \/ ApplyFails
    PROVE  Counts' /\ Lowers
<1>1. /\ Backfiller \in Processes
      /\ Apply(Backfiller) \/ WriteFails(Backfiller)
      /\ run' = run
  BY BackfillAssumption DEF ApplyStep, ApplyFails
<1>2. call[Backfiller] # Idle
  <2>1. call[Backfiller].pc \in {"channel", "user", "upsert", "delete"}
    BY <1>1, ApplyActs
  <2> QED BY <2>1 DEF Idle
<1>3. /\ run.pc \in {"message", "reply"}
      /\ \E act : \E pc \in {"channel", "user", "upsert", "done", "error"} :
            call[Backfiller] = [pc |-> pc, act |-> act]
  <2>1. run.pc \in {"message", "reply"}
    BY <1>2 DEF RunInv, TaskOK
  <2>2. PICK s : WorksOn(s)
    BY <2>1 DEF RunInv, TaskOK
  <2>3. call[Backfiller] # [pc |-> "done"]
    BY <1>1, ApplyActs
  <2> QED BY <2>1, <2>2, <2>3 DEF WorksOn
<1>4. CallLeft(call'[Backfiller]) < CallLeft(call[Backfiller])
  <2>0. DOMAIN call = Processes
    BY DEF PipeInv, TypeInv
  <2>a. PICK pc, act : call[Backfiller] = [pc |-> pc, act |-> act]
    BY <1>3
  <2>c. call[Backfiller].pc # "delete"
    BY <1>3
  <2>b. ASSUME NEW next, Goto(Backfiller, next)
        PROVE  call'[Backfiller].pc = next
    <3>1. call'[Backfiller] = [call[Backfiller] EXCEPT !.pc = next]
      BY <1>1, <2>0, <2>b DEF Goto
    <3> QED BY <2>a, <3>1
  <2>1. CASE WriteFails(Backfiller)
    <3>1. /\ call[Backfiller].pc \in {"channel", "user", "upsert"}
          /\ call'[Backfiller].pc = "error"
      BY <1>3, <2>1, <2>b DEF WriteFails, AtStatement
    <3> QED BY <3>1 DEF CallLeft
  <2>2. CASE Apply(Backfiller)
    <3>1. \/ call[Backfiller].pc = "channel" /\ call'[Backfiller].pc = "user"
          \/ call[Backfiller].pc = "user" /\ call'[Backfiller].pc = "upsert"
          \/ call[Backfiller].pc = "upsert" /\ call'[Backfiller].pc = "done"
      BY <2>2, <2>b, <2>c
         DEF Apply, EnsureChannel, EnsureUser, UpsertMessage, DeleteMessage
    <3> QED BY <3>1 DEF CallLeft
  <2> QED BY <1>1, <2>1, <2>2
<1>5. Countable(run) /\ Countable(run')
  BY <1>1 DEF Counts
<1>6. /\ Cardinality(run.page) \in Nat /\ Cardinality(run.replies) \in Nat
      /\ CallLeft(call[Backfiller]) \in 0..4 /\ CallLeft(call'[Backfiller]) \in 0..4
  BY <1>5, LeftIs
<1>7. CASE run.pc = "message"
  <2>1. /\ MessagesLeft(run, call[Backfiller]) =
               7 * Cardinality(run.page) + 2 + CallLeft(call[Backfiller])
        /\ MessagesLeft(run', call'[Backfiller]) =
               7 * Cardinality(run.page) + 2 + CallLeft(call'[Backfiller])
    BY <1>1, <1>7 DEF MessagesLeft
  <2>2. MessagesLeft(run', call'[Backfiller]) < MessagesLeft(run, call[Backfiller])
    BY <1>4, <1>6, <2>1
  <2>3. PagesLeft(run') = PagesLeft(run)
    BY <1>1
  <2> QED BY <1>1, <1>5, <2>2, <2>3, FewerMessages DEF Counts, Lowers
<1>8. CASE run.pc = "reply"
  <2>1. /\ RepliesLeft(run, call[Backfiller]) =
               6 * Cardinality(run.replies) + 1 + CallLeft(call[Backfiller])
        /\ RepliesLeft(run', call'[Backfiller]) =
               6 * Cardinality(run.replies) + 1 + CallLeft(call'[Backfiller])
    BY <1>1, <1>8 DEF RepliesLeft
  <2>2. RepliesLeft(run', call'[Backfiller]) < RepliesLeft(run, call[Backfiller])
    BY <1>4, <1>6, <2>1
  <2>3. PagesLeft(run') = PagesLeft(run) /\ ReplyPagesLeft(run') = ReplyPagesLeft(run)
    BY <1>1
  <2>4. MessagesLeft(run', call'[Backfiller]) = MessagesLeft(run, call[Backfiller])
    BY <1>1, <1>8 DEF MessagesLeft
  <2> QED BY <1>1, <1>5, <2>2, <2>3, <2>4, FewerReplies DEF Counts, Lowers
<1> QED BY <1>3, <1>7, <1>8

\* A run is under way.
Active == run.pc \notin {"off", "done", "failed"}

\* What a run that is under way can do next, or that its call can: the guards
\* of Progress and ReadFails, written out.
RunGoesOn ==
    Active => \/ run.pc \in {"channels", "history", "page", "replies", "thread page"}
              \/ call[Backfiller].pc \in {"channel", "user", "upsert", "done", "error"}

\* A step of the run ends it or leaves less to do; serve and the workspace
\* leave what it has to do as it is.
RunSinks ==
    /\ BackfillStep /\ ~Start => Over(run') \/ Lowers
    /\ ServeStep => Left(run', call'[Backfiller]) = Left(run, call[Backfiller])

(* An exit ends the run and forgets all it held.                           *)
LEMMA ExitCounts ==
    ASSUME NEW pc \in {"done", "failed"}, NEW since, Exits(pc, since)
    PROVE  Counts' /\ Over(run')
<1>1. /\ run'.pc = pc /\ run'.todo = {} /\ run'.page = {} /\ run'.replies = {}
      /\ run'.more = FALSE /\ run'.rest = FALSE /\ run'.cursor = 0 /\ run'.after = 0
  BY DEF Exits, OffRun
<1>2. Countable(run')
  <2>1. run'.more \in BOOLEAN /\ run'.rest \in BOOLEAN
    BY <1>1, Zenon
  <2> QED BY <1>1, <2>1, FS_EmptySet DEF Countable
<1> QED BY <1>1, <1>2 DEF Counts, Over

(* A run begins with the allowlist before it.                              *)
LEMMA StartCounts ==
    ASSUME IsFiniteSet(Allow), Start
    PROVE  Counts'
<1>1. /\ run'.todo = Allow /\ run'.page = {} /\ run'.replies = {}
      /\ run'.more = FALSE /\ run'.rest = FALSE /\ run'.cursor = 0 /\ run'.after = 0
  BY DEF Start, OffRun
<1>2. Countable(run')
  <2>1. run'.more \in BOOLEAN /\ run'.rest \in BOOLEAN
    BY <1>1, Zenon
  <2> QED BY <1>1, <2>1, FS_EmptySet DEF Countable
<1> QED BY <1>2 DEF Counts

(* What a run has to do is countable from the start.                       *)
LEMMA CountsInit == BothInit => Counts
<1> SUFFICES ASSUME BothInit PROVE Countable(run)
  BY DEF Counts
<1>1. /\ run.todo = {} /\ run.page = {} /\ run.replies = {}
      /\ run.more = FALSE /\ run.rest = FALSE /\ run.cursor = 0 /\ run.after = 0
  BY DEF BothInit, OffRun
<1>2. run.more \in BOOLEAN /\ run.rest \in BOOLEAN
  BY <1>1, Zenon
<1> QED BY <1>1, <1>2, FS_EmptySet DEF Countable

(* Every step keeps it so, and sinks.                                      *)
LEMMA CountsStep ==
    ASSUME IsFiniteSet(Allow), BothInv, Counts, [BothNext]_allVars
    PROVE  Counts' /\ RunSinks
<1>1. CASE [Next]_vars /\ run' = run /\ ~BackfillStep
  <2>1. call'[Backfiller] = call[Backfiller]
    BY <1>1, ServeApart DEF BothInv
  <2>2. Counts'
    BY <1>1 DEF Counts
  <2> QED BY <1>1, <2>1, <2>2 DEF RunSinks
<1>2. CASE BackfillStep
  <2>0. RunInv /\ PipeInv
    BY DEF BothInv
  <2>1. Counts' /\ (~Start => Over(run') \/ Lowers)
    <3>1. CASE Start
      BY <3>1, StartCounts
    <3>2. CASE NextChannel
      BY <2>0, <3>2, NextChannelLowers
    <3>3. CASE GetHistory
      BY <2>0, <3>3, GetHistoryLowers
    <3>4. CASE NextPage
      BY <2>0, <3>4, NextPageLowers
    <3>5. CASE GetReplies
      BY <2>0, <3>5, GetRepliesLowers
    <3>6. CASE NextReplies
      BY <2>0, <3>6, NextRepliesLowers
    <3>7. CASE UpsertMessageOfPage
      BY <2>0, <3>7, UpsertMessageLowers
    <3>8. CASE UpsertReply
      BY <2>0, <3>8, UpsertReplyLowers
    <3>9. CASE MessageDone
      BY <2>0, <3>9, MessageDoneLowers
    <3>10. CASE ReplyDone
      BY <2>0, <3>10, ReplyDoneLowers
    <3>11. CASE \E pc \in {"done", "failed"}, since \in {run.since, OffRun.since} :
                    Exits(pc, since)
      BY <3>11, ExitCounts
    <3>12. CASE ApplyStep \/ ApplyFails
      BY <2>0, <3>12, CallLowers
    <3> QED BY <1>2, <3>1, <3>2, <3>3, <3>4, <3>5, <3>6, <3>7, <3>8, <3>9, <3>10,
               <3>11, <3>12, BackfillCases
  <2>2. ASSUME ServeStep
        PROVE  Left(run', call'[Backfiller]) = Left(run, call[Backfiller])
    <3>1. [Next]_vars /\ run' = run
      BY <2>2 DEF ServeStep
    <3> QED BY <3>1, ServeApart DEF BothInv
  <2> QED BY <2>1, <2>2 DEF RunSinks
<1> QED BY <1>1, <1>2, EitherSteps

(* A run that is under way always has a step that it can take.             *)
LEMMA InvGoesOn == BothInv => RunGoesOn
<1>1. ASSUME BothInv, NEW s, WorksOn(s)
      PROVE  call[Backfiller].pc \in {"channel", "user", "upsert", "done", "error"}
  <2>1. CASE call[Backfiller] = [pc |-> "done"]
    BY <2>1
  <2>2. ASSUME NEW pc \in {"channel", "user", "upsert", "done", "error"},
               call[Backfiller] = [pc |-> pc, act |-> messageToRow(s)]
        PROVE  call[Backfiller].pc = pc
    BY <2>2
  <2> QED BY <1>1, <2>1, <2>2 DEF WorksOn
<1>2. ASSUME BothInv, run.pc \in {"message", "reply"}
      PROVE  \E s : WorksOn(s)
  BY <1>2 DEF BothInv, RunInv, TaskOK
<1>3. BothInv /\ Active =>
          \/ run.pc \in {"channels", "history", "page", "replies", "thread page"}
          \/ run.pc \in {"message", "reply"}
  BY DEF BothInv, RunInv, RunType, Steps, Active
<1> QED BY <1>1, <1>2, <1>3 DEF RunGoesOn

\* A run of backfill cannot go on for ever: for an allowlist of any length, any
\* page size and any number of threads, and whatever serve and Slack do
\* between two of its steps, each of its steps ends it or lowers what it has
\* left, of which there is no endless descent (LeftRunsOut); and as long as it
\* is under way it has a step to take.  This is BackfillEnds but for fairness.
THEOREM RunsRunOut ==
    ASSUME ListsApart, IsFiniteSet(Allow)
    PROVE  /\ IsWellFoundedOn(LeftOrder, Lefts)
           /\ BothSpec => []RunGoesOn
           /\ BothSpec => [](Left(run, call[Backfiller]) \in Lefts)
           /\ BothSpec => [][RunSinks]_allVars
<1>1. BothInv /\ Counts /\ [BothNext]_allVars => BothInv' /\ Counts' /\ RunSinks
  BY BothStep, CountsStep
<1>2. Counts => Left(run, call[Backfiller]) \in Lefts
  BY LeftIs DEF Counts
<1> HIDE DEF RunSinks
<1>3. BothInit => BothInv /\ Counts
  BY BothInitial, CountsInit
<1>4. BothSpec => [](BothInv /\ Counts) /\ [][RunSinks]_allVars
  BY <1>1, <1>3, PTL DEF BothSpec
<1>5. BothSpec => []RunGoesOn
  BY <1>4, InvGoesOn, PTL
<1> DEFINE Numbers == Left(run, call[Backfiller]) \in Lefts
<1>6. Counts => Numbers
  BY <1>2
<1> HIDE DEF Numbers
<1>7. BothSpec => []Numbers
  BY <1>4, <1>6, PTL
<1> QED BY <1>4, <1>5, <1>7, LeftRunsOut DEF Numbers
=============================================================================
