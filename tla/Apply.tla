------------------------------- MODULE Apply -------------------------------
(***************************************************************************)
(* consumer.Apply and the resolver behind it: how one process turns an     *)
(* action into rows.  The live consumer and backfill share this path, each *)
(* with a resolver cache of its own.  Every Web API call with the upsert   *)
(* that follows it, and every message statement, is a step.                *)
(***************************************************************************)
EXTENDS Slack

CONSTANTS
    Processes,   \* the processes that apply actions
    Channels, Users,
    ChannelOf,   \* the channel of each message
    AuthorOf,    \* its user or bot; NoUser for a system message
    NoUser,
    Faults       \* subset of {"db", "api", "crash", "sigterm"}

ASSUME ApplyAssumption ==
    /\ ChannelOf \in [Messages -> Channels]
    /\ AuthorOf \in [Messages -> Users \cup {NoUser}]
    /\ NoUser \notin Users

VARIABLES
    channels, users,   \* rows: "absent", "stub" (no name) or "named"
    messages,          \* the version in each message row; 0: no row
    seen,              \* the resolver cache of each process
    call               \* the Apply call of each process

store == <<channels, users, messages>>

Row == {"absent", "stub", "named"}

Idle  == [pc |-> "idle"]
NoneSeen == [channels |-> {}, users |-> {}]

\* An Apply call: at rest, at one of the steps of its action, or back from it;
\* a message that backfill passes over leaves a bare "done".
Calls ==
    {Idle, [pc |-> "done"], [pc |-> "done", act |-> [kind |-> "skip"]]}
      \cup [pc  : {"channel", "user", "upsert", "done", "error"},
            act : [kind : {"upsert"}, ts : Messages, version : 1..MaxVersion]]
      \cup [pc  : {"delete", "done", "error"},
            act : [kind : {"delete"}, ts : Messages]]

\* The rows, the caches and the calls hold values of their kind.
ApplyTypeOK ==
    /\ channels \in [Channels -> Row]
    /\ users \in [Users -> Row]
    /\ messages \in [Messages -> 0..MaxVersion]
    /\ seen \in [Processes -> [channels : SUBSET Channels, users : SUBSET Users]]
    /\ DOMAIN call = Processes
    /\ \A p \in Processes : call[p] \in Calls

ApplyInit ==
    /\ channels = [c \in Channels |-> "absent"]
    /\ users = [u \in Users |-> "absent"]
    /\ messages = [m \in Messages |-> 0]
    /\ seen = [p \in Processes |-> NoneSeen]
    /\ call = [p \in Processes |-> Idle]
-----------------------------------------------------------------------------
\* Mutant: the channel is not ensured.
FirstStepNoChannel(kind) ==
    CASE kind = "upsert" -> "user"
      [] kind = "delete" -> "delete"
      [] OTHER -> "done"

\* Where Apply begins for each kind of action.
FirstStep(kind) ==
    CASE kind = "upsert" -> "channel"
      [] kind = "delete" -> "delete"
      [] OTHER -> "done"

Begin(p, act) ==
    call' = [call EXCEPT ![p] = [pc |-> FirstStep(act.kind), act |-> act]]

Goto(p, pc) == call' = [call EXCEPT ![p].pc = pc]

Msg(p)     == call[p].act.ts
Channel(p) == ChannelOf[Msg(p)]
Author(p)  == AuthorOf[Msg(p)]

KnownChannel(p) == Channel(p) \in seen[p].channels
KnownUser(p)    == Author(p) = NoUser \/ Author(p) \in seen[p].users

\* What the Web API tells: without an answer the row is a stub.
Info == {"named"} \cup (IF "api" \in Faults THEN {"stub"} ELSE {})

\* The statements, as they take effect in the database.
WriteChannel(p) ==
    /\ \E info \in Info : channels' = [channels EXCEPT ![Channel(p)] = info]
    /\ UNCHANGED <<users, messages>>

WriteUser(p) ==
    /\ \E info \in Info : users' = [users EXCEPT ![Author(p)] = info]
    /\ UNCHANGED <<channels, messages>>

WriteMessage(p, row) ==
    /\ messages' = [messages EXCEPT ![Msg(p)] = row]
    /\ UNCHANGED <<channels, users>>

\* Mutant: the cache is not asked.
EnsureChannelAgain(p) ==
    /\ call[p].pc = "channel"
    /\ WriteChannel(p)
    /\ seen' = [seen EXCEPT ![p].channels = @ \cup {Channel(p)}]
    /\ Goto(p, "user")

\* A cached channel costs nothing; another is looked up, written, then cached.
EnsureChannel(p) ==
    /\ call[p].pc = "channel"
    /\ \/ KnownChannel(p) /\ UNCHANGED <<store, seen>>
       \/ /\ ~KnownChannel(p)
          /\ WriteChannel(p)
          /\ seen' = [seen EXCEPT ![p].channels = @ \cup {Channel(p)}]
    /\ Goto(p, "user")

\* Mutant: the user is marked in the cache of the channels.
EnsureUserWrongCache(p) ==
    /\ call[p].pc = "user"
    /\ \/ KnownUser(p) /\ UNCHANGED <<store, seen>>
       \/ /\ ~KnownUser(p)
          /\ WriteUser(p)
          /\ seen' = [seen EXCEPT ![p].channels = @ \cup {Author(p)}]
    /\ Goto(p, "upsert")

EnsureUser(p) ==
    /\ call[p].pc = "user"
    /\ \/ KnownUser(p) /\ UNCHANGED <<store, seen>>
       \/ /\ ~KnownUser(p)
          /\ WriteUser(p)
          /\ seen' = [seen EXCEPT ![p].users = @ \cup {Author(p)}]
    /\ Goto(p, "upsert")

\* Mutant: ON CONFLICT DO NOTHING.
UpsertMessageOnce(p) ==
    /\ call[p].pc = "upsert"
    /\ WriteMessage(p, IF messages[Msg(p)] = 0 THEN call[p].act.version
                       ELSE messages[Msg(p)])
    /\ Goto(p, "done")
    /\ UNCHANGED seen

UpsertMessage(p) ==
    /\ call[p].pc = "upsert"
    /\ WriteMessage(p, call[p].act.version)
    /\ Goto(p, "done")
    /\ UNCHANGED seen

DeleteMessage(p) ==
    /\ call[p].pc = "delete"
    /\ WriteMessage(p, 0)
    /\ Goto(p, "done")
    /\ UNCHANGED seen

\* Mutant: the entity is marked seen before its row is written.
WriteFailsMarked(p) ==
    /\ call[p].pc = "channel" /\ ~KnownChannel(p)
    /\ seen' = [seen EXCEPT ![p].channels = @ \cup {Channel(p)}]
    /\ Goto(p, "error")
    /\ UNCHANGED store

\* Mutant: the error is dropped.
WriteFailsSilently(p) ==
    /\ call[p].pc \in {"upsert", "delete"}
    /\ Goto(p, "done")
    /\ UNCHANGED <<store, seen>>

AtStatement(p) ==
    \/ call[p].pc = "channel" /\ ~KnownChannel(p)
    \/ call[p].pc = "user" /\ ~KnownUser(p)
    \/ call[p].pc \in {"upsert", "delete"}

(***************************************************************************)
(* A statement fails and Apply returns its error; nothing is cached.  The  *)
(* server may have committed it before the reply was lost.                 *)
(***************************************************************************)
WriteFails(p) ==
    /\ AtStatement(p)
    /\ \/ UNCHANGED store
       \/ call[p].pc = "channel" /\ WriteChannel(p)
       \/ call[p].pc = "user" /\ WriteUser(p)
       \/ call[p].pc = "upsert" /\ WriteMessage(p, call[p].act.version)
       \/ call[p].pc = "delete" /\ WriteMessage(p, 0)
    /\ Goto(p, "error")
    /\ UNCHANGED seen

Apply(p) ==
    EnsureChannel(p) \/ EnsureUser(p) \/ UpsertMessage(p) \/ DeleteMessage(p)
-----------------------------------------------------------------------------
\* The channel row a message references exists whenever the message is about
\* to be written, so its foreign key cannot fail, and stays while it is there.
ChannelBeforeMessage ==
    /\ \A p \in Processes :
         call[p].pc = "upsert" => channels[Channel(p)] # "absent"
    /\ \A m \in Messages : messages[m] # 0 => channels[ChannelOf[m]] # "absent"

\* What a process believes to be written is written: caches follow the tables.
SeenIsWritten ==
    \A p \in Processes :
        /\ \A c \in seen[p].channels : channels[c] # "absent"
        /\ \A u \in seen[p].users : users[u] # "absent"
=============================================================================
