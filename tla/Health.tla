------------------------------ MODULE Health ------------------------------
(***************************************************************************)
(* Readiness: the loop of Consumer.Run turns connection events into the    *)
(* flag of health.State, and handled messages into the time of the last    *)
(* event; /readyz reads the two, one after the other, from a goroutine of  *)
(* its own.                                                                *)
(***************************************************************************)
EXTENDS Naturals, Sequences

CONSTANTS
    StaleAfter,    \* the age at which the last event is still recent
    Buffer,        \* capacity of client.Events
    LinkFaults     \* subset of {"break", "write"}

ASSUME HealthAssumption ==
    /\ StaleAfter \in Nat
    /\ Buffer \in Nat \ {0}
    /\ LinkFaults \subseteq {"break", "write"}

VARIABLES
    link,         \* the connection: "up", "down" (ended), "broken"
    events,       \* the buffered channel client.Events
    handling,     \* the loop is inside handleMessage
    connected,    \* State.connected
    age,          \* time since State.lastEvent; Never: it is zero
    probe,        \* the request to /readyz: how far, and ready at some time?
    answer        \* what /readyz last told

healthVars == <<link, events, handling, connected, age, probe, answer>>

Never == StaleAfter + 2

NoProbe == [pc |-> "none", wasReady |-> FALSE]

\* The flag, the clock, the channel and the request hold values of their kind.
HealthTypeOK ==
    /\ link \in {"up", "down", "broken"}
    /\ events \in Seq({"connected", "disconnect", "error", "message"})
    /\ Len(events) <= Buffer
    /\ handling \in BOOLEAN /\ connected \in BOOLEAN
    /\ age \in 0..Never
    /\ probe \in [pc : {"none", "last"}, wasReady : BOOLEAN]
    /\ answer \in {"none", "ready", "unready"}

HealthInit ==
    /\ link = "down"
    /\ events = <<>>
    /\ handling = FALSE
    /\ connected = FALSE
    /\ age = Never
    /\ probe = NoProbe
    /\ answer = "none"
-----------------------------------------------------------------------------
Recent == age = Never \/ age <= StaleAfter

\* What a request that took no time would be told.
Ready == connected /\ Recent

\* A request in progress remembers whether it could have been told so.
Watch == probe' = [probe EXCEPT !.wasReady = @ \/ (probe.pc # "none" /\ Ready')]

(***************************************************************************)
(* The client of Socket Mode.  It ends a connection when Slack asks it to, *)
(* and says so with a disconnect event; a connection that breaks, and one  *)
(* that cannot be made, it reports as an error.                            *)
(***************************************************************************)
Sends(ev) ==
    /\ Len(events) < Buffer
    /\ events' = Append(events, ev)
    /\ UNCHANGED <<handling, connected, age, answer>>
    /\ Watch

Connect    == link # "up" /\ link' = "up" /\ Sends("connected")
Disconnect == link = "up" /\ link' = "down" /\ Sends("disconnect")
Message    == link = "up" /\ UNCHANGED link /\ Sends("message")

Breaks ==
    /\ "break" \in LinkFaults
    /\ link' = IF link = "up" THEN "broken" ELSE link
    /\ Sends("error")
-----------------------------------------------------------------------------
\* Mutant: the flag is only ever set.
FlagStays(ev) == IF ev = "connected" THEN TRUE ELSE connected

\* SetConnected.
Flag(ev) == CASE ev = "connected"  -> TRUE
              [] ev = "disconnect" -> FALSE
              [] OTHER             -> connected

\* Mutant: messages are handled in goroutines of their own.
TakeConcurrently ==
    /\ events # <<>>
    /\ handling' = (handling \/ Head(events) = "message")
    /\ connected' = Flag(Head(events))
    /\ events' = Tail(events)
    /\ UNCHANGED <<link, age, answer>>
    /\ Watch

\* Mutant: whatever the client reports counts as an event.
TakeMarks ==
    /\ ~handling
    /\ events # <<>>
    /\ handling' = (Head(events) = "message")
    /\ connected' = Flag(Head(events))
    /\ events' = Tail(events)
    /\ age' = 0
    /\ UNCHANGED <<link, answer>>
    /\ Watch

\* One turn of the loop, up to the handling of a message.
Take ==
    /\ ~handling
    /\ events # <<>>
    /\ handling' = (Head(events) = "message")
    /\ connected' = Flag(Head(events))
    /\ events' = Tail(events)
    /\ UNCHANGED <<link, age, answer>>
    /\ Watch

\* handleMessage returns: MarkEvent, or an error and no mark.
Handled ==
    /\ handling
    /\ handling' = FALSE
    /\ age' \in {0} \cup (IF "write" \in LinkFaults THEN {age} ELSE {})
    /\ UNCHANGED <<link, events, connected, answer>>
    /\ Watch

\* Mutant: a zero time is not told from an old one.
TickFromZero ==
    /\ age' = age + 1
    /\ UNCHANGED <<link, events, handling, connected, answer>>
    /\ Watch

\* Time passes; that of an event that never was does not.
Tick ==
    /\ age <= StaleAfter
    /\ age' = age + 1
    /\ UNCHANGED <<link, events, handling, connected, answer>>
    /\ Watch
-----------------------------------------------------------------------------
Replies(text) ==
    /\ answer' = text
    /\ probe' = NoProbe

\* readyz looks at the flag first, and may answer at once,
ReadConnected ==
    /\ probe.pc = "none"
    /\ IF connected THEN probe' = [pc |-> "last", wasReady |-> Ready] /\ UNCHANGED answer
       ELSE Replies("unready")
    /\ UNCHANGED <<link, events, handling, connected, age>>

\* and then at the last event.
ReadLastEvent ==
    /\ probe.pc = "last"
    /\ Replies(IF Recent THEN "ready" ELSE "unready")
    /\ UNCHANGED <<link, events, handling, connected, age>>

Client == Connect \/ Disconnect \/ Message \/ Breaks
Loop   == Take \/ Handled
Readyz == ReadConnected \/ ReadLastEvent

HealthNext == Client \/ Loop \/ Tick \/ Readyz

HealthSpec == HealthInit /\ [][HealthNext]_healthVars

\* The loop takes what the channel holds, time passes, requests are served.
HealthFairSpec ==
    HealthSpec /\ WF_healthVars(Loop) /\ WF_healthVars(Tick) /\ WF_healthVars(Readyz)
-----------------------------------------------------------------------------
\* "ready" is only told if the flag was set and the last event recent at one
\* moment of the request, although it reads them at two.
AnswersHonestly ==
    [][(probe.pc = "last" /\ probe' = NoProbe /\ answer' = "ready")
         => probe.wasReady]_healthVars

\* A connection that stays up, or that was ended and stays down, is in the end
\* seen so by the flag.
FlagFollows == /\ <>[](link = "up") => <>[]connected
               /\ <>[](link = "down") => <>[]~connected

(***************************************************************************)
(* A process that stays without a connection is in the end not ready, also *)
(* when the connection broke and the flag stays set: the age of the last   *)
(* event tells then, unless there never was one.                           *)
(***************************************************************************)
EndsUnready == <>[](link # "up") => <>[](~Ready \/ age = Never)
=============================================================================
