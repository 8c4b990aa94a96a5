------------------------------ MODULE Mirror ------------------------------
(***************************************************************************)
(* What the mirror promises about message rows, whatever is delivered      *)
(* twice, late or never: a row always holds some version Slack published   *)
(* of an admitted message, and it leaves the table only if Slack removed   *)
(* the message.                                                            *)
(***************************************************************************)
EXTENDS Naturals

CONSTANTS
    Messages,    \* keys (channel_id, ts)
    Admitted,    \* those that the channel and subtype filters let through
    MaxVersion   \* bound: versions one message may have in Slack

VARIABLES
    version,     \* the latest version of each message; 0: not yet posted
    gone,        \* messages removed from Slack
    messages     \* the version in the mirror's row; 0: no row

vars == <<version, gone, messages>>

\* The mirror starts empty, in a workspace that may have a history.
Init ==
    /\ version \in [Messages -> 0..MaxVersion]
    /\ gone = {}
    /\ messages = [m \in Messages |-> 0]

\* Slack: a message is posted or edited.
Publish(m) ==
    /\ m \notin gone
    /\ version[m] < MaxVersion
    /\ version' = [version EXCEPT ![m] = @ + 1]
    /\ UNCHANGED <<gone, messages>>

Remove(m) ==
    /\ m \notin gone
    /\ version[m] > 0
    /\ gone' = gone \cup {m}
    /\ UNCHANGED <<version, messages>>

Copy(m) ==
    /\ m \in Admitted
    /\ \E v \in 1..version[m] : messages' = [messages EXCEPT ![m] = v]
    /\ UNCHANGED <<version, gone>>

Drop(m) ==
    /\ m \in gone
    /\ messages' = [messages EXCEPT ![m] = 0]
    /\ UNCHANGED <<version, gone>>

Next == \E m \in Messages : Publish(m) \/ Remove(m) \/ Copy(m) \/ Drop(m)

Spec == Init /\ [][Next]_vars
=============================================================================
