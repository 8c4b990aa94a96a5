------------------------------- MODULE Slack -------------------------------
(***************************************************************************)
(* The workspace as its users change it: what Slack would show right now.  *)
(* A payload is the number of the version it shows.                        *)
(***************************************************************************)
EXTENDS Naturals

CONSTANTS
    Messages,      \* keys (channel_id, ts)
    SubtypeOf,     \* the subtype of each message
    ParentOf,      \* the message whose thread it is in; itself if in none
    Past,          \* the messages posted before the mirror first ran
    MaxVersion,    \* bound: versions of one message
    MaxEvents      \* bound: changes made while the model runs

ASSUME SlackAssumption ==
    /\ ParentOf \in [Messages -> Messages]
    /\ Past \subseteq {m \in Messages : ParentOf[m] \in Past}
    /\ MaxVersion \in Nat \ {0} /\ MaxEvents \in Nat

VARIABLES
    version,       \* the latest version of each message; 0: not yet posted
    gone,          \* messages removed
    published      \* changes made so far

slack == <<version, gone, published>>

SlackTypeOK ==
    /\ version \in [Messages -> 0..MaxVersion]
    /\ gone \subseteq Messages
    /\ published \in 0..MaxEvents

SlackInit ==
    /\ version = [m \in Messages |-> IF m \in Past THEN 1 ELSE 0]
    /\ gone = {}
    /\ published = 0

Visible == {m \in Messages : version[m] > 0 /\ m \notin gone}

Replies(m) == {r \in Messages \ {m} : ParentOf[r] = m}

\* A message is posted, or edited while it is visible; a reply needs its parent.
Write(m) ==
    /\ published < MaxEvents
    /\ m \notin gone
    /\ version[m] < MaxVersion
    /\ ParentOf[m] \in Visible \cup {m}
    /\ version' = [version EXCEPT ![m] = @ + 1]
    /\ published' = published + 1
    /\ UNCHANGED gone

\* A parent that still has replies is not removed: Slack edits it instead.
Remove(m) ==
    /\ published < MaxEvents
    /\ m \in Visible
    /\ Replies(m) \cap Visible = {}
    /\ gone' = gone \cup {m}
    /\ published' = published + 1
    /\ UNCHANGED version
=============================================================================
