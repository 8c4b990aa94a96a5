----------------------------- MODULE Dispatch -----------------------------
(***************************************************************************)
(* The pure mapping from a Slack message event to an action on the mirror. *)
(* A payload is a version number; the row built from it keeps it.          *)
(***************************************************************************)

CONSTANTS
    Allow,      \* channel allowlist; empty: every channel
    Deny,       \* channel denylist
    Persist,    \* subtype allowlist; empty: every subtype
    SkipTypes   \* subtype denylist

ChannelAllowed(id) == id \notin Deny /\ (Allow = {} \/ id \in Allow)

\* A plain message has the empty subtype and always persists.
SubtypePersisted(subtype) ==
    \/ subtype = ""
    \/ subtype \notin SkipTypes /\ (Persist = {} \/ subtype \in Persist)

subtypeChanged == "message_changed"
subtypeDeleted == "message_deleted"

ActionSkip       == [kind |-> "skip"]
ActionDelete(ts) == [kind |-> "delete", ts |-> ts]

messageToRow(m)  == [kind |-> "upsert", ts |-> m.ts, version |-> m.version]

\* Of an event that is no edit and no delete, the message is the event.
msgFromEvent(ev) == [ts |-> ev.ts, subtype |-> ev.subtype, version |-> ev.version]

\* Mutant: edits bypass the subtype filter.
UpsertUnfiltered(m) == messageToRow(m)

\* The message row for m, unless the filter drops its subtype.
Upsert(m) == IF SubtypePersisted(m.subtype) THEN messageToRow(m) ELSE ActionSkip

\* Mutant: the subtype of the event, not that of the edited message, counts.
DispatchOuterSubtype(channel, ev) ==
    CASE ~ChannelAllowed(channel) \/ ~SubtypePersisted(ev.subtype) -> ActionSkip
      [] OTHER -> CASE ev.subtype = subtypeDeleted -> ActionDelete(ev.deletedTS)
                    [] ev.subtype = subtypeChanged -> messageToRow(ev.message)
                    [] OTHER -> messageToRow(msgFromEvent(ev))

Dispatch(channel, ev) ==
    CASE ~ChannelAllowed(channel)     -> ActionSkip
      [] ChannelAllowed(channel) /\ ev.subtype = subtypeDeleted
                                      -> ActionDelete(ev.deletedTS)
      [] ChannelAllowed(channel) /\ ev.subtype = subtypeChanged
                                      -> Upsert(ev.message)
      [] OTHER                        -> Upsert(msgFromEvent(ev))
=============================================================================
