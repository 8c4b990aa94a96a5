----------------------------- MODULE MCService -----------------------------
(* Instances of Service for TLC: a plain message and one of a persisted     *)
(* subtype by one author, and one in a denied channel.  The first is posted *)
(* with one attachment and exchanges it, or drops it, in an edit; the       *)
(* second is posted with the same one and loses it, or gains another.       *)
EXTENDS Service, TLC

CONSTANTS first, second, hidden, general, secret, ann, plan, sketch

Two   == {first, second}
Three == {first, second, hidden}

MCChannelOf == [m \in Messages |-> IF m = hidden THEN secret ELSE general]
MCAuthorOf  == [m \in Messages |-> ann]
MCSubtypeOf == [m \in Messages |-> IF m = second THEN "bot_message" ELSE ""]
MCParentOf  == [m \in Messages |-> m]

Denied == {secret}
Bots   == {"bot_message"}

Dropping ==
    [m \in Messages |-> CASE m = first  -> <<{plan}, {}>>
                          [] m = second -> <<{plan}, {plan, sketch}>>
                          [] m = hidden -> <<{sketch}, {}>>]
Swapping ==
    [m \in Messages |-> CASE m = first  -> <<{plan}, {sketch}>>
                          [] m = second -> <<{plan}, {}>>]
=============================================================================
