---------------------------- MODULE MCPipeline ----------------------------
(* Instances of EventPipeline for TLC: three messages by two authors, one  *)
(* plain and one of a persisted subtype in the allowed channel, and one    *)
(* either in the denied channel or of a skipped subtype.                   *)
EXTENDS EventPipeline, TLC

CONSTANTS plain, bot, other, general, secret, ann, app

MCMessages == {plain, bot, other}
MCChannels == {general, secret}
MCUsers    == {ann, app}

MCAuthorOf  == (plain :> ann) @@ (bot :> app) @@ (other :> NoUser)
MCChannelOf == (plain :> general) @@ (bot :> general) @@ (other :> secret)
MCSubtypeOf == (plain :> "") @@ (bot :> "bot_message") @@ (other :> "")

OneChannelOf == (plain :> general) @@ (bot :> general) @@ (other :> general)
JoinSubtypeOf == (plain :> "") @@ (bot :> "bot_message") @@ (other :> "channel_join")

MCParentOf == [m \in MCMessages |-> m]

MCDeny == {secret}
Bots   == {"bot_message"}
Joins  == {"channel_join"}
=============================================================================
