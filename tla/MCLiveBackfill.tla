-------------------------- MODULE MCLiveBackfill --------------------------
(* Instances of LiveBackfill for TLC.  Message 1 is older than the window, *)
(* 2 starts a thread in which 3 is a reply, 4 is of a skipped subtype and  *)
(* 5 is posted while the model runs.                                       *)
EXTENDS LiveBackfill, TLC

CONSTANTS general, secret, ann

MCMessages == 1..5

SameChannel   == [m \in MCMessages |-> general]
MCAuthorOf  == [m \in MCMessages |-> ann]
MCParentOf  == [m \in MCMessages |-> IF m = 3 THEN 2 ELSE m]
MCSubtypeOf == [m \in MCMessages |-> IF m = 4 THEN "channel_join" ELSE ""]
=============================================================================
