----------------------------- MODULE MCEventBus -----------------------------
(* Instances of EventBus for TLC. *)
EXTENDS EventBus, TLC

CONSTANTS s1, s2

(* One subscription to ordinary events, one to everything. *)
OneListens == s1 :> {"event"} @@ s2 :> {"event", "dead"}
NewestOldest == s1 :> "DropNewest" @@ s2 :> "DropOldest"
=============================================================================
