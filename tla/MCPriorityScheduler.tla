------------------------ MODULE MCPriorityScheduler ------------------------
(* An instance of PriorityScheduler for TLC: two executions in each of two  *)
(* ranked classes, one in a third and one in a class without weight.        *)
EXTENDS PriorityScheduler, TLC

CONSTANTS c1, c2, n1, n2, b1, u1, critical, normal, background, custom

MCClassOf == c1 :> critical @@ c2 :> critical @@ n1 :> normal @@ n2 :> normal @@ b1 :> background
             @@ u1 :> custom
MCWeight == critical :> 2 @@ normal :> 2 @@ background :> 1
MCRank == critical :> 1 @@ normal :> 2 @@ background :> 3
(* Two providers, each of which has room or not. *)
First == {c1, n1, b1}
Second == {c2, n2, u1}
MCFilters == {First \cup Second, First, Second, {}}
=============================================================================
