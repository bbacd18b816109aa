---------------------------- MODULE DispatchQueue ----------------------------
(***************************************************************************)
(* What the execution manager relies on in its scheduler: a pool from      *)
(* which a dequeue takes some element the caller accepts, and comes back   *)
(* with nothing only if it accepts none.  ExecutionManager uses the queue  *)
(* this way; PriorityScheduler implements it.                              *)
(***************************************************************************)
EXTENDS FiniteSets

CONSTANTS
  Execs,    \* what can be queued
  Filters,  \* the sets of elements a caller may accept
  Served,   \* those whose priority class the scheduler knows
  None      \* the nil result

VARIABLES
  pool,     \* what is queued
  asked,    \* what the dequeue that just happened accepted, {} if none did
  taken     \* its result

Init == pool = {} /\ asked = {} /\ taken = None

Quiet == asked' = {} /\ taken' = None

Add(e) == e \notin pool /\ pool' = pool \cup {e} /\ Quiet

Take(Accepted) ==
  LET choices == pool \cap Accepted \cap Served IN
  /\ asked' = Accepted
  /\ IF choices = {}
       THEN taken' = None /\ UNCHANGED pool
       ELSE \E e \in choices : taken' = e /\ pool' = pool \ {e}

Drop(e) == e \in pool /\ pool' = pool \ {e} /\ Quiet

Next ==
  \/ \E e \in Execs : Add(e) \/ Drop(e)
  \/ \E Accepted \in Filters : Take(Accepted)

Spec == Init /\ [][Next]_<<pool, asked, taken>>
=============================================================================
