-------------------------- MODULE PriorityScheduler --------------------------
(***************************************************************************)
(* The weighted priority queue of core/execution/scheduler.go.  Every       *)
(* operation holds ps.mu, so each is one step.  A class is served, best     *)
(* class first, while it has credits; when no class with credits has an     *)
(* acceptable execution, all credits are refilled and the classes are tried *)
(* once more in order.  A class outside the table of weights can be queued  *)
(* but is not in the order Dequeue goes through.                            *)
(***************************************************************************)
EXTENDS Integers, Sequences, FiniteSets, Functions

SeqExt == INSTANCE SequencesExt

CONSTANTS
  Execs,     \* the executions
  Classes,   \* the priority classes a request may name
  Ranked,    \* the classes NewPriorityScheduler gives a weight
  Weight,    \* [Ranked -> Nat \ {0}]
  Rank,      \* [Ranked -> Nat], the position in priorityOrder
  ClassOf,   \* [Execs -> Classes], exec.Priority
  Filters,   \* the sets of executions canSchedule may accept
  None       \* nil

ASSUME ClassAssumption ==
  /\ Ranked \subseteq Classes /\ IsFiniteSet(Ranked)
  /\ Weight \in [Ranked -> Nat \ {0}]
  /\ Rank \in [Ranked -> Nat]
  /\ \A c, d \in Ranked : Rank[c] = Rank[d] => c = d
  /\ ClassOf \in [Execs -> Classes]
  /\ Filters \subseteq SUBSET Execs
  /\ None \notin Execs

VARIABLES
  queues,    \* ps.queues, a sequence per class
  credits,   \* ps.currentCredits
  asked,     \* history: what the Dequeue that just happened accepted, else {}
  last,      \* what it returned, else None
  passed     \* history: see CountPassed

vars == <<queues, credits, asked, last, passed>>

Quiet == asked' = {} /\ last' = None

Elements(q) == {q[i] : i \in DOMAIN q}
Contents == UNION {Elements(queues[c]) : c \in Classes}

Init ==
  /\ queues = [c \in Classes |-> <<>>]
  /\ credits = Weight
  /\ asked = {} /\ last = None
  /\ passed = [c \in Ranked |-> 0]

Enqueue(e) ==
  /\ e \notin Contents
  /\ queues' = [queues EXCEPT ![ClassOf[e]] = Append(@, e)]
  /\ Quiet /\ UNCHANGED <<credits, passed>>

(* Remove deletes the execution from whichever queue holds it. *)
Position(q, S) == CHOOSE i \in DOMAIN q : q[i] \in S /\ \A j \in DOMAIN q : q[j] \in S => i <= j
Without(q, i) == SeqExt!RemoveAt(q, i)

Remove(e) ==
  /\ e \in Contents
  /\ LET c == ClassOf[e] IN
     queues' = [queues EXCEPT ![c] = Without(@, Position(@, {e}))]
  /\ Quiet /\ UNCHANGED <<credits, passed>>

-----------------------------------------------------------------------------
(* Dequeue(canSchedule): canSchedule is the set of executions it accepts.   *)
(* The manager's asks whether the execution's provider has room, so a set   *)
(* holds all executions of some providers and none of the others.           *)

HasCandidate(c, Accepted) == Elements(queues[c]) \cap Accepted # {}
Highest(S) == CHOOSE c \in S : \A d \in S : Rank[c] <= Rank[d]

(* How often a class with an acceptable execution has been passed over by  *)
(* another class, without a break.                                         *)
CountPassed(c, Accepted) ==
  passed' = [d \in Ranked |-> IF d # c /\ HasCandidate(d, Accepted) THEN passed[d] + 1 ELSE 0]

(* Mutant: serving costs no credit. *)
FindForFree(c, Accepted, before) ==
  LET i == Position(queues[c], Accepted) IN
  /\ queues' = [queues EXCEPT ![c] = Without(@, i)]
  /\ last' = queues[c][i]
  /\ credits' = before
  /\ CountPassed(c, Accepted)

(* findAndRemove, given the credits before it takes one *)
FindAndRemove(c, Accepted, before) ==
  LET i == Position(queues[c], Accepted) IN
  /\ queues' = [queues EXCEPT ![c] = Without(@, i)]
  /\ last' = queues[c][i]
  /\ credits' = [before EXCEPT ![c] = @ - 1]
  /\ CountPassed(c, Accepted)

Candidates(Accepted) == {c \in Ranked : HasCandidate(c, Accepted)}
Credited(Accepted) == {c \in Candidates(Accepted) : credits[c] > 0}

DequeueCredited(Accepted) ==
  /\ Credited(Accepted) # {}
  /\ FindAndRemove(Highest(Credited(Accepted)), Accepted, credits)

(* Mutant: the credits are refilled but the classes are not tried again. *)
RefillOnly(Accepted) ==
  /\ Credited(Accepted) = {} /\ Candidates(Accepted) # {}
  /\ last' = None /\ credits' = Weight
  /\ UNCHANGED <<queues, passed>>

DequeueRefilled(Accepted) ==
  /\ Credited(Accepted) = {} /\ Candidates(Accepted) # {}
  /\ FindAndRemove(Highest(Candidates(Accepted)), Accepted, Weight)

(* Nothing acceptable: the credits are refilled all the same if anything,   *)
(* acceptable or not and of any class, is queued.                           *)
DequeueNothing(Accepted) ==
  /\ Candidates(Accepted) = {}
  /\ last' = None
  /\ credits' = IF Contents = {} THEN credits ELSE Weight
  /\ passed' = [c \in Ranked |-> 0]
  /\ UNCHANGED queues

Dequeue(Accepted) ==
  /\ asked' = Accepted
  /\ DequeueCredited(Accepted) \/ DequeueRefilled(Accepted) \/ DequeueNothing(Accepted)

Next ==
  \/ \E e \in Execs : Enqueue(e) \/ Remove(e)
  \/ \E Accepted \in Filters : Dequeue(Accepted)

Spec == Init /\ [][Next]_vars

-----------------------------------------------------------------------------
(* Credits stay between zero and the weight, and every execution is queued  *)
(* once, under its own class.                                               *)
TypeOK ==
  /\ queues \in [Classes -> Seq(Execs)]
  /\ \A c \in Classes : \A i, j \in DOMAIN queues[c] :
       /\ ClassOf[queues[c][i]] = c
       /\ queues[c][i] = queues[c][j] => i = j
  /\ credits \in [Ranked -> Nat]
  /\ \A c \in Ranked : credits[c] <= Weight[c]
  /\ asked \in SUBSET Execs
  /\ last \in Execs \cup {None}
  /\ passed \in [Ranked -> Nat]

(* The scheduler is a dispatch queue: in particular Dequeue returns nil     *)
(* only when no queued execution of a ranked class is acceptable, whatever  *)
(* the credits are.                                                         *)
Pool == INSTANCE DispatchQueue WITH
          Served <- {e \in Execs : ClassOf[e] \in Ranked},
          pool <- Contents, taken <- last
ImplementsPool == Pool!Spec

(* No starvation between fruitless dequeues: a class with something         *)
(* acceptable is passed over at most once per credit of the other classes   *)
(* and, after the refill this ends in, once per credit of the better ones.  *)
(* A dequeue that finds nothing refills the credits and starts the count    *)
(* again, so under a full provider the bound says nothing.                  *)
Better(c) == {d \in Ranked : Rank[d] < Rank[c]}
PassBound(c) ==
  SumFunctionOnSet(Weight, Ranked \ {c}) + SumFunctionOnSet(Weight, Better(c))
BoundedBypass == \A c \in Ranked : passed[c] <= PassBound(c)
=============================================================================
