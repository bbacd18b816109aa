------------------------------ MODULE EventBus ------------------------------
(***************************************************************************)
(* The in-process event bus of core/events/bus.go.  Publish and the         *)
(* handler goroutines of the subscriptions run concurrently: Publish takes  *)
(* a snapshot of the matching subscriptions under the read lock and then,   *)
(* without it, offers the event to the bounded queue of each.  What cannot  *)
(* be queued or handled becomes a dead letter, itself published by the      *)
(* goroutine that found out.                                                *)
(*                                                                          *)
(* A goroutine's pending calls are its agenda, the innermost first.  Topics *)
(* are of two kinds, those of ordinary events and the dead-letter topic;    *)
(* patterns and predicates decide which kinds a subscription gets (TopicMatch*)
(* has the patterns).                                                       *)
(*                                                                          *)
(* A behaviour ends with the first send that panics.  In the code a panic   *)
(* unwinds the publisher, or, when it hits the letter of a failed handler,  *)
(* is recovered by handleWithRecovery, which publishes the letter anew: all *)
(* that is said below is said of the time before.                           *)
(***************************************************************************)
EXTENDS Integers, Sequences, FiniteSets

CONSTANTS
  Publishers,  \* goroutines that call Publish
  Subs,        \* subscriptions, made and cancelled once
  Wants,       \* [Subs -> SUBSET {"event", "dead"}]
  Policy,      \* [Subs -> {"DropOldest", "DropNewest"}]
  Capacity,    \* queueCapacity
  MaxEvents,   \* bound: events per publisher
  None         \* no event

Events == [kind : {"event"}, from : Publishers, number : 1..MaxEvents]
Letters == [kind : {"dead"}, of : Events, at : Subs]

ASSUME BusAssumption ==
  /\ None \notin Events \cup Letters
  /\ Wants \in [Subs -> SUBSET {"event", "dead"}]
  /\ Policy \in [Subs -> {"DropOldest", "DropNewest"}]
  /\ Capacity \in Nat \ {0} /\ MaxEvents \in Nat
  /\ Publishers \cap Subs = {}

VARIABLES
  sub,        \* each subscription: "new", "live" or "gone" (its queue closed)
  queue,      \* sub.queue
  handling,   \* the event a subscription's goroutine is handling
  agenda,     \* the pending calls of each goroutine
  published,  \* how many events each publisher has published
  due,        \* history: the deliveries <<event, subscription>> that were decided on
  handled,    \* history: the deliveries whose handler returned without error
  dead,       \* history: the deliveries that became dead letters
  panicked    \* a send on a closed channel has panicked

vars == <<sub, queue, handling, agenda, published, due, handled, dead, panicked>>

Actors == Publishers \cup Subs

Event(p, n) == [kind |-> "event", from |-> p, number |-> n]
Letter(ev, s) == [kind |-> "dead", of |-> ev, at |-> s]

(* The calls of an agenda: match and enqueue an event, and the two halves   *)
(* of the DropOldest branch of enqueue.                                     *)
Match(ev)    == [call |-> "match", event |-> ev, to |-> {}]
Send(ev, to) == [call |-> "send", event |-> ev, to |-> to]
Evict(ev, s) == [call |-> "evict", event |-> ev, to |-> {s}]
Retry(ev, s) == [call |-> "retry", event |-> ev, to |-> {s}]

Init ==
  /\ sub = [s \in Subs |-> "new"]
  /\ queue = [s \in Subs |-> <<>>]
  /\ handling = [s \in Subs |-> None]
  /\ agenda = [a \in Actors |-> <<>>]
  /\ published = [p \in Publishers |-> 0]
  /\ due = {} /\ handled = {} /\ dead = {}
  /\ panicked = FALSE

-----------------------------------------------------------------------------
Subscribe(s) ==
  /\ sub[s] = "new"
  /\ sub' = [sub EXCEPT ![s] = "live"]
  /\ UNCHANGED <<queue, handling, agenda, published, due, handled, dead, panicked>>

Unsubscribe(s) ==   \* close(sub.queue) and removal from the table
  /\ sub[s] = "live"
  /\ sub' = [sub EXCEPT ![s] = "gone"]
  /\ UNCHANGED <<queue, handling, agenda, published, due, handled, dead, panicked>>

Publish(p) ==
  /\ agenda[p] = <<>> /\ published[p] < MaxEvents
  /\ published' = [published EXCEPT ![p] = @ + 1]
  /\ agenda' = [agenda EXCEPT ![p] = <<Match(Event(p, published[p] + 1))>>]
  /\ UNCHANGED <<sub, queue, handling, due, handled, dead, panicked>>

-----------------------------------------------------------------------------
(* The next call of goroutine a, replaced by the calls it makes.            *)

Calls(a, call) == agenda[a] # <<>> /\ Head(agenda[a]).call = call
Then(a, calls) == agenda' = [agenda EXCEPT ![a] = calls \o Tail(@)]

(* deadLetter: a dead letter that is lost is not reported.                  *)
DeadLetter(ev, s) == IF ev.kind = "dead" THEN <<>> ELSE <<Match(Letter(ev, s))>>

DoMatch(a) ==   \* getMatchingSubscribers
  /\ Calls(a, "match")
  /\ LET ev == Head(agenda[a]).event
         matching == {s \in Subs : sub[s] = "live" /\ ev.kind \in Wants[s]} IN
     /\ Then(a, IF matching = {} THEN <<>> ELSE <<Send(ev, matching)>>)
     /\ due' = due \cup {<<ev, s>> : s \in matching}
  /\ UNCHANGED <<sub, queue, handling, published, handled, dead, panicked>>

(* enqueue.  A send on a closed channel panics, in a select too.            *)

(* Mutant: the first subscription ends the round. *)
OthersForgotten(a, s) == <<>>

Others(a, s) ==
  LET c == Head(agenda[a]) IN IF c.to = {s} THEN <<>> ELSE <<Send(c.event, c.to \ {s})>>

HasSpace(s) == Len(queue[s]) < Capacity

SendQueued(a, s) ==
  /\ sub[s] = "live" /\ HasSpace(s)
  /\ queue' = [queue EXCEPT ![s] = Append(@, Head(agenda[a]).event)]
  /\ Then(a, Others(a, s))
  /\ UNCHANGED <<dead, panicked>>

SendOverflow(a, s) ==
  LET ev == Head(agenda[a]).event IN
  /\ sub[s] = "live" /\ ~HasSpace(s)
  /\ \/ /\ Policy[s] = "DropNewest"
        /\ Then(a, DeadLetter(ev, s) \o Others(a, s))
        /\ dead' = dead \cup {<<ev, s>>}
     \/ /\ Policy[s] = "DropOldest"
        /\ Then(a, <<Evict(ev, s)>> \o Others(a, s))
        /\ UNCHANGED dead
  /\ UNCHANGED <<queue, panicked>>

SendPanics(s) ==
  /\ sub[s] = "gone"
  /\ panicked' = TRUE
  /\ UNCHANGED <<queue, agenda, dead>>

DoSend(a) ==
  /\ Calls(a, "send")
  /\ \E s \in Head(agenda[a]).to : SendQueued(a, s) \/ SendOverflow(a, s) \/ SendPanics(s)
  /\ UNCHANGED <<sub, handling, published, due, handled>>

(* Mutant: the event that had to make room is offered again after the new one. *)
EvictRotates(a) ==
  /\ Calls(a, "evict")
  /\ \E s \in Head(agenda[a]).to :
       LET ev == Head(agenda[a]).event IN
       IF queue[s] = <<>>
         THEN Then(a, <<Retry(ev, s)>>) /\ UNCHANGED queue
         ELSE /\ queue' = [queue EXCEPT ![s] = Tail(@)]
              /\ Then(a, <<Retry(ev, s), Retry(Head(queue[s]), s)>>)
  /\ UNCHANGED <<sub, handling, published, due, handled, dead, panicked>>

(* The oldest event is taken out and its dead letter published before the   *)
(* new event is offered again.  (From a queue closed meanwhile the receive  *)
(* gives a zero event; the retry then panics.)                              *)
DoEvict(a) ==
  /\ Calls(a, "evict")
  /\ \E s \in Head(agenda[a]).to :
       LET ev == Head(agenda[a]).event IN
       IF queue[s] = <<>>
         THEN Then(a, <<Retry(ev, s)>>) /\ UNCHANGED <<queue, dead>>
         ELSE /\ queue' = [queue EXCEPT ![s] = Tail(@)]
              /\ dead' = dead \cup {<<Head(queue[s]), s>>}
              /\ Then(a, DeadLetter(Head(queue[s]), s) \o <<Retry(ev, s)>>)
  /\ UNCHANGED <<sub, handling, published, due, handled, panicked>>

RetryQueued(a, s) ==
  /\ sub[s] = "live" /\ HasSpace(s)
  /\ queue' = [queue EXCEPT ![s] = Append(@, Head(agenda[a]).event)]
  /\ Then(a, <<>>)
  /\ UNCHANGED <<dead, panicked>>

(* Mutant: the second select has an empty default branch. *)
RetryLoses(a, s) ==
  /\ sub[s] = "live" /\ ~HasSpace(s)
  /\ Then(a, <<>>)
  /\ UNCHANGED <<queue, dead, panicked>>

RetryOverflow(a, s) ==   \* another publisher was faster
  /\ sub[s] = "live" /\ ~HasSpace(s)
  /\ LET ev == Head(agenda[a]).event IN
     /\ dead' = dead \cup {<<ev, s>>}
     /\ Then(a, DeadLetter(ev, s))
  /\ UNCHANGED <<queue, panicked>>

DoRetry(a) ==
  /\ Calls(a, "retry")
  /\ \E s \in Head(agenda[a]).to : RetryQueued(a, s) \/ RetryOverflow(a, s) \/ SendPanics(s)
  /\ UNCHANGED <<sub, handling, published, due, handled>>

-----------------------------------------------------------------------------
(* start: the goroutine ranges over the queue, also after it is closed.     *)

Take(s) ==
  /\ sub[s] # "new" /\ handling[s] = None /\ agenda[s] = <<>> /\ queue[s] # <<>>
  /\ handling' = [handling EXCEPT ![s] = Head(queue[s])]
  /\ queue' = [queue EXCEPT ![s] = Tail(@)]
  /\ UNCHANGED <<sub, agenda, published, due, handled, dead, panicked>>

HandlerSucceeds(s) ==   \* within three attempts
  /\ handling[s] # None
  /\ handled' = handled \cup {<<handling[s], s>>}
  /\ handling' = [handling EXCEPT ![s] = None]
  /\ UNCHANGED <<sub, queue, agenda, published, due, dead, panicked>>

HandlerFails(s) ==   \* three errors, or a panic
  /\ handling[s] # None
  /\ dead' = dead \cup {<<handling[s], s>>}
  /\ handling' = [handling EXCEPT ![s] = None]
  /\ agenda' = [agenda EXCEPT ![s] = DeadLetter(handling[s], s)]
  /\ UNCHANGED <<sub, queue, published, due, handled, panicked>>

-----------------------------------------------------------------------------
Work(a) == DoMatch(a) \/ DoSend(a) \/ DoEvict(a) \/ DoRetry(a)
Handle(s) == Take(s) \/ HandlerSucceeds(s) \/ HandlerFails(s)

Next ==
  /\ ~panicked
  /\ \/ \E s \in Subs : Subscribe(s) \/ Unsubscribe(s) \/ Handle(s)
     \/ \E p \in Publishers : Publish(p)
     \/ \E a \in Actors : Work(a)

Spec == Init /\ [][Next]_vars

(* Goroutines that can run do run, and handlers return. *)
Fairness ==
  /\ \A a \in Actors : WF_vars(~panicked /\ Work(a))
  /\ \A s \in Subs : WF_vars(~panicked /\ Handle(s))

FairSpec == Spec /\ Fairness

-----------------------------------------------------------------------------
(* Where a delivery is: still to be offered by some goroutine, in the       *)
(* queue (once per position), with the handler, handled, or dead.           *)
Offers(ev, s) ==
  [call : {"send", "evict", "retry"}, event : {ev}, to : {to \in SUBSET Subs : s \in to}]
Positions(seq, members) == {k \in DOMAIN seq : seq[k] \in members}
Places(ev, s) ==
  (UNION {{<<"offered", a, k>> : k \in Positions(agenda[a], Offers(ev, s))} : a \in Actors})
  \cup {<<"queued", s, k>> : k \in Positions(queue[s], {ev})}
  \cup (IF handling[s] = ev THEN {<<"handling", s, 0>>} ELSE {})
  \cup (IF <<ev, s>> \in handled THEN {<<"handled", s, 0>>} ELSE {})
  \cup (IF <<ev, s>> \in dead THEN {<<"dead", s, 0>>} ELSE {})

(* No event is lost without a trace and none is delivered twice: every      *)
(* delivery decided on is in exactly one place until it is handled or dead. *)
ExactlyOnePlace ==
  \A d \in due : \E place \in Places(d[1], d[2]) : Places(d[1], d[2]) = {place}

(* A subscription sees the events of one publisher in the order they were   *)
(* published, whatever overflows and whoever else publishes.                *)
Later(ev1, ev2) ==
  ev1.kind = "event" /\ ev2.kind = "event" /\ ev1.from = ev2.from /\ ev1.number > ev2.number
InOrder ==
  \A s \in Subs :
    LET waiting == (IF handling[s] = None THEN <<>> ELSE <<handling[s]>>) \o queue[s] IN
    /\ \A i, j \in DOMAIN waiting : Later(waiting[i], waiting[j]) => i > j
    /\ \A i \in DOMAIN waiting, d \in handled : d[2] = s => ~Later(d[1], waiting[i])

(* Every delivery decided on comes to an end: nobody blocks on a full       *)
(* queue, an overflow of the dead-letter queue breeds no further letters,   *)
(* and what is queued at an Unsubscribe is still handled.                   *)
DeliveriesEnd ==
  \A ev \in Events \cup Letters, s \in Subs :
    <<ev, s>> \in due ~> (<<ev, s>> \in handled \cup dead \/ panicked)

-----------------------------------------------------------------------------
(* "InProcessEventBus is a thread-safe implementation of EventBus"          *)
(* (bus.go:98): a Publish beside an Unsubscribe does not panic.             *)
PublishIsSafe == ~panicked
=============================================================================
