--------------------------- MODULE EventBus_proofs ---------------------------
(***************************************************************************)
(* Theorems about the event bus, for any number of publishers and          *)
(* subscriptions, any capacity and any mixture of overflow policies, and   *)
(* about matchTopic, for every pattern and every topic of any length.      *)
(***************************************************************************)
EXTENDS EventBus, TopicMatch, SequenceTheorems, TLAPS

-----------------------------------------------------------------------------
(* Counting the members of a set in a sequence: none, or exactly one.      *)
Zero(q, T) == \A k \in DOMAIN q : q[k] \notin T
One(q, T) == \E k \in DOMAIN q : q[k] \in T /\ \A l \in DOMAIN q : q[l] \in T => l = k

(* The members of a concatenation are those of its parts.                  *)
LEMMA CountConcat ==
  ASSUME NEW S, NEW u \in Seq(S), NEW v \in Seq(S), NEW T
  PROVE  /\ Zero(u \o v, T) <=> Zero(u, T) /\ Zero(v, T)
         /\ One(u \o v, T) <=> \/ One(u, T) /\ Zero(v, T)
                               \/ Zero(u, T) /\ One(v, T)
<1> DEFINE w == u \o v  m == Len(u)  n == Len(v)
<1>1. /\ m \in Nat /\ n \in Nat /\ DOMAIN u = 1..m /\ DOMAIN v = 1..n /\ DOMAIN w = 1..m + n
      /\ \A k \in 1..m : w[k] = u[k]
      /\ \A k \in 1..n : w[m + k] = v[k]
  <2>1. m \in Nat /\ n \in Nat /\ DOMAIN u = 1..m /\ DOMAIN v = 1..n
    BY LenProperties
  <2>2. /\ w \in Seq(S) /\ Len(w) = m + n
        /\ \A k \in 1..m + n : w[k] = IF k <= m THEN u[k] ELSE v[k - m]
    BY ConcatProperties
  <2> HIDE DEF w, m, n
  <2>3. DOMAIN w = 1..m + n
    BY <2>2, LenProperties
  <2>4. \A k \in 1..m : k \in 1..m + n /\ k <= m
    BY <2>1
  <2>5. \A k \in 1..n : m + k \in 1..m + n /\ ~(m + k <= m) /\ (m + k) - m = k
    BY <2>1
  <2> QED BY <2>1, <2>2, <2>3, <2>4, <2>5
<1> HIDE DEF w, m, n
<1>2. \A k \in 1..m + n : k \in 1..m \/ \E l \in 1..n : k = m + l
  <2> SUFFICES ASSUME NEW k \in 1..m + n, k \notin 1..m PROVE \E l \in 1..n : k = m + l
    OBVIOUS
  <2>1. k - m \in 1..n /\ k = m + (k - m)
    BY <1>1
  <2> QED BY <2>1
<1>3. \A k \in 1..m, l \in 1..n : /\ k \in 1..m + n /\ m + l \in 1..m + n /\ k # m + l
  BY <1>1
<1>4. \A k \in 1..m : k \in 1..m + n
  BY <1>1
<1>5. \A l \in 1..n : m + l \in 1..m + n
  BY <1>1
<1>6. \A k, l \in 1..n : m + k = m + l => k = l
  BY <1>1
<1>7. Zero(w, T) <=> Zero(u, T) /\ Zero(v, T)
  <2>1. ASSUME Zero(w, T) PROVE Zero(u, T) /\ Zero(v, T)
    <3>1. \A k \in 1..m : u[k] \notin T
      BY <1>1, <1>4, <2>1 DEF Zero
    <3>2. \A k \in 1..n : v[k] \notin T
      BY <1>1, <1>5, <2>1 DEF Zero
    <3> QED BY <1>1, <3>1, <3>2 DEF Zero
  <2>2. ASSUME Zero(u, T), Zero(v, T) PROVE Zero(w, T)
    <3>1. \A k \in 1..m + n : w[k] \notin T
      BY <1>1, <1>2, <2>2 DEF Zero
    <3> QED BY <1>1, <3>1 DEF Zero
  <2> QED BY <2>1, <2>2
<1>8. ASSUME One(w, T) PROVE (One(u, T) /\ Zero(v, T)) \/ (Zero(u, T) /\ One(v, T))
  <2>1. PICK k \in 1..m + n : w[k] \in T /\ \A l \in 1..m + n : w[l] \in T => l = k
    BY <1>1, <1>8 DEF One
  <2>2. CASE k \in 1..m
    <3>1. u[k] \in T /\ \A l \in 1..m : u[l] \in T => l = k
      BY <1>1, <1>4, <2>1, <2>2
    <3>2. \A l \in 1..n : v[l] \notin T
      BY <1>1, <1>3, <1>5, <2>1, <2>2
    <3> QED BY <1>1, <2>2, <3>1, <3>2 DEF One, Zero
  <2>3. CASE k \notin 1..m
    <3>1. PICK j \in 1..n : k = m + j
      BY <1>2, <2>3
    <3>2. v[j] \in T /\ \A l \in 1..n : v[l] \in T => l = j
      BY <1>1, <1>5, <1>6, <2>1, <3>1
    <3>3. \A l \in 1..m : u[l] \notin T
      BY <1>1, <1>3, <1>4, <2>1, <3>1
    <3> QED BY <1>1, <3>2, <3>3 DEF One, Zero
  <2> QED BY <2>2, <2>3
<1>9. ASSUME One(u, T), Zero(v, T) PROVE One(w, T)
  <2>1. PICK k \in 1..m : u[k] \in T /\ \A l \in 1..m : u[l] \in T => l = k
    BY <1>1, <1>9 DEF One
  <2>2. \A l \in 1..m + n : w[l] \in T => l = k
    BY <1>1, <1>2, <1>9, <2>1 DEF Zero
  <2> QED BY <1>1, <1>4, <2>1, <2>2 DEF One
<1>10. ASSUME Zero(u, T), One(v, T) PROVE One(w, T)
  <2>1. PICK k \in 1..n : v[k] \in T /\ \A l \in 1..n : v[l] \in T => l = k
    BY <1>1, <1>10 DEF One
  <2>2. \A l \in 1..m + n : w[l] \in T => l = m + k
    BY <1>1, <1>2, <1>10, <2>1 DEF Zero
  <2> QED BY <1>1, <1>5, <2>1, <2>2 DEF One
<1> QED BY <1>7, <1>8, <1>9, <1>10 DEF w

(* Sequences of no and of one element.                                     *)
LEMMA CountEmpty == ASSUME NEW T PROVE Zero(<<>>, T) /\ ~One(<<>>, T)
BY SMT DEF Zero, One

(* One element: it is in T or it is not.                                   *)
LEMMA CountShort ==
  ASSUME NEW x, NEW T
  PROVE  (Zero(<<x>>, T) <=> x \notin T) /\ (One(<<x>>, T) <=> x \in T)
BY SMT DEF Zero, One

(* There cannot be both none and one.                                      *)
LEMMA ZeroNotOne == ASSUME NEW q, NEW T PROVE ~(Zero(q, T) /\ One(q, T))
BY DEF Zero, One

(* A sequence is its head and its tail.                                    *)
LEMMA HeadAndTail ==
  ASSUME NEW S, NEW s \in Seq(S), s # <<>>
  PROVE  Head(s) \in S /\ Tail(s) \in Seq(S) /\ <<Head(s)>> \in Seq(S) /\ <<Head(s)>> \o Tail(s) = s
<1>1. Head(s) \in S /\ Tail(s) \in Seq(S) /\ Len(Tail(s)) = Len(s) - 1 /\ Len(s) \in Nat \ {0}
      /\ Head(s) = s[1] /\ \A k \in 1..Len(Tail(s)) : Tail(s)[k] = s[k + 1]
  BY HeadTailProperties, EmptySeq, LenProperties
<1>2. <<Head(s)>> \in Seq(S) /\ Len(<<Head(s)>>) = 1 /\ <<Head(s)>>[1] = Head(s)
  BY <1>1
<1> DEFINE t == <<Head(s)>> \o Tail(s)
<1>3. /\ t \in Seq(S) /\ Len(t) = 1 + Len(Tail(s))
      /\ \A k \in 1..1 + Len(Tail(s)) :
           t[k] = IF k <= 1 THEN <<Head(s)>>[k] ELSE Tail(s)[k - 1]
  BY <1>1, <1>2, ConcatProperties
<1> HIDE DEF t
<1>4. ASSUME NEW k \in 1..Len(t) PROVE t[k] = s[k]
  <2>1. CASE k = 1
    BY <1>1, <1>2, <1>3, <2>1
  <2>2. CASE k # 1
    BY <1>1, <1>3, <2>2
  <2> QED BY <2>1, <2>2
<1>5. Len(t) = Len(s)
  BY <1>1, <1>3
<1>6. t = s
  BY <1>3, <1>4, <1>5, SeqEqual
<1> QED BY <1>1, <1>2, <1>6 DEF t

(* Taking the head out.                                                    *)
LEMMA CountTail ==
  ASSUME NEW S, NEW q \in Seq(S), q # <<>>, NEW T
  PROVE  /\ Zero(q, T) <=> Head(q) \notin T /\ Zero(Tail(q), T)
         /\ One(q, T) <=> IF Head(q) \in T THEN Zero(Tail(q), T) ELSE One(Tail(q), T)
<1>1. Tail(q) \in Seq(S) /\ <<Head(q)>> \in Seq(S) /\ <<Head(q)>> \o Tail(q) = q
  BY HeadAndTail
<1>2. /\ Zero(<<Head(q)>> \o Tail(q), T) <=> Zero(<<Head(q)>>, T) /\ Zero(Tail(q), T)
      /\ One(<<Head(q)>> \o Tail(q), T) <=> \/ One(<<Head(q)>>, T) /\ Zero(Tail(q), T)
                                            \/ Zero(<<Head(q)>>, T) /\ One(Tail(q), T)
  BY <1>1, CountConcat
<1> QED BY <1>1, <1>2, CountShort

(* Appending.                                                              *)
LEMMA CountAppend ==
  ASSUME NEW S, NEW q \in Seq(S), NEW x \in S, NEW T
  PROVE  /\ Zero(Append(q, x), T) <=> x \notin T /\ Zero(q, T)
         /\ One(Append(q, x), T) <=> IF x \in T THEN Zero(q, T) ELSE One(q, T)
<1>1. <<x>> \in Seq(S) /\ Append(q, x) = q \o <<x>>
  BY AppendIsConcat
<1>2. /\ Zero(q \o <<x>>, T) <=> Zero(q, T) /\ Zero(<<x>>, T)
      /\ One(q \o <<x>>, T) <=> \/ One(q, T) /\ Zero(<<x>>, T)
                                \/ Zero(q, T) /\ One(<<x>>, T)
  BY <1>1, CountConcat
<1> QED BY <1>1, <1>2, CountShort

-----------------------------------------------------------------------------
AllEvents == Events \cup Letters

(* The calls an agenda can hold.                                           *)
Pending ==
  [call : {"match"}, event : AllEvents, to : {{}}]
  \cup [call : {"send"}, event : AllEvents, to : SUBSET Subs]
  \cup [call : {"evict", "retry"}, event : AllEvents, to : {{s} : s \in Subs}]

MatchesOf(ev) == [call : {"match"}, event : {ev}, to : {{}}]

BusType ==
  /\ queue \in [Subs -> Seq(AllEvents)]
  /\ handling \in [Subs -> AllEvents \cup {None}]
  /\ agenda \in [Actors -> Seq(Pending)]
  /\ published \in [Publishers -> 0..MaxEvents]
  /\ due \subseteq AllEvents \X Subs
  /\ handled \subseteq AllEvents \X Subs

(* An ordinary event is only on the agenda of the goroutine that published *)
(* it, and is the last one it published.                                   *)
Strays(a) == {c \in Pending : /\ c.event.kind = "event"
                              /\ ~(c.event.from = a /\ c.event.number = published[c.event.from])}
OwnEvents == \A a \in Actors : Zero(agenda[a], Strays(a))

(* A call is an offer of its event to its subscriptions, unless it is a    *)
(* match.                                                                  *)
LEMMA CallKinds ==
  ASSUME NEW c \in Pending
  PROVE  /\ c.event \in AllEvents /\ c.to \in SUBSET Subs
         /\ \A ev, s : c \in Offers(ev, s) <=> c.call # "match" /\ c.event = ev /\ s \in c.to
         /\ \A ev : c \in MatchesOf(ev) <=> c.call = "match" /\ c.event = ev
         /\ c.call \in {"evict", "retry"} => \E t \in Subs : c.to = {t}
<1>1. CASE c \in [call : {"match"}, event : AllEvents, to : {{}}]
  BY <1>1 DEF Offers, MatchesOf
<1>2. CASE c \in [call : {"send"}, event : AllEvents, to : SUBSET Subs]
  BY <1>2 DEF Offers, MatchesOf
<1>3. CASE c \in [call : {"evict", "retry"}, event : AllEvents, to : {{t} : t \in Subs}]
  BY <1>3 DEF Offers, MatchesOf
<1> QED BY <1>1, <1>2, <1>3 DEF Pending

(* The calls the code makes.                                               *)
LEMMA CallsMade ==
  ASSUME NEW ev \in AllEvents
  PROVE  /\ Match(ev) \in Pending /\ Match(ev).call = "match" /\ Match(ev).event = ev
         /\ \A to \in SUBSET Subs : /\ Send(ev, to) \in Pending /\ Send(ev, to).call = "send"
                                   /\ Send(ev, to).event = ev /\ Send(ev, to).to = to
         /\ \A s \in Subs : /\ Evict(ev, s) \in Pending /\ Evict(ev, s).call = "evict"
                            /\ Evict(ev, s).event = ev /\ Evict(ev, s).to = {s}
                            /\ Retry(ev, s) \in Pending /\ Retry(ev, s).call = "retry"
                            /\ Retry(ev, s).event = ev /\ Retry(ev, s).to = {s}
<1>1. Match(ev) \in Pending /\ Match(ev).call = "match" /\ Match(ev).event = ev
  BY DEF Match, Pending
<1>2. ASSUME NEW to \in SUBSET Subs
      PROVE  /\ Send(ev, to) \in Pending /\ Send(ev, to).call = "send"
             /\ Send(ev, to).event = ev /\ Send(ev, to).to = to
  BY DEF Send, Pending
<1>3. ASSUME NEW s \in Subs
      PROVE  /\ Evict(ev, s) \in Pending /\ Evict(ev, s).call = "evict"
             /\ Evict(ev, s).event = ev /\ Evict(ev, s).to = {s}
             /\ Retry(ev, s) \in Pending /\ Retry(ev, s).call = "retry"
             /\ Retry(ev, s).event = ev /\ Retry(ev, s).to = {s}
  BY DEF Evict, Retry, Pending
<1> QED BY <1>1, <1>2, <1>3

(* An event is ordinary or a letter, and a letter is about an ordinary one.*)
LEMMA EventKinds ==
  ASSUME NEW ev \in AllEvents
  PROVE  /\ ev.kind = "event" <=> ev \in Events
         /\ ev.kind = "dead" <=> ev \in Letters
         /\ ev \in Events => ev.from \in Publishers /\ ev.number \in 1..MaxEvents
                              /\ ev = Event(ev.from, ev.number)
         /\ ev \in Letters => ev.of \in Events /\ ev.at \in Subs /\ ev = Letter(ev.of, ev.at)
         /\ ev # None
<1>1. CASE ev \in Events
  BY <1>1, BusAssumption DEF Events, Letters, Event, AllEvents
<1>2. CASE ev \in Letters
  BY <1>2, BusAssumption DEF Events, Letters, Letter, AllEvents
<1> QED BY <1>1, <1>2 DEF AllEvents

(* A letter is of an event and about a subscription.                       *)
LEMMA NewLetter ==
  ASSUME NEW ev \in Events, NEW s \in Subs
  PROVE  /\ Letter(ev, s) \in Letters /\ Letter(ev, s).of = ev /\ Letter(ev, s).at = s
         /\ Letter(ev, s).kind = "dead"
BY DEF Letter, Letters

-----------------------------------------------------------------------------
(* Counting over all agendas.                                              *)
NowhereIn(T) == \A a \in Actors : Zero(agenda[a], T)
OnceIn(T) == \E a \in Actors : One(agenda[a], T) /\ \A b \in Actors \ {a} : Zero(agenda[b], T)

(* No call, or one.                                                        *)
LEMMA NotBoth == ASSUME NEW T PROVE ~(NowhereIn(T) /\ OnceIn(T))
BY ZeroNotOne DEF NowhereIn, OnceIn

(* When a goroutine replaces its next call by the calls it makes.          *)
LEMMA ThenCounts ==
  ASSUME BusType, NEW a \in Actors, agenda[a] # <<>>, NEW calls \in Seq(Pending), Then(a, calls)
  PROVE  /\ agenda' \in [Actors -> Seq(Pending)]
         /\ Head(agenda[a]) \in Pending
         /\ \A b \in Actors \ {a} : agenda'[b] = agenda[b]
         /\ \A T : Zero(calls, T) /\ Zero(agenda[a], T) => Zero(agenda'[a], T)
         /\ \A T : Head(agenda[a]) \in T => ~NowhereIn(T)
         /\ \A T : Head(agenda[a]) \in T /\ Zero(calls, T) /\ OnceIn(T) => NowhereIn(T)'
         /\ \A T : Head(agenda[a]) \in T /\ One(calls, T) /\ OnceIn(T) => OnceIn(T)'
         /\ \A T : Head(agenda[a]) \notin T /\ Zero(calls, T) =>
                  (NowhereIn(T)' <=> NowhereIn(T)) /\ (OnceIn(T)' <=> OnceIn(T))
         /\ \A T : Head(agenda[a]) \notin T /\ One(calls, T) /\ NowhereIn(T) => OnceIn(T)'
<1> DEFINE h == Head(agenda[a])  t == Tail(agenda[a])
<1>1. agenda[a] \in Seq(Pending) /\ h \in Pending /\ t \in Seq(Pending)
  BY HeadAndTail DEF BusType
<1>2. agenda' = [agenda EXCEPT ![a] = calls \o t]
  BY DEF Then
<1>3. calls \o t \in Seq(Pending)
  BY <1>1, ConcatProperties
<1>4. agenda'[a] = calls \o t /\ \A b \in Actors \ {a} : agenda'[b] = agenda[b]
  BY <1>2 DEF BusType
<1>5. agenda' \in [Actors -> Seq(Pending)]
  BY <1>2, <1>3 DEF BusType
<1> HIDE DEF h, t
<1>6. ASSUME NEW T
      PROVE  /\ Zero(agenda'[a], T) <=> Zero(calls, T) /\ Zero(t, T)
             /\ One(agenda'[a], T) <=> (One(calls, T) /\ Zero(t, T)) \/ (Zero(calls, T) /\ One(t, T))
             /\ Zero(agenda[a], T) <=> h \notin T /\ Zero(t, T)
             /\ One(agenda[a], T) <=> IF h \in T THEN Zero(t, T) ELSE One(t, T)
  <2>1. /\ Zero(agenda'[a], T) <=> Zero(calls, T) /\ Zero(t, T)
        /\ One(agenda'[a], T) <=> (One(calls, T) /\ Zero(t, T)) \/ (Zero(calls, T) /\ One(t, T))
    BY <1>1, <1>4, CountConcat
  <2>2. /\ Zero(agenda[a], T) <=> h \notin T /\ Zero(t, T)
        /\ One(agenda[a], T) <=> IF h \in T THEN Zero(t, T) ELSE One(t, T)
    BY <1>1, CountTail DEF h, t
  <2> QED BY <2>1, <2>2
<1>7. ASSUME NEW T, h \in T
      PROVE  /\ ~NowhereIn(T)
             /\ OnceIn(T) => Zero(t, T) /\ \A b \in Actors \ {a} : Zero(agenda[b], T)
  <2>1. ~Zero(agenda[a], T) /\ (One(agenda[a], T) => Zero(t, T))
    BY <1>6, <1>7
  <2> QED BY <2>1 DEF NowhereIn, OnceIn
<1>8. ASSUME NEW T, h \in T, Zero(calls, T) PROVE OnceIn(T) => NowhereIn(T)'
  BY <1>4, <1>6, <1>7, <1>8 DEF NowhereIn
<1>9. ASSUME NEW T, h \in T, One(calls, T) PROVE OnceIn(T) => OnceIn(T)'
  BY <1>4, <1>6, <1>7, <1>9 DEF OnceIn
<1>10. ASSUME NEW T, h \notin T, Zero(calls, T)
       PROVE  (NowhereIn(T)' <=> NowhereIn(T)) /\ (OnceIn(T)' <=> OnceIn(T))
  <2>1. /\ Zero(agenda'[a], T) <=> Zero(agenda[a], T)
        /\ One(agenda'[a], T) <=> One(agenda[a], T)
    BY <1>6, <1>10, ZeroNotOne
  <2>2. ASSUME NEW b \in Actors
        PROVE  /\ Zero(agenda'[b], T) <=> Zero(agenda[b], T)
               /\ One(agenda'[b], T) <=> One(agenda[b], T)
    <3>1. CASE b = a
      BY <2>1, <3>1
    <3>2. CASE b # a
      BY <1>4, <3>2
    <3> QED BY <3>1, <3>2
  <2>3. NowhereIn(T)' <=> NowhereIn(T)
    BY <2>2 DEF NowhereIn
  <2>4. ASSUME OnceIn(T) PROVE OnceIn(T)'
    BY <2>2, <2>4 DEF OnceIn
  <2>5. ASSUME OnceIn(T)' PROVE OnceIn(T)
    BY <2>2, <2>5 DEF OnceIn
  <2> QED BY <2>3, <2>4, <2>5
<1>11. ASSUME NEW T, h \notin T, One(calls, T) PROVE NowhereIn(T) => OnceIn(T)'
  BY <1>4, <1>6, <1>11 DEF NowhereIn, OnceIn
<1>12. \A T : Zero(calls, T) /\ Zero(agenda[a], T) => Zero(agenda'[a], T)
  BY <1>6
<1> QED BY <1>1, <1>4, <1>5, <1>7, <1>8, <1>9, <1>10, <1>11, <1>12 DEF h

(* What the calls made offer and match.                                    *)
LEMMA CountDeadLetter ==
  ASSUME NEW ev \in AllEvents, NEW s \in Subs
  PROVE  /\ DeadLetter(ev, s) \in Seq(Pending)
         /\ \A e, t : Zero(DeadLetter(ev, s), Offers(e, t))
         /\ \A a \in Actors : Zero(DeadLetter(ev, s), Strays(a))
         /\ \A e \in AllEvents :
              IF ev \in Events /\ e = Letter(ev, s) THEN One(DeadLetter(ev, s), MatchesOf(e))
                                                   ELSE Zero(DeadLetter(ev, s), MatchesOf(e))
<1>1. CASE ev \in Letters
  <2>1. DeadLetter(ev, s) = <<>> /\ ev \notin Events
    BY <1>1, EventKinds DEF DeadLetter, Events, Letters
  <2> QED BY <2>1, EmptySeq, CountEmpty
<1>2. CASE ev \in Events
  <2> DEFINE l == Letter(ev, s)
  <2>1. l \in AllEvents /\ l.kind = "dead"
    BY <1>2, NewLetter DEF AllEvents
  <2>2. DeadLetter(ev, s) = <<Match(l)>>
    BY <1>2 DEF DeadLetter, Events
  <2>3. Match(l) \in Pending /\ Match(l).call = "match" /\ Match(l).event = l
    BY <2>1, CallsMade
  <2> HIDE DEF l
  <2>4. \A e, t : Match(l) \notin Offers(e, t)
    BY <2>3, CallKinds
  <2>5. \A a \in Actors : Match(l) \notin Strays(a)
    BY <2>1, <2>3 DEF Strays
  <2>6. \A e \in AllEvents : Match(l) \in MatchesOf(e) <=> e = l
    BY <2>3, CallKinds
  <2>7. <<Match(l)>> \in Seq(Pending)
    BY <2>3
  <2> QED BY <1>2, <2>2, <2>4, <2>5, <2>6, <2>7, CountShort DEF l
<1> QED BY <1>1, <1>2 DEF AllEvents

(* One call is counted as it is.                                           *)
LEMMA CountCall ==
  ASSUME NEW c \in Pending
  PROVE  /\ <<c>> \in Seq(Pending)
         /\ \A T : (Zero(<<c>>, T) <=> c \notin T) /\ (One(<<c>>, T) <=> c \in T)
<1>1. <<c>> \in Seq(Pending)
  OBVIOUS
<1>2. ASSUME NEW T PROVE (Zero(<<c>>, T) <=> c \notin T) /\ (One(<<c>>, T) <=> c \in T)
  BY CountShort
<1> QED BY <1>1, <1>2

(* The rest of a round: the other subscriptions are still to be offered.   *)
LEMMA CountOthers ==
  ASSUME BusType, NEW a \in Actors, Calls(a, "send"), NEW s \in Head(agenda[a]).to
  PROVE  /\ Others(a, s) \in Seq(Pending)
         /\ \A e, t :
              IF Head(agenda[a]) \in Offers(e, t) /\ t # s THEN One(Others(a, s), Offers(e, t))
                                                        ELSE Zero(Others(a, s), Offers(e, t))
         /\ \A e : Zero(Others(a, s), MatchesOf(e))
         /\ Head(agenda[a]) \notin Strays(a) => Zero(Others(a, s), Strays(a))
<1> DEFINE c == Head(agenda[a])
<1>1. c \in Pending /\ c.call = "send"
  BY HeadAndTail DEF BusType, Calls
<1>2. c.event \in AllEvents /\ c.to \in SUBSET Subs
      /\ \A e, t : c \in Offers(e, t) <=> c.event = e /\ t \in c.to
  BY <1>1, CallKinds
<1>3. Others(a, s) = IF c.to = {s} THEN <<>> ELSE <<Send(c.event, c.to \ {s})>>
  BY DEF Others
<1> HIDE DEF c
<1>4. CASE c.to = {s}
  BY <1>2, <1>3, <1>4, EmptySeq, CountEmpty DEF c
<1>5. CASE c.to # {s}
  <2> DEFINE d == Send(c.event, c.to \ {s})
  <2>1. d \in Pending /\ d.call = "send" /\ d.event = c.event /\ d.to = c.to \ {s}
    BY <1>2, CallsMade
  <2>2. Others(a, s) = <<d>>
    BY <1>3, <1>5
  <2> HIDE DEF d
  <2>3. \A e, t : d \in Offers(e, t) <=> c.event = e /\ t \in c.to /\ t # s
    BY <2>1, CallKinds
  <2>4. \A e : d \notin MatchesOf(e)
    BY <2>1, CallKinds
  <2>5. c \notin Strays(a) => d \notin Strays(a)
    BY <1>1, <2>1 DEF Strays
  <2> QED BY <1>2, <2>1, <2>2, <2>3, <2>4, <2>5, CountCall DEF c
<1> QED BY <1>4, <1>5

-----------------------------------------------------------------------------
(* The order of what waits at a subscription.                              *)
Ahead == {e \in AllEvents : e.kind = "event" /\ e.number > published[e.from]}

QueueInOrder(s) ==
  \A k, l \in DOMAIN queue[s] : Later(queue[s][k], queue[s][l]) => k > l
HandlingIsFirst(s) ==
  handling[s] # None => \A l \in DOMAIN queue[s] : ~Later(handling[s], queue[s][l])
HandledBefore(s) ==
  \A d \in handled : d[2] = s =>
    /\ \A l \in DOMAIN queue[s] : ~Later(d[1], queue[s][l])
    /\ handling[s] # None => ~Later(d[1], handling[s])

OrderInv ==
  /\ \A s \in Subs : Zero(queue[s], Ahead) /\ handling[s] \notin Ahead
  /\ \A d \in handled : d[1] \notin Ahead
  /\ \A s \in Subs : QueueInOrder(s) /\ HandlingIsFirst(s) /\ HandledBefore(s)

(* Nothing at a subscription is later than an event offered to it: the     *)
(* publisher has published nothing since.                                  *)
LEMMA Enqueue ==
  ASSUME BusType, OrderInv, NEW ev \in AllEvents, NEW s \in Subs,
         ev.kind = "event" => ev.number = published[ev.from],
         queue' = [queue EXCEPT ![s] = Append(@, ev)],
         UNCHANGED <<handling, published, handled>>
  PROVE  OrderInv' /\ queue' \in [Subs -> Seq(AllEvents)]
<1>1. /\ queue[s] \in Seq(AllEvents) /\ queue'[s] = Append(queue[s], ev)
      /\ \A t \in Subs \ {s} : queue'[t] = queue[t]
  BY DEF BusType
<1> DEFINE q == queue[s]  n == Len(queue[s])
<1>2. /\ queue'[s] \in Seq(AllEvents) /\ n \in Nat /\ DOMAIN q = 1..n
      /\ DOMAIN queue'[s] = 1..n + 1
      /\ queue'[s][n + 1] = ev /\ \A k \in 1..n : queue'[s][k] = q[k]
  BY <1>1, AppendProperties, LenProperties
<1>3. queue' \in [Subs -> Seq(AllEvents)]
  BY <1>1, <1>2 DEF BusType
<1>4. \A e : e.kind = "event" /\ e \in AllEvents /\ e \notin Ahead => ~Later(e, ev)
  <2> SUFFICES ASSUME NEW e \in AllEvents, e.kind = "event", e \notin Ahead, Later(e, ev) PROVE FALSE
    OBVIOUS
  <2>1. e.from \in Publishers /\ e.number \in Nat /\ published[e.from] \in Nat
    BY EventKinds, BusAssumption DEF BusType
  <2>2. e.number <= published[e.from]
    BY <2>1 DEF Ahead
  <2>3. e.from = ev.from /\ ev.kind = "event" /\ e.number > ev.number
    BY DEF Later
  <2> QED BY <2>1, <2>2, <2>3
<1>5. \A e \in AllEvents : e \notin Ahead => ~Later(e, ev)
  BY <1>4 DEF Later
<1>6. \A k \in 1..n : q[k] \in AllEvents /\ q[k] \notin Ahead
  BY <1>1, <1>2, ElementOfSeq DEF OrderInv, Zero
<1>7. ev \notin Ahead
  BY EventKinds, BusAssumption DEF Ahead, BusType
<1>8. \A k \in 1..n + 1 : k \in 1..n \/ k = n + 1
  BY <1>2
<1> HIDE DEF q, n
<1>9. Ahead' = Ahead
  BY DEF Ahead
<1>10. \A t \in Subs : Zero(queue[t], Ahead)' /\ (handling[t] \notin Ahead)'
  <2>1. \A k \in 1..n + 1 : queue'[s][k] \notin Ahead
    BY <1>2, <1>6, <1>7, <1>8
  <2> QED BY <1>1, <1>2, <1>9, <2>1 DEF OrderInv, Zero
<1>11. QueueInOrder(s)'
  <2> SUFFICES ASSUME NEW k \in 1..n + 1, NEW l \in 1..n + 1, Later(queue'[s][k], queue'[s][l])
               PROVE  k > l
    BY <1>2 DEF QueueInOrder
  <2>1. CASE k \in 1..n /\ l \in 1..n
    BY <1>2, <2>1 DEF OrderInv, QueueInOrder, q
  <2>2. CASE k \in 1..n /\ l = n + 1
    BY <1>2, <1>5, <1>6, <2>2
  <2>3. CASE k = n + 1 /\ l \in 1..n
    BY <1>2, <2>3
  <2>4. CASE k = n + 1 /\ l = n + 1
    <3>1. Later(ev, ev)
      BY <1>2, <2>4
    <3> QED BY <1>5, <1>7, <3>1
  <2> QED BY <1>8, <2>1, <2>2, <2>3, <2>4
<1>12. HandlingIsFirst(s)'
  <2> SUFFICES ASSUME handling[s] # None, NEW l \in 1..n + 1 PROVE ~Later(handling[s], queue'[s][l])
    BY <1>2 DEF HandlingIsFirst
  <2>1. CASE l \in 1..n
    BY <1>2, <2>1 DEF OrderInv, HandlingIsFirst, q
  <2>2. CASE l = n + 1
    BY <1>2, <1>5, <2>2 DEF OrderInv, BusType
  <2> QED BY <1>8, <2>1, <2>2
<1>13. HandledBefore(s)'
  <2> SUFFICES ASSUME NEW d \in handled, d[2] = s
               PROVE  /\ \A l \in 1..n + 1 : ~Later(d[1], queue'[s][l])
                      /\ handling[s] # None => ~Later(d[1], handling[s])
    BY <1>2 DEF HandledBefore
  <2>1. \A l \in 1..n : ~Later(d[1], queue'[s][l])
    BY <1>2 DEF OrderInv, HandledBefore, q
  <2>2. ~Later(d[1], queue'[s][n + 1])
    BY <1>2, <1>5 DEF OrderInv, BusType
  <2>3. handling[s] # None => ~Later(d[1], handling[s])
    BY DEF OrderInv, HandledBefore
  <2> QED BY <1>8, <2>1, <2>2, <2>3
<1>14. \A t \in Subs \ {s} : (QueueInOrder(t) /\ HandlingIsFirst(t) /\ HandledBefore(t))'
  BY <1>1 DEF OrderInv, QueueInOrder, HandlingIsFirst, HandledBefore
<1>15. \A d \in handled' : (d[1] \notin Ahead)'
  BY <1>9 DEF OrderInv
<1> QED BY <1>3, <1>10, <1>11, <1>12, <1>13, <1>14, <1>15 DEF OrderInv

(* What is behind the head of a queue stays in order.                      *)
LEMMA Dequeue ==
  ASSUME BusType, OrderInv, NEW s \in Subs, queue[s] # <<>>,
         queue' = [queue EXCEPT ![s] = Tail(@)]
  PROVE  /\ queue' \in [Subs -> Seq(AllEvents)]
         /\ Head(queue[s]) \in AllEvents /\ Head(queue[s]) \notin Ahead
         /\ \A t \in Subs \ {s} : queue'[t] = queue[t]
         /\ \A l \in DOMAIN queue'[s] : /\ ~Later(Head(queue[s]), queue'[s][l])
                                        /\ queue'[s][l] \notin Ahead
                                        /\ \E k \in DOMAIN queue[s] : queue'[s][l] = queue[s][k]
         /\ QueueInOrder(s)'
         /\ \A d \in handled : d[2] = s => ~Later(d[1], Head(queue[s]))
<1> DEFINE q == queue[s]  n == Len(queue[s])
<1>1. /\ q \in Seq(AllEvents) /\ q # <<>> /\ queue'[s] = Tail(q)
      /\ \A t \in Subs \ {s} : queue'[t] = queue[t]
  BY DEF BusType
<1>2. /\ Tail(q) \in Seq(AllEvents) /\ n \in Nat \ {0} /\ DOMAIN q = 1..n /\ Len(Tail(q)) = n - 1
      /\ DOMAIN Tail(q) = 1..Len(Tail(q)) /\ Head(q) = q[1] /\ Head(q) \in AllEvents
      /\ \A l \in 1..Len(Tail(q)) : Tail(q)[l] = q[l + 1]
  BY <1>1, HeadTailProperties, LenProperties, EmptySeq
<1>3. queue' \in [Subs -> Seq(AllEvents)]
  BY <1>2 DEF BusType
<1> HIDE DEF q, n
<1>4. \A l \in 1..Len(Tail(q)) : l + 1 \in 1..n /\ ~(1 > l + 1)
  BY <1>2
<1>5. \A k \in 1..n : q[k] \notin Ahead
  BY <1>2 DEF OrderInv, Zero, q
<1>6. 1 \in 1..n
  BY <1>2
<1>7. \A k, l \in 1..n : Later(q[k], q[l]) => k > l
  BY <1>2 DEF OrderInv, QueueInOrder, q
<1>8. \A l \in 1..Len(Tail(q)) : ~Later(q[1], Tail(q)[l])
  BY <1>2, <1>4, <1>6, <1>7
<1>9. QueueInOrder(s)'
  <2> SUFFICES ASSUME NEW k \in 1..Len(Tail(q)), NEW l \in 1..Len(Tail(q)), Later(Tail(q)[k], Tail(q)[l])
               PROVE  k > l
    BY <1>1, <1>2 DEF QueueInOrder
  <2>1. k + 1 > l + 1
    BY <1>2, <1>4, <1>7
  <2> QED BY <2>1
<1>10. \A d \in handled : d[2] = s => ~Later(d[1], q[1])
  BY <1>2, <1>6 DEF OrderInv, HandledBefore, q
<1> QED BY <1>1, <1>2, <1>3, <1>4, <1>5, <1>6, <1>8, <1>9, <1>10 DEF q

(* Evicting.                                                               *)
LEMMA EvictOrder ==
  ASSUME BusType, OrderInv, NEW s \in Subs, queue[s] # <<>>,
         queue' = [queue EXCEPT ![s] = Tail(@)], UNCHANGED <<handling, published, handled>>
  PROVE  OrderInv' /\ queue' \in [Subs -> Seq(AllEvents)]
<1>1. Ahead' = Ahead
  BY DEF Ahead
<1>2. \A t \in Subs : Zero(queue[t], Ahead)' /\ (handling[t] \notin Ahead)'
  BY <1>1, Dequeue DEF OrderInv, Zero
<1>3. HandlingIsFirst(s)' /\ HandledBefore(s)'
  <2>1. \A l \in DOMAIN queue'[s] : \E k \in DOMAIN queue[s] : queue'[s][l] = queue[s][k]
    BY Dequeue
  <2>2. HandlingIsFirst(s)'
    BY <2>1 DEF OrderInv, HandlingIsFirst
  <2>3. HandledBefore(s)'
    BY <2>1 DEF OrderInv, HandledBefore
  <2> QED BY <2>2, <2>3
<1>4. \A t \in Subs \ {s} : (QueueInOrder(t) /\ HandlingIsFirst(t) /\ HandledBefore(t))'
  BY Dequeue DEF OrderInv, QueueInOrder, HandlingIsFirst, HandledBefore
<1> QED BY <1>1, <1>2, <1>3, <1>4, Dequeue DEF OrderInv

(* The goroutine of a subscription takes the oldest event.                 *)
LEMMA TakeOrder ==
  ASSUME BusType, OrderInv, NEW s \in Subs, Take(s)
  PROVE  OrderInv' /\ queue' \in [Subs -> Seq(AllEvents)]
                   /\ handling' \in [Subs -> AllEvents \cup {None}]
<1>1. /\ queue[s] # <<>> /\ queue' = [queue EXCEPT ![s] = Tail(@)]
      /\ handling' = [handling EXCEPT ![s] = Head(queue[s])]
      /\ UNCHANGED <<published, handled>>
  BY DEF Take
<1>2. Ahead' = Ahead
  BY <1>1 DEF Ahead
<1>3. /\ handling'[s] = Head(queue[s])
      /\ \A t \in Subs \ {s} : handling'[t] = handling[t] /\ queue'[t] = queue[t]
      /\ handling' \in [Subs -> AllEvents \cup {None}]
  BY <1>1, Dequeue DEF BusType
<1>4. \A t \in Subs : Zero(queue[t], Ahead)' /\ (handling[t] \notin Ahead)'
  BY <1>1, <1>2, <1>3, Dequeue DEF OrderInv, Zero
<1>5. HandlingIsFirst(s)'
  BY <1>1, <1>3, Dequeue DEF HandlingIsFirst
<1>6. HandledBefore(s)'
  <2> SUFFICES ASSUME NEW d \in handled, d[2] = s
               PROVE  /\ \A l \in DOMAIN queue'[s] : ~Later(d[1], queue'[s][l])
                      /\ ~Later(d[1], handling'[s])
    BY <1>1 DEF HandledBefore
  <2>1. \A k \in DOMAIN queue[s] : ~Later(d[1], queue[s][k])
    BY DEF OrderInv, HandledBefore
  <2>2. \A l \in DOMAIN queue'[s] : \E k \in DOMAIN queue[s] : queue'[s][l] = queue[s][k]
    BY <1>1, Dequeue
  <2>3. ~Later(d[1], Head(queue[s]))
    BY <1>1, Dequeue
  <2> QED BY <1>3, <2>1, <2>2, <2>3
<1>7. \A t \in Subs \ {s} : (QueueInOrder(t) /\ HandlingIsFirst(t) /\ HandledBefore(t))'
  BY <1>1, <1>3 DEF OrderInv, QueueInOrder, HandlingIsFirst, HandledBefore
<1> QED BY <1>1, <1>2, <1>3, <1>4, <1>5, <1>6, <1>7, Dequeue DEF OrderInv

(* The handler is done with its event.                                     *)
LEMMA HandlerOrder ==
  ASSUME BusType, OrderInv, NEW s \in Subs, handling[s] # None,
         handling' = [handling EXCEPT ![s] = None],
         handled' = handled \/ handled' = handled \cup {<<handling[s], s>>},
         UNCHANGED <<queue, published>>
  PROVE  OrderInv' /\ handling' \in [Subs -> AllEvents \cup {None}] /\ handled' \subseteq AllEvents \X Subs
<1>1. /\ handling'[s] = None /\ \A t \in Subs \ {s} : handling'[t] = handling[t]
      /\ handling' \in [Subs -> AllEvents \cup {None}] /\ handling[s] \in AllEvents
  BY DEF BusType
<1>2. Ahead' = Ahead
  BY DEF Ahead
<1>3. None \notin AllEvents
  BY BusAssumption DEF AllEvents
<1>4. \A t \in Subs : Zero(queue[t], Ahead)' /\ (handling[t] \notin Ahead)'
  BY <1>1, <1>2, <1>3 DEF OrderInv, Zero, Ahead
<1>5. \A d \in handled' : d[1] \notin Ahead
  BY DEF OrderInv
<1>6. \A t \in Subs : QueueInOrder(t)' /\ HandlingIsFirst(t)'
  BY <1>1 DEF OrderInv, QueueInOrder, HandlingIsFirst
<1>7. ASSUME NEW t \in Subs PROVE HandledBefore(t)'
  <2> SUFFICES ASSUME NEW d \in handled', d[2] = t
               PROVE  /\ \A l \in DOMAIN queue[t] : ~Later(d[1], queue[t][l])
                      /\ handling'[t] # None => ~Later(d[1], handling'[t])
    BY DEF HandledBefore
  <2>1. CASE d \in handled
    BY <1>1, <2>1 DEF OrderInv, HandledBefore
  <2>2. CASE d = <<handling[s], s>>
    BY <1>1, <2>2 DEF OrderInv, HandlingIsFirst
  <2> QED BY <2>1, <2>2
<1>8. handled' \subseteq AllEvents \X Subs
  BY <1>1 DEF BusType
<1> QED BY <1>1, <1>2, <1>4, <1>5, <1>6, <1>7, <1>8 DEF OrderInv

(* Publishing only moves the end of what has been published.               *)
LEMMA PublishOrder ==
  ASSUME BusType, OrderInv, NEW p \in Publishers, Publish(p)
  PROVE  OrderInv' /\ published' \in [Publishers -> 0..MaxEvents] /\ Ahead' \subseteq Ahead
                   /\ published'[p] = published[p] + 1 /\ published'[p] \in 1..MaxEvents
                   /\ \A r \in Publishers \ {p} : published'[r] = published[r]
<1>1. /\ published' = [published EXCEPT ![p] = @ + 1] /\ published[p] < MaxEvents
      /\ UNCHANGED <<queue, handling, handled>>
  BY DEF Publish
<1>2. /\ published'[p] = published[p] + 1 /\ published'[p] \in 1..MaxEvents
      /\ \A r \in Publishers \ {p} : published'[r] = published[r]
      /\ published' \in [Publishers -> 0..MaxEvents]
  BY <1>1, BusAssumption DEF BusType
<1>3. Ahead' \subseteq Ahead
  <2> SUFFICES ASSUME NEW e \in AllEvents, e.kind = "event", e.number > published'[e.from]
               PROVE  e.number > published[e.from]
    BY DEF Ahead
  <2>1. e.from \in Publishers /\ e.number \in Nat /\ \A r \in Publishers : published[r] \in Nat
    BY EventKinds, BusAssumption DEF BusType
  <2> QED BY <1>2, <2>1
<1>4. \A t \in Subs : Zero(queue[t], Ahead)' /\ (handling[t] \notin Ahead)'
  BY <1>1, <1>3 DEF OrderInv, Zero
<1>5. \A d \in handled' : (d[1] \notin Ahead)'
  BY <1>1, <1>3 DEF OrderInv
<1>6. \A t \in Subs : (QueueInOrder(t) /\ HandlingIsFirst(t) /\ HandledBefore(t))'
  BY <1>1 DEF OrderInv, QueueInOrder, HandlingIsFirst, HandledBefore
<1> QED BY <1>2, <1>3, <1>4, <1>5, <1>6 DEF OrderInv

(* Steps that leave all of it alone.                                       *)
LEMMA SameOrder ==
  ASSUME OrderInv, UNCHANGED <<queue, handling, published, handled>>
  PROVE  OrderInv'
<1>1. Ahead' = Ahead
  BY DEF Ahead
<1> QED BY <1>1 DEF OrderInv, QueueInOrder, HandlingIsFirst, HandledBefore, Zero

(* The invariant says what it is about.                                    *)
LEMMA OrderImplies == BusType /\ OrderInv => InOrder
<1> SUFFICES ASSUME BusType, OrderInv, NEW s \in Subs
             PROVE  LET waiting == (IF handling[s] = None THEN <<>> ELSE <<handling[s]>>) \o queue[s] IN
                    /\ \A k, l \in DOMAIN waiting : Later(waiting[k], waiting[l]) => k > l
                    /\ \A k \in DOMAIN waiting, d \in handled : d[2] = s => ~Later(d[1], waiting[k])
  BY DEF InOrder
<1> DEFINE q == queue[s]  n == Len(queue[s])  w == <<handling[s]>> \o q
<1>1. q \in Seq(AllEvents) /\ n \in Nat /\ DOMAIN q = 1..n /\ <<>> \o q = q
  BY LenProperties, ConcatEmptySeq DEF BusType
<1>2. /\ \A k, l \in 1..n : Later(q[k], q[l]) => k > l
      /\ \A d \in handled : d[2] = s => \A l \in 1..n : ~Later(d[1], q[l])
  BY <1>1 DEF OrderInv, QueueInOrder, HandledBefore
<1>3. CASE handling[s] = None
  BY <1>1, <1>2, <1>3
<1>4. CASE handling[s] # None
  <2>1. <<handling[s]>> \in Seq(AllEvents) /\ Len(<<handling[s]>>) = 1 /\ <<handling[s]>>[1] = handling[s]
    BY <1>4 DEF BusType
  <2>2. /\ w \in Seq(AllEvents) /\ Len(w) = 1 + n
        /\ \A k \in 1..1 + n : w[k] = IF k <= 1 THEN <<handling[s]>>[k] ELSE q[k - 1]
    BY <1>1, <2>1, ConcatProperties
  <2>3. DOMAIN w = 1..1 + n
    BY <2>2, LenProperties
  <2> HIDE DEF w, q, n
  <2>4. w[1] = handling[s] /\ \A k \in 1..1 + n : k # 1 => k - 1 \in 1..n /\ w[k] = q[k - 1]
    BY <1>1, <2>1, <2>2
  <2>5. \A l \in 1..n : ~Later(handling[s], q[l])
    BY <1>1, <1>4 DEF OrderInv, HandlingIsFirst, q
  <2>6. ~Later(handling[s], handling[s])
    <3>1. handling[s] \in AllEvents
      BY <1>4 DEF BusType
    <3>2. handling[s].kind = "event" => handling[s].number \in Int
      BY <3>1, EventKinds
    <3> QED BY <3>2 DEF Later
  <2>7. ASSUME NEW k \in 1..1 + n, NEW l \in 1..1 + n, Later(w[k], w[l]) PROVE k > l
    <3>1. CASE k = 1
      BY <2>4, <2>5, <2>6, <2>7, <3>1
    <3>2. CASE k # 1 /\ l = 1
      BY <3>2
    <3>3. CASE k # 1 /\ l # 1
      <4>1. k - 1 > l - 1
        BY <1>2, <2>4, <2>7, <3>3
      <4> QED BY <4>1
    <3> QED BY <3>1, <3>2, <3>3
  <2>8. ASSUME NEW k \in 1..1 + n, NEW d \in handled, d[2] = s PROVE ~Later(d[1], w[k])
    <3>1. CASE k = 1
      BY <1>4, <2>4, <2>8, <3>1 DEF OrderInv, HandledBefore
    <3>2. CASE k # 1
      BY <1>2, <2>4, <2>8, <3>2
    <3> QED BY <3>1, <3>2
  <2> QED BY <1>4, <2>3, <2>7, <2>8 DEF w, q
<1> QED BY <1>3, <1>4

-----------------------------------------------------------------------------
(* Where a delivery is, as counts.                                         *)
Unsettled(e, t) == handling[t] # e /\ <<e, t>> \notin handled /\ <<e, t>> \notin dead

IsOffered(e, t) == OnceIn(Offers(e, t)) /\ Zero(queue[t], {e}) /\ Unsettled(e, t)
IsQueued(e, t) == NowhereIn(Offers(e, t)) /\ One(queue[t], {e}) /\ Unsettled(e, t)
IsHandling(e, t) == /\ NowhereIn(Offers(e, t)) /\ Zero(queue[t], {e})
                    /\ handling[t] = e /\ <<e, t>> \notin handled /\ <<e, t>> \notin dead
IsHandled(e, t) == /\ NowhereIn(Offers(e, t)) /\ Zero(queue[t], {e})
                   /\ handling[t] # e /\ <<e, t>> \in handled /\ <<e, t>> \notin dead
IsDead(e, t) == /\ NowhereIn(Offers(e, t)) /\ Zero(queue[t], {e})
                /\ handling[t] # e /\ <<e, t>> \notin handled /\ <<e, t>> \in dead
Nowhere(e, t) == NowhereIn(Offers(e, t)) /\ Zero(queue[t], {e}) /\ Unsettled(e, t)

InOnePlace(e, t) ==
  IsOffered(e, t) \/ IsQueued(e, t) \/ IsHandling(e, t) \/ IsHandled(e, t) \/ IsDead(e, t)

AccountedFor(e, t) == IF <<e, t>> \in due THEN InOnePlace(e, t) ELSE Nowhere(e, t)

DeliveryInv == \A e \in AllEvents, t \in Subs : AccountedFor(e, t)

(* An event is matched once: it is new, or on one agenda, or decided on.   *)
(* An ordinary event is known when it is published, a letter when the      *)
(* delivery it is about is dead.                                           *)
Undecided(e) == \A t \in Subs : <<e, t>> \notin due
Known(e) == IF e.kind = "event" THEN e.number <= published[e.from] ELSE <<e.of, e.at>> \in dead

EventInv ==
  \A e \in AllEvents :
    /\ NowhereIn(MatchesOf(e)) \/ (OnceIn(MatchesOf(e)) /\ Undecided(e))
    /\ ~Known(e) => NowhereIn(MatchesOf(e)) /\ Undecided(e)

Idle == \A s \in Subs : handling[s] # None => agenda[s] = <<>>

BusInv == BusType /\ OwnEvents /\ OrderInv /\ DeliveryInv /\ EventInv /\ Idle

(* A step that changes none of the counts.                                 *)
SameAt(e, t) ==
  /\ (NowhereIn(Offers(e, t)) /\ NowhereIn(Offers(e, t))') \/ (OnceIn(Offers(e, t)) /\ OnceIn(Offers(e, t))')
  /\ (Zero(queue[t], {e}) /\ Zero(queue[t], {e})') \/ (One(queue[t], {e}) /\ One(queue[t], {e})')
  /\ (handling[t] = e)' <=> handling[t] = e
  /\ (<<e, t>> \in handled)' <=> <<e, t>> \in handled
  /\ (<<e, t>> \in dead)' <=> <<e, t>> \in dead
  /\ (<<e, t>> \in due)' <=> <<e, t>> \in due

(* What a step does not touch stays accounted for.                         *)
LEMMA SameStays ==
  ASSUME NEW e, NEW t, AccountedFor(e, t), SameAt(e, t)
  PROVE  AccountedFor(e, t)'
<1>1. ~(NowhereIn(Offers(e, t)) /\ OnceIn(Offers(e, t)))
  BY NotBoth
<1>2. ~(Zero(queue[t], {e}) /\ One(queue[t], {e}))
  BY ZeroNotOne
<1>3. Unsettled(e, t)' <=> Unsettled(e, t)
  BY DEF SameAt, Unsettled
<1>4. IsOffered(e, t) => IsOffered(e, t)'
  BY <1>1, <1>2, <1>3 DEF SameAt, IsOffered
<1>5. IsQueued(e, t) => IsQueued(e, t)'
  BY <1>1, <1>2, <1>3 DEF SameAt, IsQueued
<1>6. IsHandling(e, t) => IsHandling(e, t)'
  BY <1>1, <1>2 DEF SameAt, IsHandling
<1>7. IsHandled(e, t) => IsHandled(e, t)'
  BY <1>1, <1>2 DEF SameAt, IsHandled
<1>8. IsDead(e, t) => IsDead(e, t)'
  BY <1>1, <1>2 DEF SameAt, IsDead
<1>9. Nowhere(e, t) => Nowhere(e, t)'
  BY <1>1, <1>2, <1>3 DEF SameAt, Nowhere
<1>10. (<<e, t>> \in due)' <=> <<e, t>> \in due
  BY DEF SameAt
<1> QED BY <1>4, <1>5, <1>6, <1>7, <1>8, <1>9, <1>10 DEF AccountedFor, InOnePlace

(* Every delivery has counts at all.                                       *)
LEMMA Counted ==
  ASSUME NEW e, NEW t, AccountedFor(e, t)
  PROVE  /\ NowhereIn(Offers(e, t)) \/ OnceIn(Offers(e, t))
         /\ Zero(queue[t], {e}) \/ One(queue[t], {e})
BY DEF AccountedFor, InOnePlace, IsOffered, IsQueued, IsHandling, IsHandled, IsDead, Nowhere

(* What is being offered has been decided on and is nowhere else.          *)
LEMMA OfferedNow ==
  ASSUME BusType, DeliveryInv, NEW a \in Actors, agenda[a] # <<>>,
         NEW e \in AllEvents, NEW t \in Subs, Head(agenda[a]) \in Offers(e, t)
  PROVE  <<e, t>> \in due /\ IsOffered(e, t)
<1>1. ~Zero(agenda[a], Offers(e, t))
  BY CountTail DEF BusType
<1>2. ~NowhereIn(Offers(e, t))
  BY <1>1 DEF NowhereIn
<1> QED BY <1>2 DEF DeliveryInv, AccountedFor, InOnePlace, IsQueued, IsHandling, IsHandled, IsDead, Nowhere

(* What is queued has been decided on and is nowhere else.                 *)
LEMMA QueuedNow ==
  ASSUME BusType, DeliveryInv, NEW t \in Subs, queue[t] # <<>>
  PROVE  Head(queue[t]) \in AllEvents /\ <<Head(queue[t]), t>> \in due /\ IsQueued(Head(queue[t]), t)
<1> DEFINE e == Head(queue[t])
<1>1. e \in AllEvents /\ e \in {e}
  BY HeadAndTail DEF BusType
<1>2. ~Zero(queue[t], {e})
  BY <1>1, CountTail DEF BusType
<1> HIDE DEF e
<1>3. IF <<e, t>> \in due THEN InOnePlace(e, t) ELSE Nowhere(e, t)
  BY <1>1 DEF DeliveryInv, AccountedFor
<1>4. <<e, t>> \in due /\ IsQueued(e, t)
  BY <1>2, <1>3 DEF InOnePlace, IsOffered, IsHandling, IsHandled, IsDead, Nowhere
<1> QED BY <1>1, <1>4 DEF e

(* What is being handled has been decided on and is nowhere else.          *)
LEMMA HandlingNow ==
  ASSUME BusType, DeliveryInv, NEW t \in Subs, handling[t] # None
  PROVE  handling[t] \in AllEvents /\ <<handling[t], t>> \in due /\ IsHandling(handling[t], t)
<1>1. handling[t] \in AllEvents
  BY DEF BusType
<1>2. IF <<handling[t], t>> \in due THEN InOnePlace(handling[t], t) ELSE Nowhere(handling[t], t)
  BY <1>1 DEF DeliveryInv, AccountedFor
<1> QED BY <1>1, <1>2 DEF InOnePlace, IsOffered, IsQueued, IsHandled, IsDead, Nowhere, Unsettled

-----------------------------------------------------------------------------
(* A goroutine has offered its event to s, which has queued it or not; the *)
(* other subscriptions of the call are still to be offered.                *)
LEMMA Settled ==
  ASSUME BusType, DeliveryInv, NEW a \in Actors, agenda[a] # <<>>,
         NEW s \in Head(agenda[a]).to, Head(agenda[a]).call # "match",
         NEW calls \in Seq(Pending), Then(a, calls),
         \A e, t : IF Head(agenda[a]) \in Offers(e, t) /\ t # s THEN One(calls, Offers(e, t))
                                                            ELSE Zero(calls, Offers(e, t)),
         \/ queue' = [queue EXCEPT ![s] = Append(@, Head(agenda[a]).event)] /\ dead' = dead
         \/ queue' = queue /\ dead' = dead \cup {<<Head(agenda[a]).event, s>>},
         UNCHANGED <<due, handling, handled>>
  PROVE  DeliveryInv'
<1> DEFINE h == Head(agenda[a])
<1>1. h \in Pending /\ h.call # "match" /\ s \in h.to
  BY ThenCounts
<1> HIDE DEF h
<1>2. h.event \in AllEvents /\ s \in Subs
      /\ \A e, t : h \in Offers(e, t) <=> h.event = e /\ t \in h.to
  BY <1>1, CallKinds
<1>3. ASSUME NEW e \in AllEvents, NEW t \in Subs, h \notin Offers(e, t) PROVE AccountedFor(e, t)'
  <2>1. Zero(calls, Offers(e, t)) /\ AccountedFor(e, t)
    BY <1>3 DEF h, DeliveryInv
  <2>2. (NowhereIn(Offers(e, t))' <=> NowhereIn(Offers(e, t)))
        /\ (OnceIn(Offers(e, t))' <=> OnceIn(Offers(e, t)))
    BY <1>3, <2>1, ThenCounts DEF h
  <2>3. ~(h.event = e /\ t = s)
    BY <1>1, <1>2, <1>3
  <2>4. /\ Zero(queue[t], {e})' <=> Zero(queue[t], {e})
        /\ One(queue[t], {e})' <=> One(queue[t], {e})
    <3>1. CASE queue'[t] = queue[t]
      BY <3>1
    <3>2. CASE t = s /\ queue'[s] = Append(queue[s], h.event)
      <4>1. h.event \notin {e} /\ queue[s] \in Seq(AllEvents)
        BY <1>2, <2>3, <3>2 DEF BusType
      <4> QED BY <1>2, <3>2, <4>1, CountAppend
    <3>3. queue'[t] = queue[t] \/ (t = s /\ queue'[s] = Append(queue[s], h.event))
      BY <1>2 DEF BusType, h
    <3> QED BY <3>1, <3>2, <3>3
  <2>5. (<<e, t>> \in dead)' <=> <<e, t>> \in dead
    BY <2>3 DEF h
  <2>6. SameAt(e, t)
    BY <2>1, <2>2, <2>4, <2>5, Counted DEF SameAt
  <2> QED BY <2>1, <2>6, SameStays
<1>4. ASSUME NEW e \in AllEvents, NEW t \in Subs, h \in Offers(e, t), t # s PROVE AccountedFor(e, t)'
  <2>1. IsOffered(e, t) /\ AccountedFor(e, t)
    BY <1>4, OfferedNow DEF DeliveryInv, h
  <2>2. OnceIn(Offers(e, t)) /\ OnceIn(Offers(e, t))'
    <3>1. One(calls, Offers(e, t)) /\ OnceIn(Offers(e, t))
      BY <1>4, <2>1 DEF h, IsOffered
    <3> QED BY <1>4, <3>1, ThenCounts DEF h
  <2>3. queue'[t] = queue[t] /\ (<<e, t>> \in dead' <=> <<e, t>> \in dead)
    BY <1>2, <1>4 DEF BusType, h
  <2>4. SameAt(e, t)
    BY <2>1, <2>2, <2>3 DEF SameAt, IsOffered
  <2> QED BY <2>1, <2>4, SameStays
<1>5. ASSUME NEW e \in AllEvents, h.event = e PROVE AccountedFor(e, s)'
  <2>1. h \in Offers(e, s) /\ s \in Subs
    BY <1>1, <1>2, <1>5
  <2>2. Zero(calls, Offers(e, s))
    BY DEF h
  <2>3. <<e, s>> \in due /\ IsOffered(e, s)
    BY <2>1, OfferedNow DEF h
  <2>4. NowhereIn(Offers(e, s))'
    BY <2>1, <2>2, <2>3, ThenCounts DEF IsOffered, h
  <2>5. Zero(queue[s], {e}) /\ handling'[s] # e /\ <<e, s>> \notin handled' /\ <<e, s>> \notin dead
        /\ <<e, s>> \in due'
    BY <2>3 DEF IsOffered, Unsettled
  <2>6. \/ queue' = [queue EXCEPT ![s] = Append(@, e)] /\ dead' = dead
        \/ queue' = queue /\ dead' = dead \cup {<<e, s>>}
    BY <1>5 DEF h
  <2>7. CASE queue' = [queue EXCEPT ![s] = Append(@, e)] /\ dead' = dead
    <3>1. queue'[s] = Append(queue[s], e) /\ queue[s] \in Seq(AllEvents) /\ e \in {e}
      BY <2>1, <2>7 DEF BusType
    <3>2. One(queue'[s], {e})
      BY <2>1, <2>5, <3>1, CountAppend
    <3>3. IsQueued(e, s)'
      BY <2>4, <2>5, <2>7, <3>2 DEF IsQueued, Unsettled
    <3> QED BY <2>5, <3>3 DEF AccountedFor, InOnePlace
  <2>8. CASE queue' = queue /\ dead' = dead \cup {<<e, s>>}
    <3>1. IsDead(e, s)'
      BY <2>4, <2>5, <2>8 DEF IsDead
    <3> QED BY <2>5, <3>1 DEF AccountedFor, InOnePlace
  <2> QED BY <2>6, <2>7, <2>8
<1>6. ASSUME NEW e \in AllEvents, NEW t \in Subs PROVE AccountedFor(e, t)'
  <2>1. CASE h \notin Offers(e, t)
    BY <1>3, <2>1
  <2>2. CASE h \in Offers(e, t) /\ t # s
    BY <1>4, <2>2
  <2>3. CASE h \in Offers(e, t) /\ t = s
    BY <1>2, <1>5, <2>3
  <2> QED BY <2>1, <2>2, <2>3
<1> QED BY <1>6 DEF DeliveryInv

(* A goroutine goes on offering what it was offering, and has perhaps made *)
(* room for it: the event it took out of the queue of s is dead.           *)
LEMMA StillOffered ==
  ASSUME BusType, DeliveryInv, NEW a \in Actors, agenda[a] # <<>>, NEW s \in Subs,
         NEW calls \in Seq(Pending), Then(a, calls),
         \A e, t : IF Head(agenda[a]) \in Offers(e, t) THEN One(calls, Offers(e, t))
                                                      ELSE Zero(calls, Offers(e, t)),
         \/ UNCHANGED <<queue, dead>>
         \/ /\ queue[s] # <<>> /\ queue' = [queue EXCEPT ![s] = Tail(@)]
            /\ dead' = dead \cup {<<Head(queue[s]), s>>},
         UNCHANGED <<due, handling, handled>>
  PROVE  DeliveryInv'
<1> DEFINE h == Head(agenda[a])
<1>1. ASSUME NEW e \in AllEvents, NEW t \in Subs
      PROVE  (NowhereIn(Offers(e, t)) /\ NowhereIn(Offers(e, t))')
             \/ (OnceIn(Offers(e, t)) /\ OnceIn(Offers(e, t))')
  <2>1. AccountedFor(e, t)
    BY DEF DeliveryInv
  <2>2. CASE h \in Offers(e, t)
    <3>1. One(calls, Offers(e, t)) /\ OnceIn(Offers(e, t))
      BY <2>2, OfferedNow DEF IsOffered
    <3> QED BY <2>2, <3>1, ThenCounts
  <2>3. CASE h \notin Offers(e, t)
    <3>1. Zero(calls, Offers(e, t))
      BY <2>3
    <3>2. (NowhereIn(Offers(e, t))' <=> NowhereIn(Offers(e, t)))
          /\ (OnceIn(Offers(e, t))' <=> OnceIn(Offers(e, t)))
      BY <2>3, <3>1, ThenCounts
    <3> QED BY <2>1, <3>2, Counted
  <2> QED BY <2>2, <2>3
<1> HIDE DEF h
<1>2. CASE UNCHANGED <<queue, dead>>
  <2>1. ASSUME NEW e \in AllEvents, NEW t \in Subs PROVE AccountedFor(e, t)'
    <3>1. AccountedFor(e, t)
      BY DEF DeliveryInv
    <3>2. SameAt(e, t)
      BY <1>1, <1>2, <3>1, Counted DEF SameAt
    <3> QED BY <3>1, <3>2, SameStays
  <2> QED BY <2>1 DEF DeliveryInv
<1>3. ASSUME queue[s] # <<>>, queue' = [queue EXCEPT ![s] = Tail(@)], NEW x, x = Head(queue[s]),
             dead' = dead \cup {<<x, s>>}
      PROVE  DeliveryInv'
  <2>1. x \in AllEvents /\ <<x, s>> \in due /\ IsQueued(x, s) /\ queue[s] \in Seq(AllEvents)
    BY <1>3, QueuedNow DEF BusType
  <2>2. queue'[s] = Tail(queue[s]) /\ \A t \in Subs \ {s} : queue'[t] = queue[t]
    BY <1>3 DEF BusType
  <2>3. \A e : /\ Zero(queue[s], {e}) <=> x # e /\ Zero(queue'[s], {e})
               /\ One(queue[s], {e}) <=> IF x = e THEN Zero(queue'[s], {e}) ELSE One(queue'[s], {e})
    <3>1. ASSUME NEW e
          PROVE  /\ Zero(queue[s], {e}) <=> x # e /\ Zero(queue'[s], {e})
                 /\ One(queue[s], {e}) <=> IF x = e THEN Zero(queue'[s], {e}) ELSE One(queue'[s], {e})
      <4>1. x \in {e} <=> x = e
        OBVIOUS
      <4>2. /\ Zero(queue[s], {e}) <=> x \notin {e} /\ Zero(Tail(queue[s]), {e})
            /\ One(queue[s], {e}) <=> IF x \in {e} THEN Zero(Tail(queue[s]), {e})
                                                   ELSE One(Tail(queue[s]), {e})
        BY <1>3, <2>1, CountTail
      <4> QED BY <2>2, <4>1, <4>2
    <3> QED BY <3>1
  <2>4. ASSUME NEW e \in AllEvents, NEW t \in Subs, ~(e = x /\ t = s) PROVE AccountedFor(e, t)'
    <3>1. AccountedFor(e, t)
      BY DEF DeliveryInv
    <3>2. (Zero(queue[t], {e}) /\ Zero(queue[t], {e})') \/ (One(queue[t], {e}) /\ One(queue[t], {e})')
      <4>1. CASE t # s
        BY <2>2, <3>1, <4>1, Counted
      <4>2. CASE t = s
        BY <2>3, <2>4, <3>1, <4>2, Counted
      <4> QED BY <4>1, <4>2
    <3>3. (<<e, t>> \in dead)' <=> <<e, t>> \in dead
      BY <1>3, <2>4
    <3>4. SameAt(e, t)
      BY <1>1, <3>2, <3>3 DEF SameAt
    <3> QED BY <3>1, <3>4, SameStays
  <2>5. AccountedFor(x, s)'
    <3>1. NowhereIn(Offers(x, s))'
      BY <1>1, <2>1, NotBoth DEF IsQueued
    <3>2. Zero(queue[s], {x})'
      BY <2>1, <2>3 DEF IsQueued
    <3>3. IsDead(x, s)'
      BY <1>3, <2>1, <3>1, <3>2 DEF IsDead, IsQueued, Unsettled
    <3> QED BY <2>1, <3>3 DEF AccountedFor, InOnePlace
  <2> QED BY <2>4, <2>5 DEF DeliveryInv
<1> QED BY <1>2, <1>3

-----------------------------------------------------------------------------
(* Events: nothing changes but for letters about the newly dead.           *)
LEMMA EventsStay ==
  ASSUME BusType, EventInv, UNCHANGED <<due, published>>, dead \subseteq dead',
         \A e \in AllEvents :
           \/ (NowhereIn(MatchesOf(e)) => NowhereIn(MatchesOf(e))')
              /\ (OnceIn(MatchesOf(e)) => OnceIn(MatchesOf(e))')
           \/ ~Known(e) /\ Known(e)' /\ (NowhereIn(MatchesOf(e)) => OnceIn(MatchesOf(e))')
  PROVE  EventInv'
<1> SUFFICES ASSUME NEW e \in AllEvents
             PROVE  /\ NowhereIn(MatchesOf(e))' \/ (OnceIn(MatchesOf(e))' /\ Undecided(e)')
                    /\ ~Known(e)' => NowhereIn(MatchesOf(e))' /\ Undecided(e)'
  BY DEF EventInv
<1>1. /\ NowhereIn(MatchesOf(e)) \/ (OnceIn(MatchesOf(e)) /\ Undecided(e))
      /\ ~Known(e) => NowhereIn(MatchesOf(e)) /\ Undecided(e)
  BY DEF EventInv
<1>2. Undecided(e)' <=> Undecided(e)
  BY DEF Undecided
<1>3. Known(e) => Known(e)'
  BY DEF Known
<1> QED BY <1>1, <1>2, <1>3

(* A goroutine's next call is done, and reports the death of the delivery  *)
(* of ev to s, if it is a new one.                                         *)
LEMMA EventsLetter ==
  ASSUME BusType, EventInv, NEW a \in Actors, agenda[a] # <<>>, Head(agenda[a]).call # "match",
         NEW ev \in AllEvents, NEW s \in Subs, <<ev, s>> \notin dead,
         NEW rest \in Seq(Pending), \A e : Zero(rest, MatchesOf(e)),
         Then(a, DeadLetter(ev, s) \o rest), dead' = dead \cup {<<ev, s>>},
         UNCHANGED <<due, published>>
  PROVE  EventInv'
<1> DEFINE calls == DeadLetter(ev, s) \o rest
<1>1. DeadLetter(ev, s) \in Seq(Pending)
  BY CountDeadLetter
<1>2. calls \in Seq(Pending)
  BY <1>1, ConcatProperties
<1>3. ASSUME NEW e \in AllEvents
      PROVE  IF ev \in Events /\ e = Letter(ev, s) THEN One(calls, MatchesOf(e))
                                                 ELSE Zero(calls, MatchesOf(e))
  <2>1. Zero(rest, MatchesOf(e))
    OBVIOUS
  <2>2. IF ev \in Events /\ e = Letter(ev, s) THEN One(DeadLetter(ev, s), MatchesOf(e))
                                            ELSE Zero(DeadLetter(ev, s), MatchesOf(e))
    BY CountDeadLetter
  <2> DEFINE d == DeadLetter(ev, s)  T == MatchesOf(e)
  <2>3. Zero(rest, T) /\ d \in Seq(Pending) /\ rest \in Seq(Pending)
    BY <1>1, <2>1
  <2> HIDE DEF d, T
  <2>4. /\ Zero(d \o rest, T) <=> Zero(d, T) /\ Zero(rest, T)
        /\ One(d \o rest, T) <=> (One(d, T) /\ Zero(rest, T)) \/ (Zero(d, T) /\ One(rest, T))
    BY <2>3, CountConcat
  <2>5. (Zero(d, T) => Zero(d \o rest, T)) /\ (One(d, T) => One(d \o rest, T))
    BY <2>3, <2>4
  <2> QED BY <2>2, <2>5 DEF d, T
<1> HIDE DEF calls
<1>4. ASSUME NEW e \in AllEvents PROVE Head(agenda[a]) \notin MatchesOf(e)
  <2>1. Head(agenda[a]) \in Pending
    BY HeadAndTail DEF BusType
  <2> QED BY <2>1, CallKinds
<1>5. Then(a, calls)
  BY DEF calls
<1>6. ASSUME NEW e \in AllEvents
      PROVE  \/ (NowhereIn(MatchesOf(e)) => NowhereIn(MatchesOf(e))')
                /\ (OnceIn(MatchesOf(e)) => OnceIn(MatchesOf(e))')
             \/ ~Known(e) /\ Known(e)' /\ (NowhereIn(MatchesOf(e)) => OnceIn(MatchesOf(e))')
  <2>1. CASE ev \in Events /\ e = Letter(ev, s)
    <3>1. NowhereIn(MatchesOf(e)) => OnceIn(MatchesOf(e))'
      BY <1>2, <1>3, <1>4, <1>5, <2>1, ThenCounts
    <3>2. e.kind # "event" /\ e.of = ev /\ e.at = s
      BY <2>1, NewLetter
    <3> QED BY <3>1, <3>2 DEF Known
  <2>2. CASE ~(ev \in Events /\ e = Letter(ev, s))
    <3>1. Zero(calls, MatchesOf(e)) /\ Head(agenda[a]) \notin MatchesOf(e)
      BY <1>3, <1>4, <2>2
    <3> QED BY <1>2, <1>5, <3>1, ThenCounts
  <2> QED BY <2>1, <2>2
<1> QED BY <1>6, EventsStay

(* Nothing died.                                                           *)
LEMMA EventsQuiet ==
  ASSUME BusType, EventInv, NEW a \in Actors, agenda[a] # <<>>, Head(agenda[a]).call # "match",
         NEW calls \in Seq(Pending), \A e : Zero(calls, MatchesOf(e)),
         Then(a, calls), UNCHANGED <<due, published, dead>>
  PROVE  EventInv'
<1>1. ASSUME NEW e \in AllEvents
      PROVE  (NowhereIn(MatchesOf(e)) => NowhereIn(MatchesOf(e))')
             /\ (OnceIn(MatchesOf(e)) => OnceIn(MatchesOf(e))')
  <2>1. Head(agenda[a]) \in Pending
    BY HeadAndTail DEF BusType
  <2>2. Head(agenda[a]) \notin MatchesOf(e) /\ Zero(calls, MatchesOf(e))
    BY <2>1, CallKinds
  <2> QED BY <2>2, ThenCounts
<1> QED BY <1>1, EventsStay

(* What the goroutines' own events and idleness need.                      *)
LEMMA AgendaStep ==
  ASSUME BusType, OwnEvents, Idle, NEW a \in Actors, agenda[a] # <<>>,
         NEW calls \in Seq(Pending), Then(a, calls), Zero(calls, Strays(a)),
         UNCHANGED <<published, handling>>
  PROVE  agenda' \in [Actors -> Seq(Pending)] /\ OwnEvents' /\ Idle'
<1>1. agenda' \in [Actors -> Seq(Pending)] /\ \A b \in Actors \ {a} : agenda'[b] = agenda[b]
  BY ThenCounts
<1>2. \A b \in Actors : Strays(b)' = Strays(b)
  BY DEF Strays
<1>3. Zero(agenda'[a], Strays(a))
  BY ThenCounts DEF OwnEvents
<1>4. OwnEvents'
  BY <1>1, <1>2, <1>3 DEF OwnEvents
<1>5. \A s \in Subs : handling[s] # None => s # a /\ agenda'[s] = agenda[s]
  BY <1>1 DEF Idle, Actors
<1>6. Idle'
  BY <1>5 DEF Idle
<1> QED BY <1>1, <1>4, <1>6

(* The head of an agenda is no stray.                                      *)
LEMMA OwnHead ==
  ASSUME BusType, OwnEvents, NEW a \in Actors, agenda[a] # <<>>
  PROVE  /\ Head(agenda[a]) \in Pending /\ Head(agenda[a]) \notin Strays(a)
         /\ Head(agenda[a]).event \in AllEvents
         /\ LET e == Head(agenda[a]).event IN e.kind = "event" => e.number = published[e.from]
<1>1. Head(agenda[a]) \in Pending /\ Head(agenda[a]) \notin Strays(a)
  BY HeadAndTail, CountTail DEF BusType, OwnEvents
<1> QED BY <1>1, CallKinds DEF Strays

(* Subscriptions come and go, and the bus may have panicked: nothing that  *)
(* the invariant is about changes.                                         *)
LEMMA BusSame ==
  ASSUME BusInv, UNCHANGED <<queue, handling, agenda, published, due, handled, dead>>
  PROVE  BusInv'
<1>1. BusType /\ OwnEvents /\ OrderInv /\ DeliveryInv /\ EventInv /\ Idle
  BY DEF BusInv
<1>2. BusType' /\ Idle'
  BY <1>1 DEF BusType, Idle
<1>3. OwnEvents'
  BY <1>1 DEF OwnEvents, Strays
<1>4. OrderInv'
  BY <1>1, SameOrder
<1>5. \A T : (NowhereIn(T)' <=> NowhereIn(T)) /\ (OnceIn(T)' <=> OnceIn(T))
  BY DEF NowhereIn, OnceIn
<1>6. ASSUME NEW e \in AllEvents, NEW t \in Subs PROVE AccountedFor(e, t)'
  <2>1. AccountedFor(e, t)
    BY <1>1 DEF DeliveryInv
  <2>2. SameAt(e, t)
    BY <1>5, <2>1, Counted DEF SameAt
  <2> QED BY <2>1, <2>2, SameStays
<1>7. DeliveryInv'
  BY <1>6 DEF DeliveryInv
<1>8. EventInv'
  BY <1>1, <1>5, EventsStay
<1> QED BY <1>2, <1>3, <1>4, <1>7, <1>8 DEF BusInv

-----------------------------------------------------------------------------
(* An offer that is queued; rest are the offers still to be made.          *)
LEMMA OfferQueued ==
  ASSUME BusInv, NEW a \in Actors, agenda[a] # <<>>, Head(agenda[a]).call # "match",
         NEW s \in Head(agenda[a]).to, NEW rest \in Seq(Pending), Zero(rest, Strays(a)),
         \A e : Zero(rest, MatchesOf(e)),
         \A e, t : IF Head(agenda[a]) \in Offers(e, t) /\ t # s THEN One(rest, Offers(e, t))
                                                            ELSE Zero(rest, Offers(e, t)),
         Then(a, rest), queue' = [queue EXCEPT ![s] = Append(@, Head(agenda[a]).event)],
         UNCHANGED <<dead, due, handling, handled, published>>
  PROVE  BusInv'
<1>1. BusType /\ OwnEvents /\ OrderInv /\ DeliveryInv /\ EventInv /\ Idle
  BY DEF BusInv
<1>2. s \in Subs
  BY <1>1, OwnHead, CallKinds
<1>3. OrderInv' /\ queue' \in [Subs -> Seq(AllEvents)]
  BY <1>1, <1>2, OwnHead, Enqueue
<1>4. agenda' \in [Actors -> Seq(Pending)] /\ OwnEvents' /\ Idle'
  BY <1>1, AgendaStep
<1>5. BusType'
  BY <1>1, <1>3, <1>4 DEF BusType
<1>6. DeliveryInv'
  BY <1>1, Settled
<1>7. EventInv'
  BY <1>1, EventsQuiet
<1> QED BY <1>3, <1>4, <1>5, <1>6, <1>7 DEF BusInv

(* An offer that overflows and becomes a dead letter.                      *)
LEMMA OfferDead ==
  ASSUME BusInv, NEW a \in Actors, agenda[a] # <<>>, Head(agenda[a]).call # "match",
         NEW s \in Head(agenda[a]).to, NEW rest \in Seq(Pending), Zero(rest, Strays(a)),
         \A e : Zero(rest, MatchesOf(e)),
         \A e, t : IF Head(agenda[a]) \in Offers(e, t) /\ t # s THEN One(rest, Offers(e, t))
                                                            ELSE Zero(rest, Offers(e, t)),
         Then(a, DeadLetter(Head(agenda[a]).event, s) \o rest),
         dead' = dead \cup {<<Head(agenda[a]).event, s>>},
         UNCHANGED <<queue, due, handling, handled, published>>
  PROVE  BusInv'
<1>1. BusType /\ OwnEvents /\ OrderInv /\ DeliveryInv /\ EventInv /\ Idle
  BY DEF BusInv
<1> DEFINE ev == Head(agenda[a]).event  d == DeadLetter(ev, s)
<1>2. s \in Subs /\ ev \in AllEvents
  BY <1>1, OwnHead, CallKinds
<1>3. /\ d \in Seq(Pending) /\ Zero(d, Strays(a))
      /\ \A e, t : t \in Subs => Zero(d, Offers(e, t))
  BY <1>2, CountDeadLetter
<1>4. \A e, t : t \notin Subs => Zero(d, Offers(e, t))
  BY <1>3, CallKinds, ElementOfSeq, LenProperties DEF Zero
<1>5. d \o rest \in Seq(Pending)
  BY <1>3, ConcatProperties
<1>6. Zero(d \o rest, Strays(a))
  BY <1>3, CountConcat
<1>7. \A e, t : IF Head(agenda[a]) \in Offers(e, t) /\ t # s THEN One(d \o rest, Offers(e, t))
                                                         ELSE Zero(d \o rest, Offers(e, t))
  <2>1. ASSUME NEW e, NEW t
        PROVE  /\ Zero(d \o rest, Offers(e, t)) <=> Zero(rest, Offers(e, t))
               /\ One(rest, Offers(e, t)) => One(d \o rest, Offers(e, t))
    <3> DEFINE T == Offers(e, t)
    <3>1. Zero(d, T) /\ d \in Seq(Pending)
      BY <1>3, <1>4
    <3> HIDE DEF d, T
    <3>2. /\ Zero(d \o rest, T) <=> Zero(d, T) /\ Zero(rest, T)
          /\ One(d \o rest, T) <=> (One(d, T) /\ Zero(rest, T)) \/ (Zero(d, T) /\ One(rest, T))
      BY <3>1, CountConcat
    <3> QED BY <3>1, <3>2 DEF T
  <2> HIDE DEF d
  <2> QED BY <2>1
<1>8. OrderInv'
  BY <1>1, SameOrder
<1>9. agenda' \in [Actors -> Seq(Pending)] /\ OwnEvents' /\ Idle'
  BY <1>1, <1>5, <1>6, AgendaStep
<1>10. BusType'
  BY <1>1, <1>9 DEF BusType
<1>11. DeliveryInv'
  BY <1>1, <1>5, <1>7, Settled
<1>12. <<ev, s>> \notin dead
  <2>1. Head(agenda[a]) \in Offers(ev, s)
    BY <1>1, OwnHead, CallKinds
  <2> QED BY <1>1, <1>2, <2>1, OfferedNow DEF IsOffered, Unsettled
<1>13. EventInv'
  BY <1>1, <1>2, <1>12, EventsLetter
<1> QED BY <1>8, <1>9, <1>10, <1>11, <1>13 DEF BusInv

(* An offer that is not settled yet.                                       *)
LEMMA OfferKept ==
  ASSUME BusInv, NEW a \in Actors, agenda[a] # <<>>, Head(agenda[a]).call # "match",
         NEW calls \in Seq(Pending), Zero(calls, Strays(a)), \A e : Zero(calls, MatchesOf(e)),
         \A e, t : IF Head(agenda[a]) \in Offers(e, t) THEN One(calls, Offers(e, t))
                                                      ELSE Zero(calls, Offers(e, t)),
         Then(a, calls), UNCHANGED <<queue, dead, due, handling, handled, published>>
  PROVE  BusInv'
<1>1. BusType /\ OwnEvents /\ OrderInv /\ DeliveryInv /\ EventInv /\ Idle
  BY DEF BusInv
<1>2. agenda' \in [Actors -> Seq(Pending)] /\ OwnEvents' /\ Idle'
  BY <1>1, AgendaStep
<1>3. OrderInv' /\ BusType'
  BY <1>1, <1>2, SameOrder DEF BusType
<1>4. DeliveryInv'
  <2>1. CASE Subs = {}
    BY <2>1 DEF DeliveryInv
  <2>2. ASSUME NEW s \in Subs PROVE DeliveryInv'
    BY <1>1, StillOffered
  <2> QED BY <2>1, <2>2
<1>5. EventInv'
  BY <1>1, EventsQuiet
<1> QED BY <1>2, <1>3, <1>4, <1>5 DEF BusInv

-----------------------------------------------------------------------------
(* enqueue, offered to the next subscription of a round.                   *)
LEMMA SendStep == ASSUME BusInv, NEW a \in Actors, DoSend(a) PROVE BusInv'
<1>1. BusType /\ OwnEvents /\ agenda[a] # <<>> /\ Calls(a, "send") /\ Head(agenda[a]).call = "send"
      /\ UNCHANGED <<sub, handling, published, due, handled>>
  BY DEF BusInv, DoSend, Calls
<1>2. Head(agenda[a]).call # "match"
  BY <1>1
<1>3. PICK s \in Head(agenda[a]).to : SendQueued(a, s) \/ SendOverflow(a, s) \/ SendPanics(s)
  BY DEF DoSend
<1>4. /\ Others(a, s) \in Seq(Pending) /\ \A e : Zero(Others(a, s), MatchesOf(e))
      /\ \A e, t : IF Head(agenda[a]) \in Offers(e, t) /\ t # s THEN One(Others(a, s), Offers(e, t))
                                                           ELSE Zero(Others(a, s), Offers(e, t))
      /\ Zero(Others(a, s), Strays(a))
  BY <1>1, OwnHead, CountOthers
<1>5. CASE SendQueued(a, s)
  <2>1. /\ queue' = [queue EXCEPT ![s] = Append(@, Head(agenda[a]).event)]
        /\ Then(a, Others(a, s)) /\ dead' = dead
    BY <1>5 DEF SendQueued
  <2> QED BY <1>1, <1>2, <1>4, <2>1, OfferQueued
<1>6. CASE SendOverflow(a, s) /\ Policy[s] = "DropNewest"
  <2>1. /\ Then(a, DeadLetter(Head(agenda[a]).event, s) \o Others(a, s))
        /\ dead' = dead \cup {<<Head(agenda[a]).event, s>>} /\ queue' = queue
    BY <1>6 DEF SendOverflow
  <2> QED BY <1>1, <1>2, <1>4, <2>1, OfferDead
<1>7. CASE SendOverflow(a, s) /\ Policy[s] # "DropNewest"
  <2> DEFINE c == Evict(Head(agenda[a]).event, s)  calls == <<c>> \o Others(a, s)
  <2>1. Then(a, calls) /\ UNCHANGED <<dead, queue>>
    BY <1>7 DEF SendOverflow
  <2>2. Head(agenda[a]) \in Pending /\ Head(agenda[a]).event \in AllEvents
        /\ Head(agenda[a]) \notin Strays(a)
        /\ LET e == Head(agenda[a]).event IN e.kind = "event" => e.number = published[e.from]
    BY <1>1, OwnHead
  <2>3. s \in Subs /\ \A e, t : Head(agenda[a]) \in Offers(e, t)
                                <=> Head(agenda[a]).event = e /\ t \in Head(agenda[a]).to
    BY <1>2, <2>2, CallKinds
  <2>4. c \in Pending /\ c.call = "evict" /\ c.event = Head(agenda[a]).event /\ c.to = {s}
    BY <2>2, <2>3, CallsMade
  <2> HIDE DEF c
  <2>5. /\ \A e, t : c \in Offers(e, t) <=> Head(agenda[a]).event = e /\ t = s
        /\ \A e : c \notin MatchesOf(e)
    BY <2>4, CallKinds
  <2>6. c \notin Strays(a)
    BY <2>2, <2>4 DEF Strays
  <2>7. <<c>> \in Seq(Pending) /\ \A T : (Zero(<<c>>, T) <=> c \notin T) /\ (One(<<c>>, T) <=> c \in T)
    BY <2>4, CountCall
  <2>8. calls \in Seq(Pending)
    BY <1>4, <2>7, ConcatProperties
  <2>9. \A T : /\ Zero(calls, T) <=> c \notin T /\ Zero(Others(a, s), T)
               /\ One(calls, T) <=> (c \in T /\ Zero(Others(a, s), T))
                                   \/ (c \notin T /\ One(Others(a, s), T))
    <3>1. ASSUME NEW T
          PROVE  /\ Zero(calls, T) <=> c \notin T /\ Zero(Others(a, s), T)
                 /\ One(calls, T) <=> (c \in T /\ Zero(Others(a, s), T))
                                     \/ (c \notin T /\ One(Others(a, s), T))
      <4>1. /\ Zero(calls, T) <=> Zero(<<c>>, T) /\ Zero(Others(a, s), T)
            /\ One(calls, T) <=> (One(<<c>>, T) /\ Zero(Others(a, s), T))
                                \/ (Zero(<<c>>, T) /\ One(Others(a, s), T))
        BY <1>4, <2>7, CountConcat
      <4> HIDE DEF calls
      <4> QED BY <2>7, <4>1
    <3> QED BY <3>1
  <2> HIDE DEF calls
  <2>10. Zero(calls, Strays(a)) /\ \A e : Zero(calls, MatchesOf(e))
    BY <1>4, <2>5, <2>6, <2>9
  <2>11. ASSUME NEW e, NEW t
         PROVE  IF Head(agenda[a]) \in Offers(e, t) THEN One(calls, Offers(e, t))
                                                   ELSE Zero(calls, Offers(e, t))
    <3>1. CASE Head(agenda[a]) \in Offers(e, t) /\ t # s
      BY <1>4, <2>5, <2>9, <3>1
    <3>2. CASE Head(agenda[a]) \in Offers(e, t) /\ t = s
      <4>1. c \in Offers(e, t) /\ Zero(Others(a, s), Offers(e, t))
        BY <1>4, <2>3, <2>5, <3>2
      <4> QED BY <2>9, <3>2, <4>1
    <3>3. CASE Head(agenda[a]) \notin Offers(e, t)
      <4>1. c \notin Offers(e, t) /\ Zero(Others(a, s), Offers(e, t))
        BY <1>4, <2>3, <2>5, <3>3
      <4> QED BY <2>9, <3>3, <4>1
    <3> QED BY <3>1, <3>2, <3>3
  <2> QED BY <1>1, <1>2, <2>1, <2>8, <2>10, <2>11, OfferKept
<1>8. CASE SendPanics(s)
  BY <1>1, <1>8, BusSame DEF SendPanics
<1> QED BY <1>3, <1>5, <1>6, <1>7, <1>8

(* A retry has one subscription to offer its event to.                     *)
LEMMA RetryStep == ASSUME BusInv, NEW a \in Actors, DoRetry(a) PROVE BusInv'
<1>1. BusType /\ OwnEvents /\ agenda[a] # <<>> /\ Head(agenda[a]).call = "retry"
      /\ UNCHANGED <<sub, handling, published, due, handled>>
  BY DEF BusInv, DoRetry, Calls
<1>2. Head(agenda[a]).call # "match"
  BY <1>1
<1>3. PICK s \in Head(agenda[a]).to : RetryQueued(a, s) \/ RetryOverflow(a, s) \/ SendPanics(s)
  BY DEF DoRetry
<1>4. /\ <<>> \in Seq(Pending) /\ Zero(<<>>, Strays(a)) /\ \A e : Zero(<<>>, MatchesOf(e))
      /\ \A e, t : Zero(<<>>, Offers(e, t))
  BY EmptySeq, CountEmpty
<1>5. \A e, t : ~(Head(agenda[a]) \in Offers(e, t) /\ t # s)
  <2>1. Head(agenda[a]) \in Pending
    BY <1>1, OwnHead
  <2> QED BY <1>1, <2>1, CallKinds
<1>9. \A e, t : IF Head(agenda[a]) \in Offers(e, t) /\ t # s THEN One(<<>>, Offers(e, t))
                                                         ELSE Zero(<<>>, Offers(e, t))
  BY <1>4, <1>5
<1>6. CASE RetryQueued(a, s)
  <2>1. /\ queue' = [queue EXCEPT ![s] = Append(@, Head(agenda[a]).event)]
        /\ Then(a, <<>>) /\ dead' = dead
    BY <1>6 DEF RetryQueued
  <2> QED BY <1>1, <1>2, <1>4, <1>9, <2>1, OfferQueued
<1>7. CASE RetryOverflow(a, s)
  <2>1. /\ Then(a, DeadLetter(Head(agenda[a]).event, s))
        /\ dead' = dead \cup {<<Head(agenda[a]).event, s>>} /\ queue' = queue
    BY <1>7 DEF RetryOverflow
  <2>2. s \in Subs /\ Head(agenda[a]).event \in AllEvents
    BY <1>1, OwnHead, CallKinds
  <2>3. DeadLetter(Head(agenda[a]).event, s) \o <<>> = DeadLetter(Head(agenda[a]).event, s)
    BY <2>2, CountDeadLetter, ConcatEmptySeq
  <2> QED BY <1>1, <1>2, <1>4, <1>9, <2>1, <2>3, OfferDead
<1>8. CASE SendPanics(s)
  BY <1>1, <1>8, BusSame DEF SendPanics
<1> QED BY <1>3, <1>6, <1>7, <1>8

(* A single call in place of another that offers the same.                 *)
LEMMA CountRetry ==
  ASSUME BusType, OwnEvents, NEW a \in Actors, agenda[a] # <<>>, Head(agenda[a]).call = "evict",
         NEW s \in Head(agenda[a]).to
  PROVE  LET c == Retry(Head(agenda[a]).event, s) IN
         /\ s \in Subs /\ <<c>> \in Seq(Pending) /\ Zero(<<c>>, Strays(a))
         /\ \A e : Zero(<<c>>, MatchesOf(e))
         /\ \A e, t : IF Head(agenda[a]) \in Offers(e, t) THEN One(<<c>>, Offers(e, t))
                                                          ELSE Zero(<<c>>, Offers(e, t))
<1> DEFINE c == Retry(Head(agenda[a]).event, s)
<1>1. /\ Head(agenda[a]) \in Pending /\ Head(agenda[a]).event \in AllEvents
      /\ LET e == Head(agenda[a]).event IN e.kind = "event" => e.number = published[e.from]
      /\ Head(agenda[a]) \notin Strays(a)
  BY OwnHead
<1>2. /\ s \in Subs /\ Head(agenda[a]).to = {s}
      /\ \A e, t : Head(agenda[a]) \in Offers(e, t) <=> Head(agenda[a]).event = e /\ t = s
  BY <1>1, CallKinds
<1>3. c \in Pending /\ c.call = "retry" /\ c.event = Head(agenda[a]).event /\ c.to = {s}
  BY <1>1, <1>2, CallsMade
<1> HIDE DEF c
<1>4. /\ \A e, t : c \in Offers(e, t) <=> Head(agenda[a]).event = e /\ t = s
      /\ \A e : c \notin MatchesOf(e)
  BY <1>3, CallKinds
<1>5. c \notin Strays(a)
  BY <1>1, <1>3 DEF Strays
<1>6. <<c>> \in Seq(Pending) /\ \A T : (Zero(<<c>>, T) <=> c \notin T) /\ (One(<<c>>, T) <=> c \in T)
  BY <1>3, CountCall
<1> QED BY <1>2, <1>4, <1>5, <1>6 DEF c

(* Making room: the oldest event dies and the new one is offered again.    *)
LEMMA EvictStep == ASSUME BusInv, NEW a \in Actors, DoEvict(a) PROVE BusInv'
<1>1. /\ BusType /\ OwnEvents /\ OrderInv /\ DeliveryInv /\ EventInv /\ Idle
      /\ agenda[a] # <<>> /\ Head(agenda[a]).call = "evict" /\ Head(agenda[a]).call # "match"
      /\ UNCHANGED <<sub, handling, published, due, handled>>
  BY DEF BusInv, DoEvict, Calls
<1>2. PICK s \in Head(agenda[a]).to :
        LET ev == Head(agenda[a]).event IN
        IF queue[s] = <<>>
          THEN Then(a, <<Retry(ev, s)>>) /\ UNCHANGED <<queue, dead>>
          ELSE /\ queue' = [queue EXCEPT ![s] = Tail(@)]
               /\ dead' = dead \cup {<<Head(queue[s]), s>>}
               /\ Then(a, DeadLetter(Head(queue[s]), s) \o <<Retry(ev, s)>>)
  BY DEF DoEvict
<1> DEFINE c == Retry(Head(agenda[a]).event, s)
<1>3. /\ s \in Subs /\ <<c>> \in Seq(Pending) /\ Zero(<<c>>, Strays(a))
      /\ \A e : Zero(<<c>>, MatchesOf(e))
      /\ \A e, t : IF Head(agenda[a]) \in Offers(e, t) THEN One(<<c>>, Offers(e, t))
                                                       ELSE Zero(<<c>>, Offers(e, t))
  BY <1>1, CountRetry
<1>4. CASE queue[s] = <<>>
  <2>1. Then(a, <<c>>) /\ UNCHANGED <<queue, dead>>
    BY <1>2, <1>4
  <2> QED BY <1>1, <1>3, <2>1, OfferKept
<1>5. CASE queue[s] # <<>>
  <2>1. PICK x \in AllEvents : x = Head(queue[s])
    BY <1>1, <1>3, <1>5, QueuedNow
  <2> DEFINE d == DeadLetter(x, s)
  <2>2. /\ Then(a, d \o <<c>>) /\ queue' = [queue EXCEPT ![s] = Tail(@)]
        /\ dead' = dead \cup {<<x, s>>}
    BY <1>2, <1>5, <2>1
  <2> HIDE DEF c
  <2>3. /\ d \in Seq(Pending) /\ Zero(d, Strays(a))
        /\ \A e, t : t \in Subs => Zero(d, Offers(e, t))
    BY <1>3, <2>1, CountDeadLetter
  <2>4. \A e, t : t \notin Subs => Zero(d, Offers(e, t))
    BY <2>3, CallKinds, ElementOfSeq, LenProperties DEF Zero
  <2>5. d \o <<c>> \in Seq(Pending) /\ Zero(d \o <<c>>, Strays(a))
    BY <1>3, <2>3, ConcatProperties, CountConcat
  <2>6. ASSUME NEW e, NEW t
        PROVE  IF Head(agenda[a]) \in Offers(e, t) THEN One(d \o <<c>>, Offers(e, t))
                                                  ELSE Zero(d \o <<c>>, Offers(e, t))
    <3> DEFINE T == Offers(e, t)
    <3>1. Zero(d, T) /\ d \in Seq(Pending)
      BY <2>3, <2>4
    <3> HIDE DEF d, T
    <3>2. /\ Zero(d \o <<c>>, T) <=> Zero(d, T) /\ Zero(<<c>>, T)
          /\ One(d \o <<c>>, T) <=> (One(d, T) /\ Zero(<<c>>, T)) \/ (Zero(d, T) /\ One(<<c>>, T))
      BY <1>3, <3>1, CountConcat
    <3>3. IF Head(agenda[a]) \in T THEN One(<<c>>, T) ELSE Zero(<<c>>, T)
      BY <1>3 DEF T
    <3>4. IF Head(agenda[a]) \in T THEN One(d \o <<c>>, T) ELSE Zero(d \o <<c>>, T)
      BY <3>1, <3>2, <3>3
    <3> QED BY <3>4 DEF T
  <2>7. OrderInv' /\ queue' \in [Subs -> Seq(AllEvents)]
    BY <1>1, <1>3, <1>5, <2>2, EvictOrder
  <2>8. agenda' \in [Actors -> Seq(Pending)] /\ OwnEvents' /\ Idle'
    BY <1>1, <2>2, <2>5, AgendaStep
  <2>9. BusType'
    BY <1>1, <2>7, <2>8 DEF BusType
  <2>10. DeliveryInv'
    <3> HIDE DEF d
    <3> QED BY <1>1, <1>3, <1>5, <2>1, <2>2, <2>5, <2>6, StillOffered
  <2>11. <<x, s>> \notin dead
    BY <1>1, <1>3, <1>5, <2>1, QueuedNow DEF IsQueued, Unsettled
  <2>12. EventInv'
    BY <1>1, <1>3, <2>2, <2>11, EventsLetter
  <2> QED BY <2>7, <2>8, <2>9, <2>10, <2>12 DEF BusInv
<1> QED BY <1>4, <1>5

-----------------------------------------------------------------------------
(* getMatchingSubscribers: the deliveries of the event are decided on.     *)
LEMMA MatchStep == ASSUME BusInv, NEW a \in Actors, DoMatch(a) PROVE BusInv'
<1>1. /\ BusType /\ OwnEvents /\ OrderInv /\ DeliveryInv /\ EventInv /\ Idle
      /\ agenda[a] # <<>> /\ Head(agenda[a]).call = "match"
      /\ UNCHANGED <<sub, queue, handling, published, handled, dead, panicked>>
  BY DEF BusInv, DoMatch, Calls
<1>2. /\ Head(agenda[a]) \in Pending /\ Head(agenda[a]) \notin Strays(a)
      /\ Head(agenda[a]).event \in AllEvents
      /\ LET e == Head(agenda[a]).event IN e.kind = "event" => e.number = published[e.from]
  BY <1>1, OwnHead
<1>3. PICK ev \in AllEvents, m \in SUBSET Subs :
        /\ ev = Head(agenda[a]).event
        /\ Then(a, IF m = {} THEN <<>> ELSE <<Send(ev, m)>>)
        /\ due' = due \cup {<<ev, s>> : s \in m}
  BY <1>2 DEF DoMatch
<1> DEFINE calls == IF m = {} THEN <<>> ELSE <<Send(ev, m)>>
<1>4. /\ calls \in Seq(Pending) /\ Zero(calls, Strays(a)) /\ \A e : Zero(calls, MatchesOf(e))
      /\ \A e, t : IF e = ev /\ t \in m THEN One(calls, Offers(e, t)) ELSE Zero(calls, Offers(e, t))
  <2>1. CASE m = {}
    BY <2>1, EmptySeq, CountEmpty
  <2>2. CASE m # {}
    <3> DEFINE c == Send(ev, m)
    <3>1. c \in Pending /\ c.call = "send" /\ c.event = ev /\ c.to = m
      BY CallsMade
    <3> HIDE DEF c
    <3>2. /\ \A e, t : c \in Offers(e, t) <=> e = ev /\ t \in m
          /\ \A e : c \notin MatchesOf(e)
      BY <3>1, CallKinds
    <3>3. c \notin Strays(a)
      BY <1>2, <1>3, <3>1 DEF Strays
    <3>4. <<c>> \in Seq(Pending) /\ \A T : (Zero(<<c>>, T) <=> c \notin T) /\ (One(<<c>>, T) <=> c \in T)
      BY <3>1, CountCall
    <3>5. calls = <<c>>
      BY <2>2 DEF c
    <3> HIDE DEF calls
    <3> QED BY <3>2, <3>3, <3>4, <3>5
  <2> QED BY <2>1, <2>2
<1>5. Then(a, calls)
  BY <1>3
<1> HIDE DEF calls
<1>6. /\ \A e, t : Head(agenda[a]) \notin Offers(e, t)
      /\ \A e : Head(agenda[a]) \in MatchesOf(e) <=> e = ev
  BY <1>1, <1>2, <1>3, CallKinds
<1>7. agenda' \in [Actors -> Seq(Pending)] /\ OwnEvents' /\ Idle'
  BY <1>1, <1>4, <1>5, AgendaStep
<1>8. OrderInv' /\ BusType'
  <2>1. due' \subseteq AllEvents \X Subs
    BY <1>1, <1>3 DEF BusType
  <2> QED BY <1>1, <1>7, <2>1, SameOrder DEF BusType
<1>9. ~NowhereIn(MatchesOf(ev)) /\ OnceIn(MatchesOf(ev)) /\ Undecided(ev) /\ Known(ev)
      /\ NowhereIn(MatchesOf(ev))'
  <2>1. ~NowhereIn(MatchesOf(ev))
    BY <1>1, <1>4, <1>5, <1>6, ThenCounts
  <2>2. OnceIn(MatchesOf(ev)) /\ Undecided(ev) /\ Known(ev)
    BY <1>1, <2>1 DEF EventInv
  <2> QED BY <1>1, <1>4, <1>5, <1>6, <2>1, <2>2, ThenCounts
<1>10. ASSUME NEW e \in AllEvents, NEW t \in Subs PROVE AccountedFor(e, t)'
  <2>1. AccountedFor(e, t)
    BY <1>1 DEF DeliveryInv
  <2>2. CASE e = ev /\ t \in m
    <3>1. <<e, t>> \notin due /\ Nowhere(e, t)
      BY <1>9, <2>1, <2>2 DEF Undecided, AccountedFor
    <3>2. OnceIn(Offers(e, t))'
      <4>1. One(calls, Offers(e, t)) /\ NowhereIn(Offers(e, t))
        BY <1>4, <2>2, <3>1 DEF Nowhere
      <4> QED BY <1>1, <1>4, <1>5, <1>6, <4>1, ThenCounts
    <3>3. IsOffered(e, t)'
      BY <1>1, <3>1, <3>2 DEF Nowhere, IsOffered, Unsettled
    <3>4. <<e, t>> \in due'
      BY <1>3, <2>2
    <3> QED BY <3>3, <3>4 DEF AccountedFor, InOnePlace
  <2>3. CASE ~(e = ev /\ t \in m)
    <3>1. Zero(calls, Offers(e, t))
      BY <1>4, <2>3
    <3>2. (NowhereIn(Offers(e, t))' <=> NowhereIn(Offers(e, t)))
          /\ (OnceIn(Offers(e, t))' <=> OnceIn(Offers(e, t)))
      BY <1>1, <1>4, <1>5, <1>6, <3>1, ThenCounts
    <3>3. <<e, t>> \in due' <=> <<e, t>> \in due
      BY <1>3, <2>3
    <3>4. SameAt(e, t)
      BY <1>1, <2>1, <3>2, <3>3, Counted DEF SameAt
    <3> QED BY <2>1, <3>4, SameStays
  <2> QED BY <2>2, <2>3
<1>11. ASSUME NEW e \in AllEvents
       PROVE  /\ NowhereIn(MatchesOf(e))' \/ (OnceIn(MatchesOf(e))' /\ Undecided(e)')
              /\ ~Known(e)' => NowhereIn(MatchesOf(e))' /\ Undecided(e)'
  <2>1. Known(e)' <=> Known(e)
    BY <1>1 DEF Known
  <2>2. CASE e = ev
    BY <1>9, <2>1, <2>2
  <2>3. CASE e # ev
    <3>1. /\ NowhereIn(MatchesOf(e))' <=> NowhereIn(MatchesOf(e))
          /\ OnceIn(MatchesOf(e))' <=> OnceIn(MatchesOf(e))
      BY <1>1, <1>4, <1>5, <1>6, <2>3, ThenCounts
    <3>2. Undecided(e)' <=> Undecided(e)
      BY <1>3, <2>3 DEF Undecided
    <3> QED BY <1>1, <2>1, <3>1, <3>2 DEF EventInv
  <2> QED BY <2>2, <2>3
<1>12. DeliveryInv' /\ EventInv'
  BY <1>10, <1>11 DEF DeliveryInv, EventInv
<1> QED BY <1>7, <1>8, <1>12 DEF BusInv

-----------------------------------------------------------------------------
(* A goroutine with nothing to do starts on something.                     *)
LEMMA FirstCalls ==
  ASSUME BusType, NEW a \in Actors, agenda[a] = <<>>, NEW calls \in Seq(Pending),
         agenda' = [agenda EXCEPT ![a] = calls]
  PROVE  /\ agenda' \in [Actors -> Seq(Pending)] /\ agenda'[a] = calls
         /\ \A b \in Actors \ {a} : agenda'[b] = agenda[b]
         /\ \A T : Zero(calls, T) => (NowhereIn(T)' <=> NowhereIn(T)) /\ (OnceIn(T)' <=> OnceIn(T))
         /\ \A T : One(calls, T) /\ NowhereIn(T) => OnceIn(T)'
<1>1. /\ agenda' \in [Actors -> Seq(Pending)] /\ agenda'[a] = calls
      /\ \A b \in Actors \ {a} : agenda'[b] = agenda[b]
  BY DEF BusType
<1>2. ASSUME NEW T, Zero(calls, T)
      PROVE  (NowhereIn(T)' <=> NowhereIn(T)) /\ (OnceIn(T)' <=> OnceIn(T))
  <2>1. Zero(agenda[a], T) /\ ~One(agenda[a], T) /\ Zero(agenda'[a], T) /\ ~One(agenda'[a], T)
    BY <1>1, <1>2, CountEmpty, ZeroNotOne
  <2>2. ASSUME NEW b \in Actors
        PROVE  /\ Zero(agenda'[b], T) <=> Zero(agenda[b], T)
               /\ One(agenda'[b], T) <=> One(agenda[b], T)
    <3>1. CASE b = a
      BY <2>1, <3>1
    <3>2. CASE b # a
      BY <1>1, <3>2
    <3> QED BY <3>1, <3>2
  <2>3. NowhereIn(T)' <=> NowhereIn(T)
    BY <2>2 DEF NowhereIn
  <2>4. ASSUME OnceIn(T) PROVE OnceIn(T)'
    BY <2>2, <2>4 DEF OnceIn
  <2>5. ASSUME OnceIn(T)' PROVE OnceIn(T)
    BY <2>2, <2>5 DEF OnceIn
  <2> QED BY <2>3, <2>4, <2>5
<1>3. ASSUME NEW T, One(calls, T), NowhereIn(T) PROVE OnceIn(T)'
  BY <1>1, <1>3 DEF NowhereIn, OnceIn
<1> QED BY <1>1, <1>2, <1>3

(* Publishing an event that nobody has heard of.                           *)
LEMMA PublishStep == ASSUME BusInv, NEW p \in Publishers, Publish(p) PROVE BusInv'
<1>1. /\ BusType /\ OwnEvents /\ OrderInv /\ DeliveryInv /\ EventInv /\ Idle
      /\ agenda[p] = <<>> /\ p \in Actors /\ p \notin Subs
      /\ UNCHANGED <<sub, queue, handling, due, handled, dead, panicked>>
  BY BusAssumption DEF BusInv, Publish, Actors
<1>2. PICK n : n = published[p] + 1
  OBVIOUS
<1>3. /\ n \in 1..MaxEvents /\ published' \in [Publishers -> 0..MaxEvents] /\ published'[p] = n
      /\ published[p] = n - 1 /\ published[p] \in Nat
      /\ \A r \in Publishers \ {p} : published'[r] = published[r]
  <2>1. published[p] \in Nat
    BY <1>1, BusAssumption DEF BusType
  <2> QED BY <1>1, <1>2, <2>1, PublishOrder
<1> DEFINE ev == Event(p, n)  c == Match(ev)
<1>4. ev \in AllEvents /\ ev.kind = "event" /\ ev.from = p /\ ev.number = n
  BY <1>3 DEF Event, Events, AllEvents
<1>5. agenda' = [agenda EXCEPT ![p] = <<c>>]
  BY <1>2 DEF Publish
<1> HIDE DEF ev
<1>6. c \in Pending /\ c.call = "match" /\ c.event = ev
  BY <1>4, CallsMade
<1> HIDE DEF c
<1>7. /\ <<c>> \in Seq(Pending) /\ \A e, t : Zero(<<c>>, Offers(e, t))
      /\ \A e : IF e = ev THEN One(<<c>>, MatchesOf(e)) ELSE Zero(<<c>>, MatchesOf(e))
  <2>1. <<c>> \in Seq(Pending) /\ \A T : (Zero(<<c>>, T) <=> c \notin T) /\ (One(<<c>>, T) <=> c \in T)
    BY <1>6, CountCall
  <2>2. /\ \A e, t : c \notin Offers(e, t)
        /\ \A e : c \in MatchesOf(e) <=> e = ev
    BY <1>6, CallKinds
  <2> QED BY <2>1, <2>2
<1>8. OrderInv' /\ BusType'
  BY <1>1, <1>3, <1>5, <1>7, FirstCalls, PublishOrder DEF BusType
<1>9. OwnEvents'
  <2>1. c \notin Strays(p)'
    BY <1>3, <1>4, <1>6 DEF Strays
  <2>2. agenda'[p] = <<c>> /\ \A b \in Actors \ {p} : agenda'[b] = agenda[b]
    BY <1>1, <1>5, <1>7, FirstCalls
  <2>3. Zero(agenda'[p], Strays(p)')
    BY <1>6, <2>1, <2>2, CountCall
  <2>4. ASSUME NEW b \in Actors, b # p PROVE Zero(agenda'[b], Strays(b)')
    <3>1. Strays(b)' \subseteq Strays(b)
      <4> SUFFICES ASSUME NEW d \in Pending, d.event.kind = "event",
                          d.event.from = b, d.event.number = published[b]
                   PROVE  published'[b] = published[b]
        BY DEF Strays
      <4>1. b \in Publishers
        BY CallKinds, EventKinds
      <4> QED BY <1>3, <2>4, <4>1
    <3> QED BY <1>1, <2>2, <2>4, <3>1 DEF OwnEvents, Zero
  <2> QED BY <2>3, <2>4 DEF OwnEvents
<1>10. Idle'
  <2>1. \A s \in Subs : s \in Actors \ {p}
    BY <1>1 DEF Actors
  <2> QED BY <1>1, <1>5, <1>7, <2>1, FirstCalls DEF Idle
<1>11. ASSUME NEW e \in AllEvents, NEW t \in Subs PROVE AccountedFor(e, t)'
  <2>1. AccountedFor(e, t)
    BY <1>1 DEF DeliveryInv
  <2>2. (NowhereIn(Offers(e, t))' <=> NowhereIn(Offers(e, t)))
        /\ (OnceIn(Offers(e, t))' <=> OnceIn(Offers(e, t)))
    BY <1>1, <1>5, <1>7, FirstCalls
  <2>3. SameAt(e, t)
    BY <1>1, <2>1, <2>2, Counted DEF SameAt
  <2> QED BY <2>1, <2>3, SameStays
<1>12. \A e \in AllEvents : Known(e) => Known(e)'
  <2> SUFFICES ASSUME NEW e \in AllEvents, e.kind = "event", e.number <= published[e.from]
               PROVE  e.number <= published'[e.from]
    BY <1>1 DEF Known
  <2>1. e.from \in Publishers /\ e.number \in Nat
    BY EventKinds
  <2> QED BY <1>3, <2>1
<1>13. ~Known(ev) /\ Known(ev)'
  BY <1>3, <1>4 DEF Known
<1>14. ASSUME NEW e \in AllEvents
       PROVE  /\ NowhereIn(MatchesOf(e))' \/ (OnceIn(MatchesOf(e))' /\ Undecided(e)')
              /\ ~Known(e)' => NowhereIn(MatchesOf(e))' /\ Undecided(e)'
  <2>1. Undecided(e)' <=> Undecided(e)
    BY <1>1 DEF Undecided
  <2>2. /\ NowhereIn(MatchesOf(e)) \/ (OnceIn(MatchesOf(e)) /\ Undecided(e))
        /\ ~Known(e) => NowhereIn(MatchesOf(e)) /\ Undecided(e)
    BY <1>1 DEF EventInv
  <2>3. CASE e = ev
    <3>1. ~Known(e) /\ Known(e)'
      BY <1>13, <2>3 DEF Known, ev
    <3>2. OnceIn(MatchesOf(e))'
      BY <1>1, <1>5, <1>7, <2>2, <2>3, <3>1, FirstCalls
    <3> QED BY <2>1, <2>2, <3>1, <3>2
  <2>4. CASE e # ev
    <3>1. /\ NowhereIn(MatchesOf(e))' <=> NowhereIn(MatchesOf(e))
          /\ OnceIn(MatchesOf(e))' <=> OnceIn(MatchesOf(e))
      BY <1>1, <1>5, <1>7, <2>4, FirstCalls
    <3> QED BY <1>12, <2>1, <2>2, <3>1
  <2> QED BY <2>3, <2>4
<1>15. DeliveryInv' /\ EventInv'
  BY <1>11, <1>14 DEF DeliveryInv, EventInv
<1> QED BY <1>8, <1>9, <1>10, <1>15 DEF BusInv

-----------------------------------------------------------------------------
(* An event moves from the head of a queue to the handler.                 *)
LEMMA TakeStep == ASSUME BusInv, NEW s \in Subs, Take(s) PROVE BusInv'
<1>1. /\ BusType /\ OwnEvents /\ OrderInv /\ DeliveryInv /\ EventInv /\ Idle
      /\ agenda[s] = <<>> /\ handling[s] = None /\ queue[s] # <<>>
      /\ UNCHANGED <<sub, agenda, published, due, handled, dead, panicked>>
  BY DEF BusInv, Take
<1>2. /\ OrderInv' /\ queue' \in [Subs -> Seq(AllEvents)]
      /\ handling' \in [Subs -> AllEvents \cup {None}]
  BY <1>1, TakeOrder
<1>3. PICK x \in AllEvents : x = Head(queue[s]) /\ <<x, s>> \in due /\ IsQueued(x, s)
  BY <1>1, QueuedNow
<1>4. /\ handling'[s] = x /\ queue'[s] = Tail(queue[s]) /\ x # None
      /\ \A t \in Subs \ {s} : queue'[t] = queue[t] /\ handling'[t] = handling[t]
  BY <1>1, <1>3, EventKinds DEF Take, BusType
<1>5. BusType' /\ Idle'
  BY <1>1, <1>2, <1>4 DEF BusType, Idle
<1>6. OwnEvents'
  BY <1>1 DEF OwnEvents, Strays
<1>7. \A T : (NowhereIn(T)' <=> NowhereIn(T)) /\ (OnceIn(T)' <=> OnceIn(T))
  BY <1>1 DEF NowhereIn, OnceIn
<1>8. \A e : /\ Zero(queue[s], {e}) <=> x # e /\ Zero(queue'[s], {e})
             /\ One(queue[s], {e}) <=> IF x = e THEN Zero(queue'[s], {e}) ELSE One(queue'[s], {e})
  <2>1. ASSUME NEW e
        PROVE  /\ Zero(queue[s], {e}) <=> x # e /\ Zero(queue'[s], {e})
               /\ One(queue[s], {e}) <=> IF x = e THEN Zero(queue'[s], {e}) ELSE One(queue'[s], {e})
    <3>1. (x \in {e} <=> x = e) /\ queue[s] \in Seq(AllEvents)
      BY <1>1 DEF BusType
    <3>2. /\ Zero(queue[s], {e}) <=> x \notin {e} /\ Zero(Tail(queue[s]), {e})
          /\ One(queue[s], {e}) <=> IF x \in {e} THEN Zero(Tail(queue[s]), {e})
                                                 ELSE One(Tail(queue[s]), {e})
      BY <1>1, <1>3, <3>1, CountTail
    <3> QED BY <1>4, <3>1, <3>2
  <2> QED BY <2>1
<1>9. ASSUME NEW e \in AllEvents, NEW t \in Subs, ~(e = x /\ t = s) PROVE AccountedFor(e, t)'
  <2>1. AccountedFor(e, t)
    BY <1>1 DEF DeliveryInv
  <2>2. (Zero(queue[t], {e}) /\ Zero(queue[t], {e})') \/ (One(queue[t], {e}) /\ One(queue[t], {e})')
    <3>1. CASE t # s
      BY <1>4, <2>1, <3>1, Counted
    <3>2. CASE t = s
      BY <1>8, <1>9, <2>1, <3>2, Counted
    <3> QED BY <3>1, <3>2
  <2>3. (handling[t] = e)' <=> handling[t] = e
    BY <1>1, <1>4, <1>9, EventKinds
  <2>4. SameAt(e, t)
    BY <1>1, <1>7, <2>1, <2>2, <2>3, Counted DEF SameAt
  <2> QED BY <2>1, <2>4, SameStays
<1>10. AccountedFor(x, s)'
  <2>1. NowhereIn(Offers(x, s))' /\ Zero(queue[s], {x})'
    BY <1>3, <1>7, <1>8 DEF IsQueued
  <2>2. IsHandling(x, s)'
    BY <1>1, <1>3, <1>4, <2>1 DEF IsHandling, IsQueued, Unsettled
  <2> QED BY <1>1, <1>3, <2>2 DEF AccountedFor, InOnePlace
<1>11. DeliveryInv'
  BY <1>9, <1>10 DEF DeliveryInv
<1>12. EventInv'
  BY <1>1, <1>7, EventsStay
<1> QED BY <1>2, <1>5, <1>6, <1>11, <1>12 DEF BusInv

(* The handler has returned: its delivery is handled, or dead with a letter*)
(* to publish.                                                             *)
LEMMA HandlerStep ==
  ASSUME BusInv, NEW s \in Subs, HandlerSucceeds(s) \/ HandlerFails(s) PROVE BusInv'
<1>1. /\ BusType /\ OwnEvents /\ OrderInv /\ DeliveryInv /\ EventInv /\ Idle
      /\ handling[s] # None /\ agenda[s] = <<>> /\ s \in Actors
      /\ UNCHANGED <<sub, queue, published, due, panicked>>
  BY DEF BusInv, HandlerSucceeds, HandlerFails, Idle, Actors
<1>2. PICK x \in AllEvents : x = handling[s] /\ <<x, s>> \in due /\ IsHandling(x, s)
  BY <1>1, HandlingNow
<1>3. /\ handling' = [handling EXCEPT ![s] = None]
      /\ \/ handled' = handled \cup {<<x, s>>} /\ dead' = dead /\ agenda' = agenda
         \/ /\ handled' = handled /\ dead' = dead \cup {<<x, s>>}
            /\ agenda' = [agenda EXCEPT ![s] = DeadLetter(x, s)]
  BY <1>2 DEF HandlerSucceeds, HandlerFails
<1>4. /\ handling'[s] = None /\ x # None
      /\ \A t \in Subs \ {s} : handling'[t] = handling[t]
  <2>1. x # None
    BY EventKinds
  <2> QED BY <1>1, <1>3, <2>1 DEF BusType
<1>5. /\ OrderInv' /\ handling' \in [Subs -> AllEvents \cup {None}]
      /\ handled' \subseteq AllEvents \X Subs
  BY <1>1, <1>2, <1>3, HandlerOrder
<1> DEFINE d == DeadLetter(x, s)
<1>6. /\ d \in Seq(Pending)
      /\ \A e, t : Zero(d, Offers(e, t))
      /\ \A a \in Actors : Zero(d, Strays(a))
      /\ \A e \in AllEvents : IF x \in Events /\ e = Letter(x, s) THEN One(d, MatchesOf(e))
                                                             ELSE Zero(d, MatchesOf(e))
  BY CountDeadLetter
<1> HIDE DEF d
<1>7. /\ agenda' \in [Actors -> Seq(Pending)] /\ (agenda'[s] = agenda[s] \/ agenda'[s] = d)
      /\ \A b \in Actors \ {s} : agenda'[b] = agenda[b]
  <2>1. CASE agenda' = agenda
    BY <1>1, <2>1 DEF BusType
  <2>2. CASE agenda' = [agenda EXCEPT ![s] = d]
    BY <1>1, <1>6, <2>2, FirstCalls
  <2> QED BY <1>3, <2>1, <2>2 DEF d
<1>8. BusType'
  BY <1>1, <1>5, <1>7 DEF BusType
<1>9. OwnEvents'
  <2>1. \A b \in Actors : Strays(b)' = Strays(b)
    BY <1>1 DEF Strays
  <2>2. ASSUME NEW b \in Actors PROVE Zero(agenda'[b], Strays(b))
    <3>1. CASE b = s
      BY <1>1, <1>6, <1>7, <3>1 DEF OwnEvents
    <3>2. CASE b # s
      BY <1>1, <1>7, <3>2 DEF OwnEvents
    <3> QED BY <3>1, <3>2
  <2> QED BY <2>1, <2>2 DEF OwnEvents
<1>10. Idle'
  BY <1>1, <1>4, <1>7 DEF Idle, Actors
<1>11. ASSUME NEW e, NEW t \in Subs
       PROVE  (NowhereIn(Offers(e, t))' <=> NowhereIn(Offers(e, t)))
              /\ (OnceIn(Offers(e, t))' <=> OnceIn(Offers(e, t)))
  <2>1. CASE agenda' = agenda
    BY <2>1 DEF NowhereIn, OnceIn
  <2>2. CASE agenda' = [agenda EXCEPT ![s] = d]
    <3>1. Zero(d, Offers(e, t))
      BY <1>6
    <3> QED BY <1>1, <1>6, <2>2, <3>1, FirstCalls
  <2> QED BY <1>3, <2>1, <2>2 DEF d
<1>12. ASSUME NEW e \in AllEvents, NEW t \in Subs, ~(e = x /\ t = s) PROVE AccountedFor(e, t)'
  <2>1. AccountedFor(e, t)
    BY <1>1 DEF DeliveryInv
  <2>2. (handling[t] = e)' <=> handling[t] = e
    BY <1>2, <1>4, <1>12, EventKinds
  <2>3. /\ <<e, t>> \in handled' <=> <<e, t>> \in handled
        /\ <<e, t>> \in dead' <=> <<e, t>> \in dead
    BY <1>3, <1>12
  <2>4. SameAt(e, t)
    BY <1>1, <1>11, <2>1, <2>2, <2>3, Counted DEF SameAt
  <2> QED BY <2>1, <2>4, SameStays
<1>13. AccountedFor(x, s)'
  <2>1. NowhereIn(Offers(x, s))' /\ Zero(queue[s], {x})' /\ handling'[s] # x
        /\ <<x, s>> \notin handled /\ <<x, s>> \notin dead /\ <<x, s>> \in due'
    BY <1>1, <1>2, <1>4, <1>11 DEF IsHandling
  <2>2. IsHandled(x, s)' \/ IsDead(x, s)'
    BY <1>3, <2>1 DEF IsHandled, IsDead
  <2> QED BY <2>1, <2>2 DEF AccountedFor, InOnePlace
<1>14. DeliveryInv'
  BY <1>12, <1>13 DEF DeliveryInv
<1>15. ASSUME NEW e \in AllEvents
       PROVE  \/ (NowhereIn(MatchesOf(e)) => NowhereIn(MatchesOf(e))')
                 /\ (OnceIn(MatchesOf(e)) => OnceIn(MatchesOf(e))')
              \/ ~Known(e) /\ Known(e)' /\ (NowhereIn(MatchesOf(e)) => OnceIn(MatchesOf(e))')
  <2>1. CASE agenda' = agenda
    BY <2>1 DEF NowhereIn, OnceIn
  <2>2. CASE agenda' = [agenda EXCEPT ![s] = d] /\ dead' = dead \cup {<<x, s>>}
    <3>1. CASE x \in Events /\ e = Letter(x, s)
      <4>1. NowhereIn(MatchesOf(e)) => OnceIn(MatchesOf(e))'
        BY <1>1, <1>6, <2>2, <3>1, FirstCalls
      <4>2. e.kind # "event" /\ e.of = x /\ e.at = s
        BY <3>1, NewLetter
      <4>3. <<x, s>> \notin dead
        BY <1>2 DEF IsHandling
      <4> QED BY <2>2, <4>1, <4>2, <4>3 DEF Known
    <3>2. CASE ~(x \in Events /\ e = Letter(x, s))
      <4>1. Zero(d, MatchesOf(e))
        BY <1>6, <3>2
      <4> QED BY <1>1, <1>6, <2>2, <4>1, FirstCalls
    <3> QED BY <3>1, <3>2
  <2> QED BY <1>3, <2>1, <2>2 DEF d
<1>16. EventInv'
  <2>1. dead \subseteq dead'
    BY <1>3
  <2> QED BY <1>1, <1>15, <2>1, EventsStay
<1> QED BY <1>5, <1>8, <1>9, <1>10, <1>14, <1>16 DEF BusInv

-----------------------------------------------------------------------------
(* Nothing is anywhere.                                                    *)
LEMMA BusInit == Init => BusInv
<1> SUFFICES ASSUME Init PROVE BusInv
  OBVIOUS
<1>1. BusType
  BY EmptySeq, BusAssumption DEF Init, BusType
<1>2. \A T : \A a \in Actors : Zero(agenda[a], T)
  BY CountEmpty DEF Init
<1>3. \A T : \A s \in Subs : Zero(queue[s], T)
  BY CountEmpty DEF Init
<1>4. \A T : NowhereIn(T)
  BY <1>2 DEF NowhereIn
<1>5. \A s \in Subs : handling[s] = None /\ None \notin AllEvents /\ queue[s] = <<>>
  BY BusAssumption DEF Init, AllEvents
<1>6. OrderInv
  BY <1>3, <1>5 DEF Init, OrderInv, Ahead, QueueInOrder, HandlingIsFirst, HandledBefore
<1>7. DeliveryInv
  BY <1>3, <1>4, <1>5 DEF Init, DeliveryInv, AccountedFor, Nowhere, Unsettled
<1>8. EventInv /\ Idle /\ OwnEvents
  BY <1>2, <1>4, <1>5 DEF Init, EventInv, Undecided, Idle, OwnEvents
<1> QED BY <1>1, <1>6, <1>7, <1>8 DEF BusInv

(* Every step keeps the invariant.                                         *)
LEMMA BusNext == BusInv /\ [Next]_vars => BusInv'
<1> SUFFICES ASSUME BusInv, [Next]_vars PROVE BusInv'
  OBVIOUS
<1>1. ASSUME NEW s \in Subs, Subscribe(s) \/ Unsubscribe(s) PROVE BusInv'
  BY <1>1, BusSame DEF Subscribe, Unsubscribe
<1>2. ASSUME NEW s \in Subs, Handle(s) PROVE BusInv'
  BY <1>2, TakeStep, HandlerStep DEF Handle
<1>3. ASSUME NEW p \in Publishers, Publish(p) PROVE BusInv'
  BY <1>3, PublishStep
<1>4. ASSUME NEW a \in Actors, Work(a) PROVE BusInv'
  BY <1>4, MatchStep, SendStep, EvictStep, RetryStep DEF Work
<1>5. CASE UNCHANGED vars
  BY <1>5, BusSame DEF vars
<1> QED BY <1>1, <1>2, <1>3, <1>4, <1>5 DEF Next

(* A count is about positions.                                             *)
LEMMA CountPositions ==
  ASSUME NEW q, NEW T
  PROVE  /\ Zero(q, T) => Positions(q, T) = {}
         /\ One(q, T) => \E k : Positions(q, T) = {k}
<1>1. Zero(q, T) => Positions(q, T) = {}
  BY DEF Zero, Positions
<1>2. ASSUME One(q, T) PROVE \E k : Positions(q, T) = {k}
  <2>1. PICK k \in DOMAIN q : q[k] \in T /\ \A l \in DOMAIN q : q[l] \in T => l = k
    BY <1>2 DEF One
  <2>2. Positions(q, T) = {k}
    BY <2>1 DEF Positions
  <2> QED BY <2>2
<1> QED BY <1>1, <1>2

(* The places on the agendas: none or one.                                 *)
OfferPlaces(e, t) ==
  UNION {{<<"offered", a, k>> : k \in Positions(agenda[a], Offers(e, t))} : a \in Actors}

(* As many places as there are offers, if there is one or none.            *)
LEMMA CountOffers ==
  ASSUME NEW e, NEW t
  PROVE  /\ NowhereIn(Offers(e, t)) => OfferPlaces(e, t) = {}
         /\ OnceIn(Offers(e, t)) => \E a, k : OfferPlaces(e, t) = {<<"offered", a, k>>}
<1> DEFINE T == Offers(e, t)
           At(a) == {<<"offered", a, k>> : k \in Positions(agenda[a], T)}
<1>1. OfferPlaces(e, t) = UNION {At(a) : a \in Actors}
  BY DEF OfferPlaces
<1> HIDE DEF T
<1>2. \A a : Zero(agenda[a], T) => At(a) = {}
  <2> SUFFICES ASSUME NEW a, Zero(agenda[a], T) PROVE At(a) = {}
    OBVIOUS
  <2>1. Positions(agenda[a], T) = {}
    BY CountPositions
  <2> QED BY <2>1
<1>3. ASSUME NEW a, One(agenda[a], T) PROVE \E k : At(a) = {<<"offered", a, k>>}
  <2>1. PICK k : Positions(agenda[a], T) = {k}
    BY <1>3, CountPositions
  <2>2. At(a) = {<<"offered", a, k>>}
    BY <2>1
  <2> QED BY <2>2
<1> HIDE DEF At
<1>4. ASSUME NowhereIn(T) PROVE UNION {At(a) : a \in Actors} = {}
  <2>1. \A a \in Actors : At(a) = {}
    BY <1>2, <1>4 DEF NowhereIn
  <2> QED BY <2>1
<1>5. ASSUME OnceIn(T) PROVE \E a, k : UNION {At(b) : b \in Actors} = {<<"offered", a, k>>}
  <2>1. PICK a \in Actors : One(agenda[a], T) /\ \A b \in Actors \ {a} : Zero(agenda[b], T)
    BY <1>5 DEF OnceIn
  <2>2. PICK k : At(a) = {<<"offered", a, k>>}
    BY <1>3, <2>1
  <2>3. \A b \in Actors \ {a} : At(b) = {}
    BY <1>2, <2>1
  <2>4. UNION {At(b) : b \in Actors} = At(a)
    BY <2>3
  <2> QED BY <2>2, <2>4
<1> QED BY <1>1, <1>4, <1>5 DEF T

(* The counts are about the places: what is counted once is in one.        *)
LEMMA OnePlace == BusInv => ExactlyOnePlace
<1> SUFFICES ASSUME BusInv, NEW d \in due
             PROVE  \E place \in Places(d[1], d[2]) : Places(d[1], d[2]) = {place}
  BY DEF ExactlyOnePlace
<1>1. due \subseteq AllEvents \X Subs /\ DeliveryInv
  BY DEF BusInv, BusType
<1>2. PICK e \in AllEvents, t \in Subs : d = <<e, t>>
  BY <1>1
<1> DEFINE Q == {<<"queued", t, k>> : k \in Positions(queue[t], {e})}
           H == IF handling[t] = e THEN {<<"handling", t, 0>>} ELSE {}
           D == IF <<e, t>> \in handled THEN {<<"handled", t, 0>>} ELSE {}
           X == IF <<e, t>> \in dead THEN {<<"dead", t, 0>>} ELSE {}
<1>3. Places(e, t) = OfferPlaces(e, t) \cup Q \cup H \cup D \cup X
  BY DEF Places, OfferPlaces
<1>4. Zero(queue[t], {e}) => Q = {}
  <2> SUFFICES ASSUME Zero(queue[t], {e}) PROVE Q = {}
    OBVIOUS
  <2>1. Positions(queue[t], {e}) = {}
    BY CountPositions
  <2> QED BY <2>1
<1>5. ASSUME One(queue[t], {e}) PROVE \E k : Q = {<<"queued", t, k>>}
  <2>1. PICK k : Positions(queue[t], {e}) = {k}
    BY <1>5, CountPositions
  <2>2. Q = {<<"queued", t, k>>}
    BY <2>1
  <2> QED BY <2>2
<1> HIDE DEF Q
<1>6. IsOffered(e, t) \/ IsQueued(e, t) \/ IsHandling(e, t) \/ IsHandled(e, t) \/ IsDead(e, t)
  <2>1. AccountedFor(e, t) /\ <<e, t>> \in due
    BY <1>1, <1>2 DEF DeliveryInv
  <2> QED BY <2>1 DEF AccountedFor, InOnePlace
<1>7. \E place : Places(e, t) = {place}
  <2>1. CASE IsOffered(e, t)
    <3>1. PICK a, k : OfferPlaces(e, t) = {<<"offered", a, k>>}
      BY <2>1, CountOffers DEF IsOffered
    <3>2. Q = {} /\ H = {} /\ D = {} /\ X = {}
      BY <1>4, <2>1 DEF IsOffered, Unsettled
    <3> QED BY <1>3, <3>1, <3>2
  <2>2. CASE IsQueued(e, t)
    <3>1. PICK k : Q = {<<"queued", t, k>>}
      BY <1>5, <2>2 DEF IsQueued
    <3>2. OfferPlaces(e, t) = {}
      BY <2>2, CountOffers DEF IsQueued
    <3>3. H = {} /\ D = {} /\ X = {}
      BY <2>2 DEF IsQueued, Unsettled
    <3> QED BY <1>3, <3>1, <3>2, <3>3
  <2>3. CASE IsHandling(e, t) \/ IsHandled(e, t) \/ IsDead(e, t)
    <3>1. NowhereIn(Offers(e, t)) /\ Zero(queue[t], {e})
      BY <2>3 DEF IsHandling, IsHandled, IsDead
    <3>2. OfferPlaces(e, t) = {} /\ Q = {}
      BY <1>4, <3>1, CountOffers
    <3>3. \/ H = {<<"handling", t, 0>>} /\ D = {} /\ X = {}
          \/ H = {} /\ D = {<<"handled", t, 0>>} /\ X = {}
          \/ H = {} /\ D = {} /\ X = {<<"dead", t, 0>>}
      BY <2>3 DEF IsHandling, IsHandled, IsDead
    <3> QED BY <1>3, <3>2, <3>3
  <2> QED BY <1>6, <2>1, <2>2, <2>3
<1> QED BY <1>2, <1>7

-----------------------------------------------------------------------------
(* A subscription sees each publisher's events in the order they were      *)
(* published, whatever overflows, fails or is cancelled in between.        *)
THEOREM EventsInOrder == Spec => []InOrder
<1>1. BusInv => InOrder
  BY OrderImplies DEF BusInv
<1> QED BY <1>1, BusInit, BusNext, PTL DEF Spec

(* No delivery is lost without a trace and none is made twice.             *)
THEOREM DeliveriesAccountedFor == Spec => []ExactlyOnePlace
  BY BusInit, BusNext, OnePlace, PTL DEF Spec

-----------------------------------------------------------------------------
(* Topics.  The loop invariant of matchTopic: while the loop runs, the     *)
(* segments before its index fit and the index is at most one past either  *)
(* end.                                                                    *)
LoopInv ==
  /\ pattern \in Patterns /\ topic \in Topics
  /\ i \in 1..(Len(pattern) + 1)
  /\ answer \in {"none", "yes", "no"}
  /\ answer = "none" => /\ pattern # <<"*">>
                        /\ i <= Len(topic) + 1
                        /\ PrefixFits(pattern, topic, i - 1)

MatchInv == LoopInv /\ AnswerIsRight

(* Sequences of segments have a length, and a topic has no double star.     *)
LEMMA Shapes ==
  ASSUME NEW p \in Patterns, NEW t \in Topics
  PROVE  /\ Len(p) \in Nat /\ Len(t) \in Nat
         /\ \A k \in 1..Len(t) : t[k] # "**" /\ t[k] \in Segments
<1>1. p \in Seq(Segments \cup {"*", "**"}) /\ t \in Seq(Segments)
  BY TopicAssumption
<1> QED BY <1>1, TopicAssumption

(* A double star that was passed over would not have fitted.                *)
LEMMA NoStarBefore ==
  ASSUME NEW p \in Patterns, NEW t \in Topics, NEW n \in Nat, n <= Len(p), n <= Len(t),
         PrefixFits(p, t, n)
  PROVE  \A k \in 1..n : p[k] # "**"
  BY Shapes DEF PrefixFits

(* The two early returns are right, and nothing is examined at first. *)
LEMMA InitMatchInv == MatchInit => MatchInv
<1> SUFFICES ASSUME MatchInit PROVE MatchInv
  OBVIOUS
<1>1. Len(pattern) \in Nat /\ Len(topic) \in Nat
  BY Shapes DEF MatchInit
<1>2. LoopInv
  BY <1>1 DEF MatchInit, LoopInv, PrefixFits
<1>3. AnswerIsRight
  BY <1>1 DEF MatchInit, AnswerIsRight, Matches, PrefixFits
<1> QED BY <1>2, <1>3 DEF MatchInv

(* The loop invariant is preserved and answers right where it returns. *)
LEMMA NextMatchInv == MatchInv /\ [MatchNext]_matchVars => MatchInv'
<1> SUFFICES ASSUME MatchInv, [MatchNext]_matchVars PROVE MatchInv'
  OBVIOUS
<1>1. /\ Len(pattern) \in Nat /\ Len(topic) \in Nat
      /\ pattern \in Patterns /\ topic \in Topics /\ i \in 1..(Len(pattern) + 1)
  BY Shapes DEF MatchInv, LoopInv
<1>2. CASE TailStar
  <2>1. Matches(pattern, topic)
    BY <1>1, <1>2 DEF TailStar, Looping, MatchInv, LoopInv, Matches
  <2> QED BY <1>2, <2>1 DEF TailStar, Looping, Return, MatchInv, LoopInv, AnswerIsRight
<1>3. CASE TopicEnds
  <2>1. i = Len(topic) + 1 /\ i <= Len(pattern) /\ PrefixFits(pattern, topic, i - 1)
        /\ pattern # <<"*">> /\ pattern[i] # "**"
    BY <1>1, <1>3 DEF TopicEnds, Looping, MatchInv, LoopInv
  <2>2. \A k \in 1..(i - 1) : pattern[k] # "**"
    BY <1>1, <2>1, NoStarBefore
  <2>3. ~Matches(pattern, topic)
    BY <1>1, <2>1, <2>2 DEF Matches
  <2> QED BY <1>3, <2>3 DEF TopicEnds, Looping, Return, MatchInv, LoopInv, AnswerIsRight
<1>4. CASE SegmentFits
  <2>1. PrefixFits(pattern, topic, i)
    BY <1>1, <1>4 DEF SegmentFits, Looping, MatchInv, LoopInv, PrefixFits
  <2> QED BY <1>1, <1>4, <2>1 DEF SegmentFits, Looping, MatchInv, LoopInv, AnswerIsRight
<1>5. CASE SegmentDiffers
  <2>1. /\ i <= Len(topic) /\ i <= Len(pattern) /\ PrefixFits(pattern, topic, i - 1)
        /\ pattern # <<"*">> /\ pattern[i] # "**" /\ pattern[i] \notin {"*", topic[i]}
    BY <1>1, <1>5 DEF SegmentDiffers, Looping, MatchInv, LoopInv
  <2>2. \A k \in 1..(i - 1) : pattern[k] # "**"
    BY <1>1, <2>1, NoStarBefore
  <2>3. \A n \in Nat : n >= i => ~PrefixFits(pattern, topic, n)
    BY <1>1, <2>1 DEF PrefixFits
  <2>4. ~Matches(pattern, topic)
    BY <1>1, <2>1, <2>2, <2>3 DEF Matches
  <2> QED BY <1>5, <2>4 DEF SegmentDiffers, Looping, Return, MatchInv, LoopInv, AnswerIsRight
<1>6. CASE PatternEnds
  <2>1. i = Len(pattern) + 1 /\ PrefixFits(pattern, topic, Len(pattern)) /\ pattern # <<"*">>
        /\ Len(pattern) <= Len(topic)
    BY <1>1, <1>6 DEF PatternEnds, MatchInv, LoopInv
  <2>2. \A k \in 1..Len(pattern) : pattern[k] # "**"
    BY <1>1, <2>1, NoStarBefore
  <2>3. Len(pattern) = Len(topic) <=> Matches(pattern, topic)
    BY <1>1, <2>1, <2>2 DEF Matches
  <2> QED BY <1>6, <2>3 DEF PatternEnds, Return, MatchInv, LoopInv, AnswerIsRight
<1>7. CASE UNCHANGED matchVars
  BY <1>7 DEF matchVars, MatchInv, LoopInv, AnswerIsRight
<1> QED BY <1>2, <1>3, <1>4, <1>5, <1>6, <1>7 DEF MatchNext

(* Whatever matchTopic answers, it is what the pattern means.               *)
THEOREM MatchTopicIsRight == MatchSpec => []AnswerIsRight
<1>1. MatchInv => AnswerIsRight
  BY DEF MatchInv
<1> QED BY <1>1, InitMatchInv, NextMatchInv, PTL DEF MatchSpec
=============================================================================
