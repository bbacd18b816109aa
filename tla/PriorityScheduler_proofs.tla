---------------------- MODULE PriorityScheduler_proofs ----------------------
(***************************************************************************)
(* Theorems about the weighted priority queue, for any executions, classes *)
(* and weights: it implements the dispatch queue the manager relies on,    *)
(* and passes no class over for long.                                      *)
(***************************************************************************)
EXTENDS PriorityScheduler, Sums, TLAPS

-----------------------------------------------------------------------------
(* Choices.                                                                *)

(* The best of some ranked classes is one of them, and better than the     *)
(* others.                                                                 *)
LEMMA HighestIsIn ==
  ASSUME NEW S, S \subseteq Ranked, S # {}
  PROVE  Highest(S) \in S /\ \A c \in S : c # Highest(S) => Highest(S) \in Better(c)
<1> DEFINE ranks == {Rank[c] : c \in S}
<1>1. ranks \subseteq Nat /\ ranks # {}
  BY ClassAssumption
<1>2. PICK m \in ranks : \A n \in ranks : m <= n
  BY <1>1, LeastNatural
<1>3. \E c \in S : \A d \in S : Rank[c] <= Rank[d]
  BY <1>2
<1>4. Highest(S) \in S /\ \A c \in S : Rank[Highest(S)] <= Rank[c]
  BY <1>3 DEF Highest
<1>5. \A c, d \in S : Rank[c] \in Nat /\ (Rank[c] = Rank[d] => c = d)
  BY ClassAssumption
<1> QED BY <1>4, <1>5 DEF Better

(* The first acceptable execution of a queue is in it, and no other is     *)
(* before it.                                                              *)
LEMMA PositionIsIn ==
  ASSUME NEW q \in Seq(Execs), NEW S, Elements(q) \cap S # {}
  PROVE  /\ Position(q, S) \in DOMAIN q /\ q[Position(q, S)] \in S
         /\ \A j \in DOMAIN q : q[j] \in S => Position(q, S) <= j
<1> DEFINE places == {i \in DOMAIN q : q[i] \in S}
<1>1. places \subseteq Nat /\ places # {}
  BY DEF Elements
<1>2. PICK m \in places : \A n \in places : m <= n
  BY <1>1, LeastNatural
<1>3. \E i \in DOMAIN q : q[i] \in S /\ \A j \in DOMAIN q : q[j] \in S => i <= j
  BY <1>2
<1> QED BY <1>3 DEF Position

-----------------------------------------------------------------------------
(* Queues.                                                                 *)
Distinct(q) == \A i, j \in DOMAIN q : q[i] = q[j] => i = j

(* The elements of two sequences joined. *)
LEMMA Joined ==
  ASSUME NEW S, NEW s \in Seq(S), NEW t \in Seq(S)
  PROVE  \A i \in 1..(Len(s) + Len(t)) : (s \o t)[i] = IF i <= Len(s) THEN s[i] ELSE t[i - Len(s)]
OBVIOUS

(* Taking one execution out of a queue moves those behind it up by one. *)
LEMMA WithoutAt ==
  ASSUME NEW q \in Seq(Execs), NEW k \in DOMAIN q
  PROVE  /\ Without(q, k) \in Seq(Execs) /\ Len(Without(q, k)) = Len(q) - 1
         /\ DOMAIN Without(q, k) = 1..(Len(q) - 1)
         /\ \A j \in 1..(Len(q) - 1) : Without(q, k)[j] = IF j < k THEN q[j] ELSE q[j + 1]
<1> DEFINE a == SubSeq(q, 1, k - 1)
           b == SubSeq(q, k + 1, Len(q))
           w == a \o b
<1>1. k \in 1..Len(q) /\ Len(q) \in Nat /\ DOMAIN q = 1..Len(q)
  OBVIOUS
<1>2. Without(q, k) = w
  BY DEF Without, SeqExt!RemoveAt
<1>3. /\ a \in Seq(Execs) /\ b \in Seq(Execs) /\ Len(a) = k - 1 /\ Len(b) = Len(q) - k
      /\ \A j \in 1..(k - 1) : a[j] = q[j]
      /\ \A j \in 1..(Len(q) - k) : b[j] = q[k + j]
  <2>1. a \in Seq(Execs) /\ Len(a) = k - 1
    BY <1>1
  <2>2. \A j \in 1..(k - 1) : a[j] = q[j]
    BY <1>1
  <2>3. b \in Seq(Execs) /\ Len(b) = Len(q) - k
    BY <1>1
  <2>4. \A j \in 1..(Len(q) - k) : b[j] = q[k + j]
    BY <1>1
  <2> QED BY <2>1, <2>2, <2>3, <2>4
<1> HIDE DEF a, b
<1>4. /\ w \in Seq(Execs) /\ Len(w) = Len(q) - 1 /\ DOMAIN w = 1..(Len(q) - 1)
  <2>1. a \in Seq(Execs) /\ b \in Seq(Execs)
    BY <1>3
  <2>2. w \in Seq(Execs)
    BY <2>1
  <2>3. Len(w) = Len(a) + Len(b)
    BY <2>1
  <2>4. Len(a) + Len(b) = Len(q) - 1
    BY <1>1, <1>3
  <2> HIDE DEF w
  <2> QED BY <2>2, <2>3, <2>4
<1>5. \A j \in 1..(Len(q) - 1) : w[j] = IF j < k THEN q[j] ELSE q[j + 1]
  <2>1. \A j \in 1..(k - 1) : w[j] = a[j]
    BY <1>1, <1>3
  <2>2. \A j \in k..(Len(q) - 1) : w[j] = b[j - (k - 1)] /\ j - (k - 1) \in 1..(Len(q) - k)
    <3>1. ASSUME NEW j \in k..(Len(q) - 1)
          PROVE  w[j] = b[j - (k - 1)] /\ j - (k - 1) \in 1..(Len(q) - k)
      <4>1. /\ j \in 1..(Len(a) + Len(b)) /\ ~(j <= Len(a))
            /\ j - Len(a) = j - (k - 1) /\ j - (k - 1) \in 1..(Len(q) - k)
        BY <1>1, <1>3
      <4>2. \A i \in 1..(Len(a) + Len(b)) : w[i] = IF i <= Len(a) THEN a[i] ELSE b[i - Len(a)]
        BY <1>3, Joined
      <4>3. w[j] = b[j - Len(a)]
        BY ONLY <4>1, <4>2
      <4> QED BY <4>1, <4>3
    <3> QED BY <3>1
  <2>3. \A j \in 1..(Len(q) - 1) : (j < k => j \in 1..(k - 1)) /\ (~(j < k) => j \in k..(Len(q) - 1))
    BY <1>1
  <2>4. \A j \in k..(Len(q) - 1) : k + (j - (k - 1)) = j + 1
    BY <1>1
  <2> QED BY <1>3, <2>1, <2>2, <2>3, <2>4
<1> HIDE DEF w
<1> QED BY <1>2, <1>4, <1>5

(* It leaves the others, once each. *)
LEMMA WithoutOne ==
  ASSUME NEW q \in Seq(Execs), NEW k \in DOMAIN q, Distinct(q)
  PROVE  /\ Without(q, k) \in Seq(Execs) /\ Distinct(Without(q, k))
         /\ Elements(Without(q, k)) = Elements(q) \ {q[k]}
<1> DEFINE w == Without(q, k)
<1>1. k \in 1..Len(q) /\ Len(q) \in Nat /\ DOMAIN q = 1..Len(q)
  OBVIOUS
<1>2. /\ w \in Seq(Execs) /\ Len(w) = Len(q) - 1 /\ DOMAIN w = 1..(Len(q) - 1)
  BY WithoutAt
<1>3. \A j \in 1..(Len(q) - 1) : w[j] = IF j < k THEN q[j] ELSE q[j + 1]
  BY WithoutAt
<1> HIDE DEF w
<1>4. Distinct(w)
  <2> DEFINE from(j) == IF j < k THEN j ELSE j + 1
  <2>1. \A j \in DOMAIN w : from(j) \in DOMAIN q /\ w[j] = q[from(j)]
    BY <1>1, <1>2, <1>3
  <2>2. \A i, j \in DOMAIN w : from(i) = from(j) => i = j
    BY <1>1, <1>2
  <2> HIDE DEF from
  <2> QED BY <2>1, <2>2 DEF Distinct
<1>5. Elements(w) \subseteq Elements(q) \ {q[k]}
  <2>1. ASSUME NEW j \in 1..(Len(q) - 1) PROVE w[j] \in Elements(q) \ {q[k]}
    BY <1>1, <1>3 DEF Distinct, Elements
  <2> QED BY <1>2, <2>1 DEF Elements
<1>6. Elements(q) \ {q[k]} \subseteq Elements(w)
  <2>1. ASSUME NEW j \in 1..Len(q), j # k PROVE q[j] \in Elements(w)
    <3>1. CASE j < k
      <4>1. j \in 1..(Len(q) - 1) /\ w[j] = q[j]
        BY <1>1, <1>3, <3>1
      <4> QED BY <1>2, <4>1 DEF Elements
    <3>2. CASE j > k
      <4>1. j - 1 \in 1..(Len(q) - 1) /\ w[j - 1] = q[j]
        BY <1>1, <1>3, <3>2
      <4> QED BY <1>2, <4>1 DEF Elements
    <3> QED BY <1>1, <2>1, <3>1, <3>2
  <2> QED BY <1>1, <2>1 DEF Elements
<1> QED BY <1>2, <1>4, <1>5, <1>6 DEF w

(* Every execution is queued once, under its own class. *)
QueuesInv ==
  /\ queues \in [Classes -> Seq(Execs)]
  /\ \A c \in Classes : Distinct(queues[c]) /\ \A e \in Elements(queues[c]) : ClassOf[e] = c

(* What one class's queue gains or loses, all of them together do. *)
LEMMA ContentsOfOne ==
  ASSUME QueuesInv, NEW c \in Classes, NEW q \in Seq(Execs), Distinct(q),
         \A e \in Elements(q) : ClassOf[e] = c,
         queues' = [queues EXCEPT ![c] = q]
  PROVE  /\ QueuesInv'
         /\ Contents' = (Contents \ Elements(queues[c])) \cup Elements(q)
<1>1. /\ queues'[c] = q /\ \A d \in Classes \ {c} : queues'[d] = queues[d]
      /\ queues' \in [Classes -> Seq(Execs)]
  BY DEF QueuesInv
<1>2. QueuesInv'
  BY <1>1 DEF QueuesInv
<1>3. \A d \in Classes \ {c} : Elements(queues[d]) \cap Elements(queues[c]) = {}
  BY DEF QueuesInv
<1> QED BY <1>1, <1>2, <1>3 DEF Contents

(* Initially the queues are empty. *)
LEMMA InitQueues == Init => QueuesInv
  BY DEF Init, QueuesInv, Distinct, Elements

(* An execution in the pool is in the queue of its class. *)
LEMMA QueuedByClass ==
  ASSUME QueuesInv, NEW e \in Contents
  PROVE  e \in Execs /\ ClassOf[e] \in Classes /\ e \in Elements(queues[ClassOf[e]])
  BY DEF QueuesInv, Contents, Elements

-----------------------------------------------------------------------------
(* Each operation keeps the queues' invariant and is one of the dispatch   *)
(* queue's.                                                                *)
LEMMA EnqueueAdds ==
  ASSUME QueuesInv, NEW e \in Execs, Enqueue(e)
  PROVE  QueuesInv' /\ Pool!Add(e)
<1> DEFINE c == ClassOf[e]
           q == Append(queues[c], e)
<1>1. c \in Classes /\ queues[c] \in Seq(Execs) /\ e \notin Elements(queues[c])
  BY ClassAssumption DEF QueuesInv, Enqueue, Contents
<1>2. /\ DOMAIN q = 1..(Len(queues[c]) + 1) /\ DOMAIN queues[c] = 1..Len(queues[c])
      /\ Len(queues[c]) \in Nat /\ q[Len(queues[c]) + 1] = e
      /\ \A i \in 1..Len(queues[c]) : q[i] = queues[c][i]
  BY <1>1
<1>3. Elements(q) = Elements(queues[c]) \cup {e}
  BY <1>2 DEF Elements
<1>4. Distinct(q)
  <2>1. \A i \in 1..Len(queues[c]) : q[i] # e
    BY <1>1, <1>2 DEF Elements
  <2>2. \A i \in DOMAIN q : i = Len(queues[c]) + 1 \/ i \in 1..Len(queues[c])
    BY <1>2
  <2> HIDE DEF q
  <2> QED BY <1>1, <1>2, <2>1, <2>2 DEF Distinct, QueuesInv
<1>5. queues' = [queues EXCEPT ![c] = q] /\ q \in Seq(Execs)
  BY <1>1 DEF Enqueue, QueuesInv
<1>6. \A f \in Elements(q) : ClassOf[f] = c
  BY <1>1, <1>3 DEF QueuesInv
<1>7. QueuesInv' /\ Contents' = (Contents \ Elements(queues[c])) \cup Elements(q)
  <2> HIDE DEF q, c
  <2> QED BY <1>1, <1>4, <1>5, <1>6, ContentsOfOne
<1>8. Elements(queues[c]) \subseteq Contents
  BY <1>1 DEF Contents
<1>9. Contents' = Contents \cup {e}
  BY <1>3, <1>7, <1>8
<1> QED BY <1>7, <1>9 DEF Enqueue, Quiet, Pool!Add, Pool!Quiet

(* Taking an execution out of the queue of its class takes it, and nothing *)
(* else, out of the pool.                                                  *)
LEMMA TakenOut ==
  ASSUME QueuesInv, NEW c \in Classes, NEW k \in DOMAIN queues[c],
         queues' = [queues EXCEPT ![c] = Without(queues[c], k)]
  PROVE  QueuesInv' /\ Contents' = Contents \ {queues[c][k]} /\ queues[c][k] \in Contents
<1> DEFINE q == Without(queues[c], k)
<1>1. /\ q \in Seq(Execs) /\ Distinct(q) /\ Elements(q) = Elements(queues[c]) \ {queues[c][k]}
  BY WithoutOne DEF QueuesInv
<1>2. \A f \in Elements(q) : ClassOf[f] = c
  BY <1>1 DEF QueuesInv
<1>3. QueuesInv' /\ Contents' = (Contents \ Elements(queues[c])) \cup Elements(q)
  <2> HIDE DEF q
  <2> QED BY <1>1, <1>2, ContentsOfOne DEF q
<1>4. Elements(queues[c]) \subseteq Contents /\ queues[c][k] \in Elements(queues[c])
  BY DEF Contents, Elements
<1> QED BY <1>1, <1>3, <1>4

(* Remove drops. *)
LEMMA RemoveDrops ==
  ASSUME QueuesInv, NEW e \in Execs, Remove(e)
  PROVE  QueuesInv' /\ Pool!Drop(e)
<1> DEFINE c == ClassOf[e]
           k == Position(queues[c], {e})
<1>1. c \in Classes /\ e \in Elements(queues[c]) /\ queues[c] \in Seq(Execs)
  BY QueuedByClass DEF Remove, QueuesInv
<1>2. k \in DOMAIN queues[c] /\ queues[c][k] = e
  BY <1>1, PositionIsIn
<1>3. queues' = [queues EXCEPT ![c] = Without(queues[c], k)]
  BY <1>1 DEF Remove, QueuesInv
<1>4. QueuesInv' /\ Contents' = Contents \ {e} /\ e \in Contents
  <2> HIDE DEF c, k
  <2> QED BY <1>1, <1>2, <1>3, TakenOut
<1> QED BY <1>4 DEF Remove, Quiet, Pool!Drop, Pool!Quiet

Ranking == {e \in Execs : ClassOf[e] \in Ranked}

(* A dequeue that serves a class takes an acceptable execution of it. *)
LEMMA ServeTakes ==
  ASSUME QueuesInv, NEW Accepted, NEW c \in Candidates(Accepted), NEW before,
         FindAndRemove(c, Accepted, before)
  PROVE  /\ QueuesInv'
         /\ last' \in Contents \cap Accepted \cap Ranking /\ Contents' = Contents \ {last'}
<1> DEFINE k == Position(queues[c], Accepted)
<1>1. c \in Ranked /\ c \in Classes /\ Elements(queues[c]) \cap Accepted # {}
  BY ClassAssumption DEF Candidates, HasCandidate
<1>2. queues[c] \in Seq(Execs)
  BY <1>1 DEF QueuesInv
<1>3. k \in DOMAIN queues[c] /\ queues[c][k] \in Accepted
  BY <1>1, <1>2, PositionIsIn
<1>4. queues' = [queues EXCEPT ![c] = Without(queues[c], k)] /\ last' = queues[c][k]
  BY <1>1 DEF FindAndRemove, QueuesInv
<1>5. QueuesInv' /\ Contents' = Contents \ {queues[c][k]} /\ queues[c][k] \in Contents
  <2> HIDE DEF k
  <2> QED BY <1>1, <1>3, <1>4, TakenOut
<1>6. queues[c][k] \in Ranking
  BY <1>1, <1>2, <1>3 DEF QueuesInv, Elements, Ranking
<1> QED BY <1>3, <1>4, <1>5, <1>6

(* Dequeue takes something acceptable, or nothing if nothing is. *)
LEMMA DequeueTakes ==
  ASSUME QueuesInv, NEW Accepted \in Filters, Dequeue(Accepted)
  PROVE  QueuesInv' /\ Pool!Take(Accepted)
<1> DEFINE choices == Contents \cap Accepted \cap Ranking
<1>1. asked' = Accepted
  BY DEF Dequeue
<1>2. ASSUME NEW c \in Candidates(Accepted), NEW before, FindAndRemove(c, Accepted, before)
      PROVE  QueuesInv' /\ Pool!Take(Accepted)
  <2>1. QueuesInv' /\ last' \in choices /\ Contents' = Contents \ {last'}
    BY <1>2, ServeTakes
  <2> QED BY <1>1, <2>1 DEF Pool!Take, Ranking
<1>3. CASE DequeueCredited(Accepted)
  <2>1. Credited(Accepted) \subseteq Ranked /\ Credited(Accepted) \subseteq Candidates(Accepted)
    BY DEF Credited, Candidates
  <2>2. Highest(Credited(Accepted)) \in Candidates(Accepted)
    BY <1>3, <2>1, HighestIsIn DEF DequeueCredited
  <2> QED BY <1>2, <1>3, <2>2 DEF DequeueCredited
<1>4. CASE DequeueRefilled(Accepted)
  <2>1. Candidates(Accepted) \subseteq Ranked
    BY DEF Candidates
  <2>2. Highest(Candidates(Accepted)) \in Candidates(Accepted)
    BY <1>4, <2>1, HighestIsIn DEF DequeueRefilled
  <2> QED BY <1>2, <1>4, <2>2 DEF DequeueRefilled
<1>5. CASE DequeueNothing(Accepted)
  <2>1. queues' = queues /\ last' = None
    BY <1>5 DEF DequeueNothing
  <2>2. Contents' = Contents /\ QueuesInv'
    BY <2>1 DEF Contents, QueuesInv
  <2>3. ASSUME NEW e \in choices PROVE FALSE
    <3>1. e \in Elements(queues[ClassOf[e]]) /\ ClassOf[e] \in Ranked
      BY <2>3, QueuedByClass DEF Ranking
    <3> QED BY <1>5, <2>3, <3>1 DEF DequeueNothing, Candidates, HasCandidate
  <2> QED BY <1>1, <2>1, <2>2, <2>3 DEF Pool!Take, Ranking
<1> QED BY <1>3, <1>4, <1>5 DEF Dequeue

(* Every step is a step of the dispatch queue or leaves it alone. *)
LEMMA NextQueues ==
  QueuesInv /\ [Next]_vars => QueuesInv' /\ [Pool!Next]_<<Contents, asked, last>>
<1> SUFFICES ASSUME QueuesInv, [Next]_vars
             PROVE  QueuesInv' /\ [Pool!Next]_<<Contents, asked, last>>
  OBVIOUS
<1>1. ASSUME NEW e \in Execs, Enqueue(e) PROVE QueuesInv' /\ Pool!Next
  BY <1>1, EnqueueAdds DEF Pool!Next
<1>2. ASSUME NEW e \in Execs, Remove(e) PROVE QueuesInv' /\ Pool!Next
  BY <1>2, RemoveDrops DEF Pool!Next
<1>3. ASSUME NEW Accepted \in Filters, Dequeue(Accepted) PROVE QueuesInv' /\ Pool!Next
  BY <1>3, DequeueTakes DEF Pool!Next
<1>4. CASE UNCHANGED vars
  BY <1>4 DEF vars, QueuesInv, Contents
<1> QED BY <1>1, <1>2, <1>3, <1>4 DEF Next

(* The weighted priority queue implements the dispatch queue: a dequeue    *)
(* takes an execution the caller accepts, and comes back with nothing only *)
(* if none of a ranked class is acceptable, whatever the weights and the   *)
(* credits left.                                                           *)
THEOREM SchedulerImplementsPool == Spec => ImplementsPool
<1>1. Init => Pool!Init
  BY DEF Init, Pool!Init, Contents, Elements
<1> QED BY <1>1, InitQueues, NextQueues, PTL DEF Spec, ImplementsPool, Pool!Spec

-----------------------------------------------------------------------------
(* First come, first served, within a class.                               *)
Ahead(e, f) ==
  \E c \in Classes : \E i, j \in DOMAIN queues[c] :
    i < j /\ queues[c][i] = e /\ queues[c][j] = f

(* Nobody is served before one of its class that was there earlier, unless *)
(* that one was not acceptable; those that stay keep their order, and who  *)
(* comes goes behind all of its class.                                     *)
Orderly ==
  /\ \A e, f \in Execs : Ahead(e, f) =>
       /\ last' = f => e \notin asked'
       /\ e \in Contents' /\ f \in Contents' => Ahead(e, f)'
  /\ \A e \in Contents, f \in Contents' \ Contents : ClassOf[e] = ClassOf[f] => Ahead(e, f)'
FirstComeFirstServed == [][Orderly]_vars

(* Taking one execution out leaves the others in their order. *)
LEMMA OrderKept ==
  ASSUME QueuesInv, NEW c \in Classes, NEW k \in DOMAIN queues[c],
         queues' = [queues EXCEPT ![c] = Without(queues[c], k)],
         NEW e \in Execs, NEW f \in Execs, Ahead(e, f), e \in Contents', f \in Contents'
  PROVE  Ahead(e, f)'
<1>1. PICK d \in Classes : \E i, j \in DOMAIN queues[d] :
        i < j /\ queues[d][i] = e /\ queues[d][j] = f
  BY DEF Ahead
<1>2. PICK i \in DOMAIN queues[d], j \in DOMAIN queues[d] :
        i < j /\ queues[d][i] = e /\ queues[d][j] = f
  BY <1>1
<1>3. e # queues[c][k] /\ f # queues[c][k]
  <2>1. Contents' = Contents \ {queues[c][k]}
    BY TakenOut, Zenon
  <2> QED BY <2>1
<1>4. CASE d # c
  <2>1. queues'[d] = queues[d]
    BY <1>4 DEF QueuesInv
  <2> QED BY <1>2, <2>1 DEF Ahead
<1>5. CASE d = c
  <2> DEFINE q == queues[c]
             w == Without(q, k)
             to(n) == IF n < k THEN n ELSE n - 1
  <2>1. q \in Seq(Execs) /\ DOMAIN q = 1..Len(q) /\ Len(q) \in Nat /\ queues'[c] = w
    BY DEF QueuesInv
  <2>2. /\ DOMAIN w = 1..(Len(q) - 1)
        /\ \A n \in 1..(Len(q) - 1) : w[n] = IF n < k THEN q[n] ELSE q[n + 1]
    BY <2>1, WithoutAt
  <2>3. i \in 1..Len(q) /\ j \in 1..Len(q) /\ k \in 1..Len(q) /\ i # k /\ j # k /\ i < j
    BY <1>2, <1>3, <1>5, <2>1
  <2> HIDE DEF w
  <2>4. \A n \in 1..Len(q) : n # k => to(n) \in DOMAIN w /\ w[to(n)] = q[n]
    <3> SUFFICES ASSUME NEW n \in 1..Len(q), n # k
                 PROVE  to(n) \in DOMAIN w /\ w[to(n)] = q[n]
      OBVIOUS
    <3>1. CASE n < k
      BY <2>1, <2>2, <2>3, <3>1
    <3>2. CASE n > k
      <4>1. to(n) = n - 1 /\ n - 1 \in 1..(Len(q) - 1) /\ ~(n - 1 < k) /\ n - 1 + 1 = n
        BY <2>1, <2>3, <3>2
      <4> QED BY <2>2, <4>1
    <3> QED BY <2>3, <3>1, <3>2
  <2>5. to(i) < to(j)
    BY <2>3
  <2>6. w[to(i)] = e /\ w[to(j)] = f /\ to(i) \in DOMAIN w /\ to(j) \in DOMAIN w
    BY <1>2, <1>5, <2>3, <2>4
  <2> HIDE DEF to
  <2> QED BY <2>1, <2>5, <2>6 DEF Ahead
<1> QED BY <1>4, <1>5

(* Serving a class takes the first acceptable execution of its queue.      *)
LEMMA ServeInOrder ==
  ASSUME QueuesInv, NEW Accepted, NEW c \in Candidates(Accepted), NEW before,
         FindAndRemove(c, Accepted, before), asked' = Accepted
  PROVE  Orderly
<1> DEFINE k == Position(queues[c], Accepted)
<1>1. c \in Classes /\ Elements(queues[c]) \cap Accepted # {} /\ queues[c] \in Seq(Execs)
  BY ClassAssumption DEF Candidates, HasCandidate, QueuesInv
<1>2. /\ k \in DOMAIN queues[c] /\ queues[c][k] \in Accepted
      /\ \A n \in DOMAIN queues[c] : queues[c][n] \in Accepted => k <= n
  BY <1>1, PositionIsIn
<1>3. queues' = [queues EXCEPT ![c] = Without(queues[c], k)] /\ last' = queues[c][k]
  BY <1>1 DEF FindAndRemove, QueuesInv
<1> HIDE DEF k
<1>4. Contents' \subseteq Contents
  BY <1>1, <1>2, <1>3, TakenOut
<1>5. ASSUME NEW e \in Execs, NEW f \in Execs, Ahead(e, f), last' = f, e \in asked'
      PROVE  FALSE
  <2>1. PICK d \in Classes : \E i, j \in DOMAIN queues[d] :
          i < j /\ queues[d][i] = e /\ queues[d][j] = f
    BY <1>5 DEF Ahead
  <2>2. PICK i \in DOMAIN queues[d], j \in DOMAIN queues[d] :
          i < j /\ queues[d][i] = e /\ queues[d][j] = f
    BY <2>1
  <2>3. d = c
    <3>1. f \in Elements(queues[d]) /\ f \in Elements(queues[c])
      BY <1>2, <1>3, <1>5, <2>2 DEF Elements
    <3> QED BY <1>1, <3>1 DEF QueuesInv
  <2>4. j = k
    BY <1>1, <1>2, <1>3, <1>5, <2>2, <2>3 DEF QueuesInv, Distinct
  <2>5. k <= i
    BY <1>2, <1>5, <2>2, <2>3
  <2> QED BY <1>1, <2>2, <2>3, <2>4, <2>5
<1>6. ASSUME NEW e \in Execs, NEW f \in Execs, Ahead(e, f), e \in Contents', f \in Contents'
      PROVE  Ahead(e, f)'
  BY <1>1, <1>2, <1>3, <1>6, OrderKept
<1> QED BY <1>4, <1>5, <1>6 DEF Orderly

(* Who comes goes behind. *)
LEMMA EnqueueInOrder ==
  ASSUME QueuesInv, NEW x \in Execs, Enqueue(x)
  PROVE  Orderly
<1> DEFINE c == ClassOf[x]
           q == Append(queues[c], x)
<1>1. c \in Classes /\ queues[c] \in Seq(Execs) /\ queues' = [queues EXCEPT ![c] = q]
  BY ClassAssumption DEF QueuesInv, Enqueue
<1>2. /\ DOMAIN q = 1..(Len(queues[c]) + 1) /\ DOMAIN queues[c] = 1..Len(queues[c])
      /\ Len(queues[c]) \in Nat /\ q[Len(queues[c]) + 1] = x
      /\ \A i \in 1..Len(queues[c]) : q[i] = queues[c][i]
  BY <1>1
<1>3. queues'[c] = q /\ \A d \in Classes \ {c} : queues'[d] = queues[d]
  BY <1>1 DEF QueuesInv
<1>4. Contents' = Contents \cup {x} /\ last' = None
  BY EnqueueAdds DEF Pool!Add, Pool!Quiet
<1> HIDE DEF q
<1>5. ASSUME NEW e \in Execs, NEW f \in Execs, Ahead(e, f)
      PROVE  Ahead(e, f)'
  <2>1. PICK d \in Classes : \E i, j \in DOMAIN queues[d] :
          i < j /\ queues[d][i] = e /\ queues[d][j] = f
    BY <1>5 DEF Ahead
  <2>2. CASE d = c
    <3>1. PICK i \in DOMAIN queues[c], j \in DOMAIN queues[c] :
            i < j /\ queues[c][i] = e /\ queues[c][j] = f
      BY <2>1, <2>2
    <3>2. i \in DOMAIN q /\ j \in DOMAIN q /\ q[i] = e /\ q[j] = f
      BY <1>2, <3>1
    <3> QED BY <1>1, <1>3, <3>1, <3>2 DEF Ahead
  <2>3. CASE d # c
    BY <1>3, <2>1, <2>3 DEF Ahead
  <2> QED BY <2>2, <2>3
<1>6. ASSUME NEW e \in Contents, ClassOf[e] = c
      PROVE  Ahead(e, x)'
  <2>1. PICK i \in DOMAIN queues[c] : queues[c][i] = e
    BY <1>6, QueuedByClass DEF Elements
  <2>2. i \in DOMAIN q /\ q[i] = e /\ i < Len(queues[c]) + 1 /\ Len(queues[c]) + 1 \in DOMAIN q
    BY <1>2, <2>1
  <2> QED BY <1>1, <1>2, <1>3, <2>2 DEF Ahead
<1>7. \A f \in Contents' \ Contents : f = x
  BY <1>4
<1>8. \A f \in Execs : last' # f
  BY <1>4, ClassAssumption
<1> QED BY <1>5, <1>6, <1>7, <1>8 DEF Orderly

(* An execution is only ever overtaken, within its class, by a later one   *)
(* that is served when it is not acceptable.                               *)
THEOREM ClassesAreServedInOrder == Spec => FirstComeFirstServed
<1>1. ASSUME QueuesInv, Next PROVE Orderly
  <2>1. ASSUME NEW e \in Execs, Enqueue(e) PROVE Orderly
    BY <1>1, <2>1, EnqueueInOrder
  <2>2. ASSUME NEW e \in Execs, Remove(e) PROVE Orderly
    <3> DEFINE c == ClassOf[e]
               k == Position(queues[c], {e})
    <3>1. c \in Classes /\ e \in Elements(queues[c]) /\ queues[c] \in Seq(Execs)
      BY <1>1, <2>2, QueuedByClass DEF Remove, QueuesInv
    <3>2. k \in DOMAIN queues[c]
      BY <3>1, PositionIsIn
    <3>3. queues' = [queues EXCEPT ![c] = Without(queues[c], k)] /\ last' = None
      BY <1>1, <2>2, <3>1 DEF Remove, QueuesInv, Quiet
    <3> HIDE DEF c, k
    <3>4. Contents' \subseteq Contents
      BY <1>1, <3>1, <3>2, <3>3, TakenOut
    <3>5. \A f, g \in Execs : Ahead(f, g) /\ f \in Contents' /\ g \in Contents' => Ahead(f, g)'
      BY <1>1, <3>1, <3>2, <3>3, OrderKept
    <3> QED BY <3>3, <3>4, <3>5, ClassAssumption DEF Orderly
  <2>3. ASSUME NEW Accepted \in Filters, Dequeue(Accepted) PROVE Orderly
    <3>1. asked' = Accepted
      BY <2>3 DEF Dequeue
    <3>2. CASE DequeueCredited(Accepted)
      <4>1. Credited(Accepted) \subseteq Ranked /\ Credited(Accepted) \subseteq Candidates(Accepted)
        BY DEF Credited, Candidates
      <4>2. Highest(Credited(Accepted)) \in Candidates(Accepted)
        BY <3>2, <4>1, HighestIsIn DEF DequeueCredited
      <4> QED BY <1>1, <3>1, <3>2, <4>2, ServeInOrder DEF DequeueCredited
    <3>3. CASE DequeueRefilled(Accepted)
      <4>1. Candidates(Accepted) \subseteq Ranked
        BY DEF Candidates
      <4>2. Highest(Candidates(Accepted)) \in Candidates(Accepted)
        BY <3>3, <4>1, HighestIsIn DEF DequeueRefilled
      <4> QED BY <1>1, <3>1, <3>3, <4>2, ServeInOrder DEF DequeueRefilled
    <3>4. CASE DequeueNothing(Accepted)
      BY <3>4, ClassAssumption DEF DequeueNothing, Orderly, Ahead, Contents
    <3> QED BY <2>3, <3>2, <3>3, <3>4 DEF Dequeue
  <2> QED BY <1>1, <2>1, <2>2, <2>3 DEF Next
<1>2. ASSUME QueuesInv, [Next]_vars PROVE [Orderly]_vars
  BY <1>1, <1>2
<1>3. QueuesInv /\ [Next]_vars => QueuesInv'
  BY NextQueues
<1> QED BY <1>2, <1>3, InitQueues, PTL DEF Spec, FirstComeFirstServed

-----------------------------------------------------------------------------
(* Starvation.                                                             *)
Others(c) == Ranked \ {c}
Left(S) == SumFunctionOnSet(credits, S)
Full(S) == SumFunctionOnSet(Weight, S)

CreditsType ==
  /\ credits \in [Ranked -> Nat] /\ passed \in [Ranked -> Nat]
  /\ \A c \in Ranked : credits[c] <= Weight[c]

(* Until the refill, each time a class is passed over costs one of the     *)
(* other classes a credit; once the class has credits again, only better   *)
(* ones go before it.                                                      *)
BeforeRefill(c) == passed[c] + Left(Others(c)) <= Full(Others(c))
AfterRefill(c) == credits[c] > 0 /\ passed[c] + Left(Better(c)) <= PassBound(c)

BypassInv == CreditsType /\ \A c \in Ranked : BeforeRefill(c) \/ AfterRefill(c)

(* The parts of the classes that are summed over. *)
LEMMA Parts ==
  ASSUME NEW c \in Ranked
  PROVE  /\ Others(c) \subseteq Ranked /\ Better(c) \subseteq Others(c)
         /\ IsFiniteSet(Others(c)) /\ IsFiniteSet(Better(c))
<1>1. IsFiniteSet(Ranked) /\ Rank \in [Ranked -> Nat]
  BY ClassAssumption
<1>2. Others(c) \subseteq Ranked /\ Better(c) \subseteq Others(c)
  BY <1>1 DEF Others, Better
<1> QED BY <1>1, <1>2, FS_Subset

(* The sums are natural numbers, those of the credits at most full. *)
LEMMA SumTypes ==
  ASSUME NEW left \in [Ranked -> Nat], \A c \in Ranked : left[c] <= Weight[c], NEW c \in Ranked
  PROVE  /\ SumFunctionOnSet(left, Others(c)) \in Nat /\ SumFunctionOnSet(left, Better(c)) \in Nat
         /\ Full(Others(c)) \in Nat /\ Full(Better(c)) \in Nat
         /\ SumFunctionOnSet(left, Others(c)) <= Full(Others(c))
         /\ PassBound(c) = Full(Others(c)) + Full(Better(c))
<1>1. \A d \in Ranked : left[d] \in Nat /\ Weight[d] \in Nat /\ left[d] <= Weight[d]
  BY ClassAssumption
<1>2. SumFunctionOnSet(left, Others(c)) \in Nat
  BY <1>1, Parts, SumNat
<1>3. SumFunctionOnSet(left, Better(c)) \in Nat
  BY <1>1, Parts, SumNat
<1>4. Full(Others(c)) \in Nat
  BY <1>1, Parts, SumNat DEF Full
<1>5. Full(Better(c)) \in Nat
  BY <1>1, Parts, SumNat DEF Full
<1>6. SumFunctionOnSet(left, Others(c)) <= Full(Others(c))
  BY <1>1, Parts, SumBelow DEF Full
<1> QED BY <1>2, <1>3, <1>4, <1>5, <1>6 DEF PassBound, Full, Others

(* A class that has not been passed over is within the bound. *)
LEMMA NotPassed ==
  ASSUME CreditsType', NEW c \in Ranked, passed'[c] = 0
  PROVE  BeforeRefill(c)'
<1>1. credits' \in [Ranked -> Nat] /\ \A d \in Ranked : credits'[d] <= Weight[d]
  BY DEF CreditsType
<1>2. /\ SumFunctionOnSet(credits', Others(c)) \in Nat
      /\ SumFunctionOnSet(credits', Others(c)) <= Full(Others(c))
  BY <1>1, SumTypes
<1>3. passed'[c] + SumFunctionOnSet(credits', Others(c)) <= Full(Others(c))
  BY <1>2
<1> QED BY <1>3 DEF BeforeRefill, Left, Full, Others

(* Serving a class takes one off every sum of credits it is in. *)
LEMMA OneCreditLess ==
  ASSUME NEW before \in [Ranked -> Nat], NEW S \in SUBSET Ranked, NEW c \in S,
         NEW after, after[c] = before[c] - 1, \A d \in S : d # c => after[d] = before[d]
  PROVE  SumFunctionOnSet(after, S) = SumFunctionOnSet(before, S) - 1
<1>1. IsFiniteSet(S)
  BY ClassAssumption, FS_Subset
<1>2. (\A d \in S : before[d] \in Int) /\ \A d \in S : d # c => after[d] = before[d]
  OBVIOUS
<1>3. after[c] \in Int /\ after[c] = before[c] - 1 /\ before[c] \in Int
  OBVIOUS
<1>4. SumFunctionOnSet(after, S) = SumFunctionOnSet(before, S) - before[c] + after[c]
  BY <1>1, <1>2, <1>3, SumChange
<1>5. SumFunctionOnSet(before, S) \in Int
  BY <1>1, <1>2, SumFacts
<1> QED BY <1>3, <1>4, <1>5

(* What serving a class does to the credits and the counts. *)
LEMMA Served ==
  ASSUME BypassInv, NEW Accepted, NEW d \in Ranked,
         NEW before \in [Ranked -> Nat], before[d] > 0, \A c \in Ranked : before[c] <= Weight[c],
         FindAndRemove(d, Accepted, before)
  PROVE  /\ CreditsType'
         /\ \A c \in Ranked : c # d => credits'[c] = before[c]
         /\ \A S \in SUBSET Ranked : d \in S => Left(S)' = SumFunctionOnSet(before, S) - 1
         /\ \A c \in Ranked : IF c # d /\ HasCandidate(c, Accepted)
                                THEN passed'[c] = passed[c] + 1 ELSE passed'[c] = 0
<1>1. credits' = [before EXCEPT ![d] = @ - 1]
  BY DEF FindAndRemove
<1>2. passed' = [c \in Ranked |-> IF c # d /\ HasCandidate(c, Accepted) THEN passed[c] + 1 ELSE 0]
  BY DEF FindAndRemove, CountPassed
<1>3. passed \in [Ranked -> Nat]
  BY DEF BypassInv, CreditsType
<1>4. credits' \in [Ranked -> Nat] /\ \A c \in Ranked : credits'[c] <= Weight[c]
  <2>1. \A c \in Ranked : Weight[c] \in Nat /\ before[c] \in Nat
    BY ClassAssumption
  <2>2. credits' \in [Ranked -> Nat]
    BY <1>1, <2>1
  <2>3. \A c \in Ranked : credits'[c] <= before[c]
    BY <1>1, <2>1
  <2> QED BY <2>1, <2>2, <2>3
<1>5. passed' \in [Ranked -> Nat]
  BY <1>2, <1>3
<1>6. credits'[d] = before[d] - 1 /\ \A c \in Ranked : c # d => credits'[c] = before[c]
  BY <1>1
<1>7. ASSUME NEW S \in SUBSET Ranked, d \in S
      PROVE  SumFunctionOnSet(credits', S) = SumFunctionOnSet(before, S) - 1
  <2>1. \A c \in S : c # d => credits'[c] = before[c]
    BY <1>6
  <2> QED BY <1>6, <1>7, <2>1, OneCreditLess
<1>8. \A S \in SUBSET Ranked : d \in S => Left(S)' = SumFunctionOnSet(before, S) - 1
  BY <1>7 DEF Left
<1>9. \A c \in Ranked : IF c # d /\ HasCandidate(c, Accepted)
                          THEN passed'[c] = passed[c] + 1 ELSE passed'[c] = 0
  BY <1>2
<1> QED BY <1>4, <1>5, <1>6, <1>8, <1>9 DEF CreditsType

(* Serving a class that has credits, the best of those. *)
LEMMA CreditedKeeps ==
  ASSUME BypassInv, NEW Accepted, DequeueCredited(Accepted)
  PROVE  BypassInv'
<1> DEFINE d == Highest(Credited(Accepted))
<1>1. Credited(Accepted) \subseteq Ranked /\ Credited(Accepted) # {}
  BY DEF Credited, Candidates, DequeueCredited
<1>2. d \in Credited(Accepted) /\ \A c \in Credited(Accepted) : c # d => d \in Better(c)
  BY <1>1, HighestIsIn
<1>3. d \in Ranked /\ credits[d] > 0
  BY <1>2 DEF Credited, Candidates
<1>4. credits \in [Ranked -> Nat] /\ \A c \in Ranked : credits[c] <= Weight[c]
  BY DEF BypassInv, CreditsType
<1>5. FindAndRemove(d, Accepted, credits)
  BY DEF DequeueCredited
<1> HIDE DEF d
<1>6. /\ CreditsType'
      /\ \A c \in Ranked : c # d => credits'[c] = credits[c]
      /\ \A S \in SUBSET Ranked : d \in S => Left(S)' = Left(S) - 1
      /\ \A c \in Ranked : IF c # d /\ HasCandidate(c, Accepted)
                             THEN passed'[c] = passed[c] + 1 ELSE passed'[c] = 0
  BY <1>3, <1>4, <1>5, Served DEF Left
<1>7. ASSUME NEW c \in Ranked PROVE BeforeRefill(c)' \/ AfterRefill(c)'
  <2>1. CASE ~(c # d /\ HasCandidate(c, Accepted))
    <3>1. passed'[c] = 0
      BY <1>6, <2>1
    <3> QED BY <1>6, <3>1, NotPassed
  <2>2. CASE c # d /\ HasCandidate(c, Accepted)
    <3>1. passed'[c] = passed[c] + 1 /\ passed[c] \in Nat /\ credits'[c] = credits[c]
      BY <1>6, <2>2 DEF BypassInv, CreditsType
    <3>2. /\ Left(Others(c)) \in Nat /\ Left(Better(c)) \in Nat
          /\ Full(Others(c)) \in Nat /\ PassBound(c) \in Nat
      BY <1>4, SumTypes DEF Left
    <3>3. CASE BeforeRefill(c)
      <4>1. d \in Others(c) /\ Others(c) \in SUBSET Ranked
        BY <1>3, <2>2 DEF Others
      <4>2. Left(Others(c))' = Left(Others(c)) - 1
        BY <1>6, <4>1 DEF Left, Others
      <4>3. passed'[c] + Left(Others(c))' <= Full(Others(c))
        BY <3>1, <3>2, <3>3, <4>2 DEF BeforeRefill
      <4> QED BY <4>3 DEF BeforeRefill, Full, Others
    <3>4. CASE AfterRefill(c)
      <4>1. c \in Credited(Accepted)
        BY <2>2, <3>4 DEF Credited, Candidates, AfterRefill
      <4>2. d \in Better(c) /\ Better(c) \in SUBSET Ranked
        BY <1>2, <2>2, <4>1 DEF Better
      <4>3. Left(Better(c))' = Left(Better(c)) - 1
        BY <1>6, <4>2 DEF Left, Better
      <4>4. passed'[c] + Left(Better(c))' <= PassBound(c) /\ credits'[c] > 0
        BY <3>1, <3>2, <3>4, <4>3 DEF AfterRefill
      <4> QED BY <4>4 DEF AfterRefill, PassBound, Better
    <3> QED BY <3>3, <3>4 DEF BypassInv
  <2> QED BY <2>1, <2>2
<1> QED BY <1>6, <1>7 DEF BypassInv

(* Serving the best class with candidates after a refill. *)
LEMMA RefilledKeeps ==
  ASSUME BypassInv, NEW Accepted, DequeueRefilled(Accepted)
  PROVE  BypassInv'
<1> DEFINE d == Highest(Candidates(Accepted))
<1>1. Candidates(Accepted) \subseteq Ranked /\ Candidates(Accepted) # {} /\ Credited(Accepted) = {}
  BY DEF Candidates, DequeueRefilled
<1>2. d \in Candidates(Accepted) /\ \A c \in Candidates(Accepted) : c # d => d \in Better(c)
  BY <1>1, HighestIsIn
<1>3. /\ Weight \in [Ranked -> Nat] /\ d \in Ranked /\ Weight[d] > 0
      /\ \A c \in Ranked : Weight[c] \in Nat \ {0} /\ Weight[c] <= Weight[c]
  BY <1>1, <1>2, ClassAssumption
<1>4. credits \in [Ranked -> Nat] /\ \A c \in Ranked : credits[c] <= Weight[c]
  BY DEF BypassInv, CreditsType
<1>5. FindAndRemove(d, Accepted, Weight)
  BY DEF DequeueRefilled
<1> HIDE DEF d
<1>6. /\ CreditsType'
      /\ \A c \in Ranked : c # d => credits'[c] = Weight[c]
      /\ \A S \in SUBSET Ranked : d \in S => Left(S)' = Full(S) - 1
      /\ \A c \in Ranked : IF c # d /\ HasCandidate(c, Accepted)
                             THEN passed'[c] = passed[c] + 1 ELSE passed'[c] = 0
  BY <1>3, <1>5, Served DEF Full
<1>7. ASSUME NEW c \in Ranked PROVE BeforeRefill(c)' \/ AfterRefill(c)'
  <2>1. CASE ~(c # d /\ HasCandidate(c, Accepted))
    <3>1. passed'[c] = 0
      BY <1>6, <2>1
    <3> QED BY <1>6, <3>1, NotPassed
  <2>2. CASE c # d /\ HasCandidate(c, Accepted)
    <3>1. passed'[c] = passed[c] + 1 /\ passed[c] \in Nat /\ credits'[c] > 0
      BY <1>3, <1>6, <2>2 DEF BypassInv, CreditsType
    <3>2. c \in Candidates(Accepted)
      BY <2>2 DEF Candidates
    <3>3. ~(credits[c] > 0)
      BY <1>1, <3>2 DEF Credited
    <3>4. BeforeRefill(c)
      BY <3>3 DEF BypassInv, AfterRefill
    <3>5. /\ Left(Others(c)) \in Nat /\ Full(Others(c)) \in Nat /\ Full(Better(c)) \in Nat
          /\ PassBound(c) = Full(Others(c)) + Full(Better(c))
      BY <1>4, SumTypes DEF Left
    <3>6. d \in Better(c) /\ Better(c) \in SUBSET Ranked
      BY <1>2, <2>2, <3>2 DEF Better
    <3>7. Left(Better(c))' = Full(Better(c)) - 1
      BY <1>6, <3>6 DEF Left, Better
    <3>8. passed'[c] + Left(Better(c))' <= PassBound(c)
      BY <3>1, <3>4, <3>5, <3>7 DEF BeforeRefill
    <3> QED BY <3>1, <3>8 DEF AfterRefill, PassBound, Better
  <2> QED BY <2>1, <2>2
<1> QED BY <1>6, <1>7 DEF BypassInv

(* A dequeue that finds nothing starts the counts again. *)
LEMMA NothingKeeps ==
  ASSUME BypassInv, NEW Accepted, DequeueNothing(Accepted)
  PROVE  BypassInv'
<1>1. /\ passed' = [c \in Ranked |-> 0]
      /\ credits' = credits \/ credits' = Weight
  BY DEF DequeueNothing
<1>2. Weight \in [Ranked -> Nat] /\ \A c \in Ranked : Weight[c] \in Nat
  BY ClassAssumption
<1>3. CreditsType'
  BY <1>1, <1>2 DEF BypassInv, CreditsType
<1>4. ASSUME NEW c \in Ranked PROVE BeforeRefill(c)'
  BY <1>1, <1>3, NotPassed
<1> QED BY <1>3, <1>4 DEF BypassInv

(* The invariant holds at first. *)
LEMMA InitBypass == Init => BypassInv
<1> SUFFICES ASSUME Init PROVE BypassInv
  OBVIOUS
<1>1. credits = Weight /\ passed = [c \in Ranked |-> 0] /\ Weight \in [Ranked -> Nat]
      /\ \A c \in Ranked : Weight[c] \in Nat
  BY ClassAssumption DEF Init
<1>2. CreditsType
  BY <1>1 DEF CreditsType
<1>3. ASSUME NEW c \in Ranked PROVE BeforeRefill(c)
  <2>1. passed[c] = 0 /\ Full(Others(c)) \in Nat /\ Left(Others(c)) = Full(Others(c))
    BY <1>1, SumTypes DEF Left, Full
  <2> QED BY <2>1 DEF BeforeRefill
<1> QED BY <1>2, <1>3 DEF BypassInv

(* Every step keeps it. *)
LEMMA NextBypass == BypassInv /\ [Next]_vars => BypassInv'
<1> SUFFICES ASSUME BypassInv, [Next]_vars PROVE BypassInv'
  OBVIOUS
<1>1. CASE UNCHANGED <<credits, passed>>
  BY <1>1 DEF BypassInv, CreditsType, BeforeRefill, AfterRefill, Left, Full, Others, PassBound, Better
<1>2. ASSUME NEW e \in Execs, Enqueue(e) \/ Remove(e) PROVE UNCHANGED <<credits, passed>>
  BY <1>2 DEF Enqueue, Remove
<1>3. ASSUME NEW Accepted \in Filters, Dequeue(Accepted) PROVE BypassInv'
  BY <1>3, CreditedKeeps, RefilledKeeps, NothingKeeps DEF Dequeue
<1>4. CASE UNCHANGED vars
  BY <1>1, <1>4 DEF vars
<1> QED BY <1>1, <1>2, <1>3, <1>4 DEF Next

(* Between fruitless dequeues a class with something acceptable is passed  *)
(* over at most once per credit of the others and then once per credit of  *)
(* the better ones, for any classes, weights and ranks.                    *)
THEOREM NoClassStarves == Spec => []BoundedBypass
<1>1. BypassInv => BoundedBypass
  <2> SUFFICES ASSUME BypassInv, NEW c \in Ranked PROVE passed[c] <= PassBound(c)
    BY DEF BoundedBypass
  <2>1. /\ Left(Others(c)) \in Nat /\ Left(Better(c)) \in Nat
        /\ Full(Others(c)) \in Nat /\ Full(Better(c)) \in Nat
        /\ PassBound(c) = Full(Others(c)) + Full(Better(c)) /\ passed[c] \in Nat
    BY SumTypes DEF BypassInv, CreditsType, Left
  <2>2. BeforeRefill(c) \/ AfterRefill(c)
    BY DEF BypassInv
  <2> QED BY <2>1, <2>2 DEF BeforeRefill, AfterRefill
<1> QED BY <1>1, InitBypass, NextBypass, PTL DEF Spec

-----------------------------------------------------------------------------
(* Types.                                                                  *)
AnswerType == asked \in SUBSET Execs /\ last \in Execs \cup {None}

(* A step's answer is an execution or nil. *)
LEMMA NextAnswer == QueuesInv /\ AnswerType /\ [Next]_vars => AnswerType'
<1> SUFFICES ASSUME QueuesInv, AnswerType, [Next]_vars PROVE AnswerType'
  OBVIOUS
<1>1. Contents \subseteq Execs /\ Filters \subseteq SUBSET Execs
  BY QueuedByClass, ClassAssumption
<1>2. [Pool!Next]_<<Contents, asked, last>>
  BY NextQueues
<1>3. ASSUME NEW Accepted \in Filters, Pool!Take(Accepted) PROVE AnswerType'
  BY <1>1, <1>3 DEF Pool!Take, AnswerType
<1>4. ASSUME NEW e \in Execs, Pool!Add(e) \/ Pool!Drop(e) PROVE AnswerType'
  BY <1>4 DEF Pool!Add, Pool!Drop, Pool!Quiet, AnswerType
<1>5. CASE UNCHANGED <<Contents, asked, last>>
  BY <1>5 DEF AnswerType
<1> QED BY <1>2, <1>3, <1>4, <1>5 DEF Pool!Next

(* Every execution is queued once, under its class, and the credits stay   *)
(* between zero and the weight.                                            *)
THEOREM SchedulerTyped == Spec => []TypeOK
<1>1. Init => AnswerType
  BY DEF Init, AnswerType
<1>2. QueuesInv /\ BypassInv /\ AnswerType => TypeOK
  <2> SUFFICES ASSUME QueuesInv, BypassInv, AnswerType PROVE TypeOK
    OBVIOUS
  <2>1. \A c \in Classes : \A i, j \in DOMAIN queues[c] :
          /\ ClassOf[queues[c][i]] = c
          /\ queues[c][i] = queues[c][j] => i = j
    BY DEF QueuesInv, Distinct, Elements
  <2> QED BY <2>1 DEF TypeOK, QueuesInv, BypassInv, CreditsType, AnswerType
<1> QED BY <1>1, <1>2, InitQueues, NextQueues, InitBypass, NextBypass, NextAnswer, PTL DEF Spec
=============================================================================
