--------------------------- MODULE Logging_proofs ---------------------------
(***************************************************************************)
(* Theorems about the asynchronous logger, for any number of goroutines,   *)
(* sinks and any size of its queue.                                        *)
(***************************************************************************)
EXTENDS Logging, FiniteSetTheorems, TLAPS

-----------------------------------------------------------------------------
(* Types.                                                                  *)
PlaceType ==
  /\ queue \in Seq(Entries)
  /\ point \in [Callers -> Points]
  /\ worker \in {"select", "lock", "writing", "done"}
  /\ hand \in Entries \cup {NoEntry}

(* Initially every variable has its type. *)
LEMMA InitPlaces == Init => PlaceType
  BY DEF Init, PlaceType, Points, Callers

(* Every step keeps the types. *)
LEMMA NextPlaces == PlaceType /\ [Next]_vars => PlaceType'
<1> SUFFICES ASSUME PlaceType, [Next]_vars PROVE PlaceType'
  OBVIOUS
<1> USE DEF PlaceType, Points, Callers
<1>1. ASSUME NEW e \in Entries, Log(e) PROVE PlaceType'
  <2>1. CASE CheckLevel(e)
    BY <2>1 DEF CheckLevel, Goto, queueVars, workerVars
  <2>2. CASE Send(e)
    <3>1. queue' \in Seq(Entries)
      BY <2>2 DEF Send, Enqueue, DropNew, SendPanics, queueVars
    <3>2. point' \in [Callers -> Points]
      BY <2>2 DEF Send, Enqueue, DropNew, SendPanics, Goto, AfterSubmit
    <3> QED BY <2>2, <3>1, <3>2 DEF Send, workerVars
  <2>3. CASE Evict(e)
    <3>1. queue' \in Seq(Entries)
      BY <2>3 DEF Evict
    <3> QED BY <2>3, <3>1 DEF Evict, Goto, workerVars
  <2>4. CASE Resend(e)
    <3>1. queue' \in Seq(Entries)
      BY <2>4 DEF Resend, Enqueue, SendPanics, queueVars
    <3>2. point' \in [Callers -> Points]
      BY <2>4 DEF Resend, Enqueue, SendPanics, Goto, AfterSubmit
    <3> QED BY <2>4, <3>1, <3>2 DEF Resend, workerVars
  <2> QED BY <1>1, <2>1, <2>2, <2>3, <2>4 DEF Log
<1>2. ASSUME NEW c \in Callers, Shut(c) PROVE PlaceType'
  BY <1>2 DEF Shut, Close, AwaitWorker, Goto, queueVars, workerVars
<1>3. CASE Take
  <2>1. queue' \in Seq(Entries) /\ hand' \in Entries
    BY <1>3 DEF Take
  <2> QED BY <1>3, <2>1 DEF Take
<1>4. CASE StartDrain \/ EndDrain \/ LockSinks \/ WriteSink \/ UnlockSinks
  BY <1>4 DEF StartDrain, EndDrain, LockSinks, WriteSink, UnlockSinks, queueVars
<1>5. CASE SetLevel \/ Register \/ Clear \/ UNCHANGED vars
  BY <1>5 DEF SetLevel, Register, Clear, vars, queueVars, workerVars
<1> QED BY <1>1, <1>2, <1>3, <1>4, <1>5 DEF Next, Worker

-----------------------------------------------------------------------------
(* The sinks.                                                              *)
SinksInv ==
  /\ todo \subseteq sinks
  /\ worker # "writing" => todo = {}
  /\ sinks \cap closed = {}

(* Every step keeps the sinks' invariant: what is closed is not registered *)
(* any more, and the worker has only registered ones before it while it    *)
(* holds the lock.                                                         *)
LEMMA NextSinks == SinksInv /\ [Next]_vars => SinksInv'
<1> SUFFICES ASSUME SinksInv, [Next]_vars PROVE SinksInv'
  OBVIOUS
<1>1. CASE Worker
  BY <1>1 DEF SinksInv, Worker, Take, StartDrain, EndDrain, LockSinks, WriteSink, UnlockSinks,
              sinkVars
<1>2. CASE Register
  BY <1>2 DEF SinksInv, Register, workerVars
<1>3. CASE Clear
  BY <1>3 DEF SinksInv, Clear, Unlocked, workerVars
<1>4. CASE UNCHANGED <<todo, worker, sinks, closed>>
  BY <1>4 DEF SinksInv
<1>5. ASSUME SetLevel \/ (\E e \in Entries : Log(e)) \/ (\E c \in Callers : Shut(c))
             \/ UNCHANGED vars
      PROVE  UNCHANGED <<todo, worker, sinks, closed>>
  BY <1>5 DEF SetLevel, Log, CheckLevel, Send, Evict, Resend, Shut, Close, AwaitWorker,
              workerVars, sinkVars, vars
<1> QED BY <1>1, <1>2, <1>3, <1>4, <1>5 DEF Next

(* The worker never writes to a sink that has been closed, however         *)
(* ClearLogSinks is called between its entries.                            *)
THEOREM SinksAreOpen == Spec => []OnlyOpenSinks
<1>1. Init => SinksInv
  BY DEF Init, SinksInv
<1>2. SinksInv => OnlyOpenSinks
  BY DEF SinksInv, OnlyOpenSinks
<1> QED BY <1>1, <1>2, NextSinks, PTL DEF Spec

-----------------------------------------------------------------------------
(* The last flush.                                                         *)

(* Taking the first entry of a queue leaves the others. *)
LEMMA HeadAndTail ==
  ASSUME NEW q \in Seq(Entries), q # <<>>
  PROVE  Head(q) \in Entries /\ ToSet(q) = {Head(q)} \cup ToSet(Tail(q))
<1>1. \A i \in DOMAIN Tail(q) : i + 1 \in DOMAIN q /\ Tail(q)[i] = q[i + 1]
  OBVIOUS
<1>2. \A i \in DOMAIN q \ {1} : i - 1 \in DOMAIN Tail(q) /\ Tail(q)[i - 1] = q[i]
  OBVIOUS
<1>3. 1 \in DOMAIN q /\ Head(q) = q[1]
  OBVIOUS
<1> QED BY <1>1, <1>2, <1>3 DEF ToSet

(* Adding an entry to a queue adds it to its elements. *)
LEMMA AppendedSet ==
  ASSUME NEW q \in Seq(Entries), NEW e \in Entries
  PROVE  ToSet(Append(q, e)) = ToSet(q) \cup {e}
<1>1. /\ DOMAIN Append(q, e) = 1..(Len(q) + 1) /\ DOMAIN q = 1..Len(q) /\ Len(q) \in Nat
      /\ Append(q, e)[Len(q) + 1] = e
      /\ \A i \in 1..Len(q) : Append(q, e)[i] = q[i]
  OBVIOUS
<1> QED BY <1>1 DEF ToSet

(* Accepted entries are somewhere; a worker that is done has nothing left, *)
(* on a queue that takes nothing any more; and nobody returns from a       *)
(* shutdown before.                                                        *)
Shutting(c) == c \in Stoppers \/ LevelOf[c] = "fatal"

FlushInv ==
  /\ given \subseteq ToSet(queue) \cup {hand} \cup written \cup evicted
  /\ worker \in {"select", "done"} => hand = NoEntry
  /\ worker = "done" => queue = <<>> /\ ~open
  /\ \A c \in Callers : point[c] = "returned" /\ Shutting(c) => worker = "done"
  /\ \A c \in Stoppers : point[c] \in {"close", "wait", "panicked", "returned"}
  /\ given \subseteq Entries

(* Initially nothing is accepted. *)
LEMMA InitFlush == Init => FlushInv
  BY LogAssumption DEF Init, FlushInv, Shutting, Callers

(* An entry that is refused, dropped or accepted does not return as a      *)
(* shutdown, and is not accepted by a closed queue.                        *)
LEMMA LogFlush ==
  ASSUME PlaceType, FlushInv, NEW e \in Entries, Log(e)
  PROVE  FlushInv'
<1>1. UNCHANGED <<worker, hand, written>> /\ e \notin Stoppers /\ e \in Callers
  BY LogAssumption DEF Log, CheckLevel, Send, Evict, Resend, workerVars, history, Callers
<1>2. \A c \in Callers \ {e} : point'[c] = point[c]
  BY DEF Log, CheckLevel, Send, Enqueue, DropNew, SendPanics, Evict, Resend, Goto, PlaceType
<1>3. point'[e] = "returned" => LevelOf[e] # "fatal" \/ worker = "done"
  <2>1. CASE CheckLevel(e)
    BY <1>1, <2>1 DEF CheckLevel, Goto, PlaceType
  <2>2. CASE Send(e)
    BY <1>1, <2>2 DEF Send, Enqueue, DropNew, SendPanics, Goto, AfterSubmit, PlaceType
  <2>3. CASE Evict(e)
    BY <1>1, <2>3 DEF Evict, Goto, PlaceType
  <2>4. CASE Resend(e)
    BY <1>1, <2>4 DEF Resend, Enqueue, SendPanics, Goto, AfterSubmit, PlaceType
  <2> QED BY <2>1, <2>2, <2>3, <2>4 DEF Log
<1>4. /\ given' \subseteq ToSet(queue') \cup {hand} \cup written \cup evicted'
      /\ given' \subseteq Entries
      /\ worker = "done" => queue' = <<>>
      /\ open' = open
  <2>1. CASE UNCHANGED <<queue, open, given>> /\ evicted \subseteq evicted'
    BY <2>1 DEF FlushInv
  <2>2. CASE Enqueue(e) /\ open
    BY <2>2, AppendedSet DEF Enqueue, FlushInv, PlaceType
  <2>3. CASE /\ queue # <<>> /\ queue' = Tail(queue) /\ evicted' = evicted \cup {Head(queue)}
             /\ UNCHANGED <<open, given>>
    BY <2>3, HeadAndTail DEF FlushInv, PlaceType
  <2>4. CASE CheckLevel(e)
    BY <2>1, <2>4 DEF CheckLevel, queueVars, history
  <2>5. CASE Send(e)
    BY <2>1, <2>2, <2>5 DEF Send, DropNew, SendPanics, queueVars
  <2>6. CASE Evict(e)
    BY <2>1, <2>3, <2>6 DEF Evict
  <2>7. CASE Resend(e)
    BY <2>1, <2>2, <2>7 DEF Resend, SendPanics, queueVars
  <2> QED BY <2>4, <2>5, <2>6, <2>7 DEF Log
<1>5. \A c \in Stoppers : point'[c] = point[c]
  BY <1>1, <1>2 DEF Callers
<1>6. \A c \in Callers : point'[c] = "returned" /\ Shutting(c) => worker = "done"
  BY <1>1, <1>2, <1>3 DEF FlushInv, Shutting
<1> QED BY <1>1, <1>4, <1>5, <1>6 DEF FlushInv, Shutting

(* The worker takes and writes what was accepted, and ends only when       *)
(* nothing is left.                                                        *)
LEMMA WorkerFlush ==
  ASSUME PlaceType, FlushInv, Worker
  PROVE  FlushInv'
<1>1. CASE Take
  <2>1. ToSet(queue) = {hand'} \cup ToSet(queue') /\ hand = NoEntry /\ NoEntry \notin given
    BY <1>1, HeadAndTail, LogAssumption DEF Take, PlaceType, FlushInv
  <2> QED BY <1>1, <2>1 DEF Take, FlushInv, Shutting, history
<1>2. CASE StartDrain
  BY <1>2 DEF StartDrain, FlushInv, Shutting, history
<1>3. CASE EndDrain
  BY <1>3 DEF EndDrain, FlushInv, Shutting, history, queueVars
<1>4. CASE LockSinks
  BY <1>4 DEF LockSinks, FlushInv, Shutting, history, queueVars
<1>5. CASE WriteSink
  BY <1>5 DEF WriteSink, FlushInv, Shutting, history, queueVars
<1>6. CASE UnlockSinks
  BY <1>6 DEF UnlockSinks, FlushInv, Shutting, history, queueVars
<1> QED BY <1>1, <1>2, <1>3, <1>4, <1>5, <1>6 DEF Worker

(* Every step keeps the invariant of the last flush. *)
LEMMA NextFlush == PlaceType /\ FlushInv /\ [Next]_vars => FlushInv'
<1> SUFFICES ASSUME PlaceType, FlushInv, [Next]_vars PROVE FlushInv'
  OBVIOUS
<1>1. ASSUME NEW e \in Entries, Log(e) PROVE FlushInv'
  BY <1>1, LogFlush
<1>2. ASSUME NEW c \in Callers, Shut(c) PROVE FlushInv'
  <2>1. UNCHANGED <<queue, open, hand, worker, given, evicted, written>>
    BY <1>2 DEF Shut, Close, AwaitWorker, queueVars, workerVars, history
  <2>2. \A d \in Callers \ {c} : point'[d] = point[d]
    BY <1>2 DEF Shut, Close, AwaitWorker, Goto, PlaceType
  <2>3. /\ point'[c] = "returned" => worker = "done"
        /\ point'[c] \in {"wait", "panicked", "returned"}
    BY <1>2 DEF Shut, Close, AwaitWorker, Goto, PlaceType
  <2>4. Stoppers \subseteq Callers
    BY DEF Callers
  <2> QED BY <2>1, <2>2, <2>3, <2>4 DEF FlushInv, Shutting
<1>3. CASE Worker
  BY <1>3, WorkerFlush
<1>4. CASE SetLevel \/ Register \/ Clear \/ UNCHANGED vars
  BY <1>4 DEF SetLevel, Register, Clear, vars, queueVars, workerVars, history, FlushInv, Shutting
<1> QED BY <1>1, <1>2, <1>3, <1>4 DEF Next

(* When a shutdown returns, and so before a fatal entry ends the process,  *)
(* every accepted entry has been written or counted as dropped.            *)
THEOREM ShutdownFlushes == Spec => []FlushedBeforeExit
<1>1. PlaceType /\ FlushInv => FlushedBeforeExit
  <2> SUFFICES ASSUME PlaceType, FlushInv, NEW c \in Callers, point[c] = "returned", Shutting(c)
               PROVE  queue = <<>> /\ hand = NoEntry /\ given \subseteq written \cup evicted
    BY DEF FlushedBeforeExit, Shutting
  <2>1. queue = <<>> /\ hand = NoEntry
    BY DEF FlushInv
  <2>2. ToSet(queue) = {}
    BY <2>1 DEF ToSet
  <2> QED BY <2>1, <2>2, LogAssumption DEF FlushInv
<1> QED BY <1>1, InitPlaces, NextPlaces, InitFlush, NextFlush, PTL DEF Spec

-----------------------------------------------------------------------------
(* Where the entries are.                                                  *)

(* A sequence that repeats nothing. *)
Distinct(q) == \A i, j \in DOMAIN q : q[i] = q[j] => i = j

(* It has as many elements as its length. *)
LEMMA DistinctCount ==
  ASSUME NEW q \in Seq(Entries), Distinct(q)
  PROVE  Len(q) = Cardinality(ToSet(q))
<1>1. Len(q) \in Nat /\ q \in [1..Len(q) -> ToSet(q)] /\ DOMAIN q = 1..Len(q)
  BY DEF ToSet
<1>2. q \in Bijection(1..Len(q), ToSet(q))
  BY <1>1 DEF Bijection, Injection, Surjection, IsInjective, ToSet, Distinct
<1>3. ExistsBijection(1..Len(q), ToSet(q))
  BY <1>2 DEF ExistsBijection
<1> QED BY <1>1, <1>3, FS_CountingElements

(* The goroutines that have not yet tried, or are about to try again, have *)
(* their entry nowhere; the others' are in one place; and the counter      *)
(* counts.                                                                 *)
AccountInv ==
  /\ given = ToSet(queue) \cup ({hand} \ {NoEntry}) \cup written \cup (evicted \cap given)
  /\ Distinct(queue)
  /\ written \cap (evicted \cup ToSet(queue) \cup {hand}) = {}
  /\ evicted \cap (ToSet(queue) \cup {hand}) = {}
  /\ hand \notin ToSet(queue)
  /\ \A e \in Entries : point[e] \in {"new", "send", "evict", "resend"} =>
       e \notin given \cup evicted
  /\ evicted \subseteq Entries /\ given \subseteq Entries
  /\ dropped \in Nat /\ dropped >= Cardinality(evicted)
  /\ open => dropped = Cardinality(evicted)
  /\ IF worker \in {"select", "done"} THEN hand = NoEntry ELSE hand \in Entries

(* Initially there is no entry anywhere. *)
LEMMA InitAccount == Init => AccountInv
  BY FS_EmptySet DEF Init, AccountInv, ToSet, Distinct

(* Dropping one more entry counts one more. *)
LEMMA OneMore ==
  ASSUME AccountInv, NEW e \in Entries, e \notin evicted
  PROVE  /\ Cardinality(evicted \cup {e}) = Cardinality(evicted) + 1
         /\ Cardinality(evicted) \in Nat
<1>1. IsFiniteSet(evicted)
  BY LogAssumption, FS_Subset DEF AccountInv, Callers
<1> QED BY <1>1, FS_AddElement, FS_CardinalityType

(* An accepted entry is put at the end of the queue. *)
LEMMA EnqueueAccount ==
  ASSUME PlaceType, AccountInv, NEW e \in Entries, Enqueue(e),
         point[e] \in {"send", "resend"}, UNCHANGED <<hand, worker, written>>
  PROVE  AccountInv'
<1>1. /\ e \notin given /\ e \notin evicted /\ e \notin ToSet(queue) /\ e # hand /\ e \notin written
  BY LogAssumption DEF AccountInv
<1>2. ToSet(queue') = ToSet(queue) \cup {e}
  BY AppendedSet DEF Enqueue, PlaceType
<1>3. Distinct(queue')
  <2>1. /\ DOMAIN queue' = 1..(Len(queue) + 1) /\ DOMAIN queue = 1..Len(queue) /\ Len(queue) \in Nat
        /\ queue'[Len(queue) + 1] = e
        /\ \A i \in 1..Len(queue) : queue'[i] = queue[i] /\ queue[i] \in ToSet(queue)
    BY DEF Enqueue, PlaceType, ToSet
  <2>2. \A i \in 1..(Len(queue) + 1) : i = Len(queue) + 1 \/ i \in 1..Len(queue)
    BY <2>1
  <2>3. \A i \in 1..Len(queue) : queue'[i] # e
    BY <1>1, <2>1
  <2> QED BY <2>1, <2>2, <2>3 DEF Distinct, AccountInv
<1>4. \A f \in Entries : point'[f] \in {"new", "send", "evict", "resend"} => f # e /\ point'[f] = point[f]
  BY DEF Enqueue, Goto, AfterSubmit, PlaceType, Callers
<1>5. NoEntry \notin Entries
  BY LogAssumption
<1> QED BY <1>1, <1>2, <1>3, <1>4, <1>5 DEF Enqueue, AccountInv

(* The first of the queue is taken out, by the worker or to be dropped. *)
LEMMA TakeOut ==
  ASSUME PlaceType, AccountInv, queue # <<>>
  PROVE  /\ Head(queue) \in Entries /\ Head(queue) \in given
         /\ ToSet(queue) = {Head(queue)} \cup ToSet(Tail(queue))
         /\ Head(queue) \notin ToSet(Tail(queue)) /\ Distinct(Tail(queue))
<1>1. /\ DOMAIN queue = 1..Len(queue) /\ Len(queue) \in Nat /\ 1 \in DOMAIN queue
      /\ Head(queue) = queue[1] /\ DOMAIN Tail(queue) = 1..(Len(queue) - 1)
      /\ \A i \in 1..(Len(queue) - 1) : Tail(queue)[i] = queue[i + 1] /\ i + 1 \in DOMAIN queue
  BY DEF PlaceType
<1>2. Distinct(Tail(queue))
  BY <1>1 DEF Distinct, AccountInv
<1>3. Head(queue) \notin ToSet(Tail(queue))
  BY <1>1 DEF ToSet, Distinct, AccountInv
<1> QED BY <1>2, <1>3, HeadAndTail DEF PlaceType, AccountInv

(* Every step of a log call keeps the account. *)
LEMMA LogAccount ==
  ASSUME PlaceType, AccountInv, NEW e \in Entries, Log(e)
  PROVE  AccountInv'
<1>1. UNCHANGED <<worker, hand, written>> /\ e \in Callers
  BY DEF Log, CheckLevel, Send, Evict, Resend, workerVars, history, Callers
<1>2. ASSUME UNCHANGED <<queue, open, dropped, given, evicted>>,
             \A f \in Entries : point'[f] \in {"new", "send", "evict", "resend"} =>
               point[f] \in {"new", "send", "evict", "resend"}
      PROVE  AccountInv'
  BY <1>1, <1>2 DEF AccountInv
<1>3. CASE CheckLevel(e)
  BY <1>2, <1>3 DEF CheckLevel, Goto, PlaceType, queueVars, history, Callers
<1>4. CASE Send(e)
  <2>1. CASE open /\ Enqueue(e)
    BY <1>1, <1>4, <2>1, EnqueueAccount DEF Send
  <2>2. CASE DropNew(e) /\ open
    <3>1. e \notin given /\ e \notin evicted /\ e \notin ToSet(queue) /\ e # hand /\ e \notin written
      BY <1>4, LogAssumption DEF AccountInv, Send
    <3>2. \A f \in Entries : point'[f] \in {"new", "send", "evict", "resend"} =>
            f # e /\ point'[f] = point[f]
      BY <2>2 DEF DropNew, Goto, PlaceType, Callers
    <3>3. evicted' \cap given' = evicted \cap given
      BY <2>2, <3>1 DEF DropNew
    <3>4. dropped' \in Nat /\ dropped' >= Cardinality(evicted') /\ (open' => dropped' = Cardinality(evicted'))
      BY <2>2, <3>1, OneMore DEF DropNew, AccountInv, queueVars
    <3> QED BY <1>1, <2>2, <3>1, <3>2, <3>3, <3>4 DEF DropNew, AccountInv, queueVars
  <2>3. CASE SendPanics(e) \/ (Goto(e, "evict") /\ UNCHANGED <<queueVars, dropped, given, evicted>>)
    BY <1>2, <1>4, <2>3 DEF Send, SendPanics, Goto, PlaceType, queueVars, Callers
  <2> QED BY <1>4, <2>1, <2>2, <2>3 DEF Send
<1>5. CASE Evict(e)
  <2>1. /\ point[e] = "evict" /\ open' = open /\ given' = given
        /\ \A f \in Entries : point'[f] \in {"new", "send", "evict", "resend"} =>
             point[f] \in {"new", "send", "evict", "resend"}
    BY <1>5 DEF Evict, Goto, PlaceType, Callers
  <2>2. CASE queue # <<>>
    <3>1. queue' = Tail(queue) /\ evicted' = evicted \cup {Head(queue)} /\ dropped' = dropped + 1
      BY <1>5, <2>2 DEF Evict
    <3>2. Head(queue) \notin evicted /\ Head(queue) # hand /\ Head(queue) \notin written
      BY <2>2, TakeOut DEF AccountInv
    <3>3. dropped' \in Nat /\ dropped' >= Cardinality(evicted') /\ (open' => dropped' = Cardinality(evicted'))
      BY <2>1, <2>2, <3>1, <3>2, OneMore, TakeOut DEF AccountInv
    <3>4. \A f \in Entries : point[f] \in {"new", "send", "evict", "resend"} => f # Head(queue)
      BY <2>2, TakeOut DEF AccountInv
    <3> QED BY <1>1, <2>1, <2>2, <3>1, <3>2, <3>3, <3>4, TakeOut DEF AccountInv
  <2>3. CASE queue = <<>>
    <3>1. /\ queue' = queue /\ evicted' = evicted
          /\ dropped' = IF open THEN dropped ELSE dropped + 1
      BY <1>5, <2>3 DEF Evict
    <3>2. Cardinality(evicted) \in Nat
      BY LogAssumption, FS_Subset, FS_CardinalityType DEF AccountInv, Callers
    <3>3. dropped' \in Nat /\ dropped' >= Cardinality(evicted) /\ (open' => dropped' = Cardinality(evicted))
      BY <2>1, <3>1, <3>2 DEF AccountInv
    <3> QED BY <1>1, <2>1, <3>1, <3>3 DEF AccountInv
  <2> QED BY <2>2, <2>3
<1>6. CASE Resend(e)
  <2>1. CASE Enqueue(e)
    BY <1>1, <1>6, <2>1, EnqueueAccount DEF Resend
  <2>2. CASE SendPanics(e)
             \/ (Goto(e, AfterSubmit(e)) /\ UNCHANGED <<queueVars, dropped, given, evicted>>)
    BY <1>2, <1>6, <2>2 DEF Resend, SendPanics, Goto, AfterSubmit, PlaceType, queueVars, Callers
  <2> QED BY <1>6, <2>1, <2>2 DEF Resend
<1> QED BY <1>3, <1>4, <1>5, <1>6 DEF Log

(* Every step of the worker keeps the account. *)
LEMMA WorkerAccount ==
  ASSUME PlaceType, AccountInv, Worker
  PROVE  AccountInv'
<1>1. UNCHANGED <<point, dropped, given, evicted>>
  BY DEF Worker, Take, StartDrain, EndDrain, LockSinks, WriteSink, UnlockSinks, history
<1>2. CASE Take
  <2>1. /\ hand = NoEntry /\ hand' = Head(queue) /\ queue' = Tail(queue) /\ queue # <<>>
        /\ UNCHANGED <<open, written>> /\ worker' = "lock"
    BY <1>2 DEF Take, AccountInv, history
  <2>2. hand' \in Entries /\ hand' # NoEntry /\ NoEntry \notin ToSet(queue) /\ NoEntry \notin given
    BY <2>1, LogAssumption, TakeOut DEF AccountInv
  <2>3. hand' \notin written /\ hand' \notin evicted
    BY <2>1, TakeOut DEF AccountInv
  <2> QED BY <1>1, <2>1, <2>2, <2>3, TakeOut DEF AccountInv
<1>3. CASE UnlockSinks
  <2>1. hand \in Entries /\ worker' = "select" /\ hand' = NoEntry
        /\ written' = written \cup {hand} /\ UNCHANGED <<queue, open>>
    BY <1>3 DEF UnlockSinks, PlaceType, queueVars, AccountInv
  <2> QED BY <1>1, <2>1, LogAssumption DEF AccountInv
<1>4. CASE StartDrain \/ EndDrain \/ LockSinks \/ WriteSink
  BY <1>1, <1>4 DEF StartDrain, EndDrain, LockSinks, WriteSink, AccountInv, queueVars, history
<1> QED BY <1>2, <1>3, <1>4 DEF Worker

(* Every step keeps the account. *)
LEMMA NextAccount == PlaceType /\ AccountInv /\ [Next]_vars => AccountInv'
<1> SUFFICES ASSUME PlaceType, AccountInv, [Next]_vars PROVE AccountInv'
  OBVIOUS
<1>1. CASE Worker
  BY <1>1, WorkerAccount
<1>2. ASSUME NEW e \in Entries, Log(e) PROVE AccountInv'
  BY <1>2, LogAccount
<1>3. ASSUME NEW c \in Callers, Shut(c) PROVE AccountInv'
  <2>1. UNCHANGED <<queue, open, hand, worker, given, evicted, written, dropped>>
    BY <1>3 DEF Shut, Close, AwaitWorker, queueVars, workerVars, history
  <2>2. \A f \in Entries : point'[f] \in {"new", "send", "evict", "resend"} => point'[f] = point[f]
    BY <1>3 DEF Shut, Close, AwaitWorker, Goto, PlaceType, Callers
  <2> QED BY <2>1, <2>2 DEF AccountInv
<1>4. CASE SetLevel \/ Register \/ Clear \/ UNCHANGED vars
  BY <1>4 DEF SetLevel, Register, Clear, vars, queueVars, workerVars, history, AccountInv
<1> QED BY <1>1, <1>2, <1>3, <1>4 DEF Next

(* An accepted entry is in exactly one place until the end, and until the  *)
(* queue is closed the counter is the number of entries dropped.           *)
THEOREM EveryEntryAccounted == Spec => []EntriesAccounted
<1>1. PlaceType /\ AccountInv => EntriesAccounted
  BY DistinctCount DEF PlaceType, AccountInv, EntriesAccounted
<1> QED BY <1>1, InitPlaces, NextPlaces, InitAccount, NextAccount, PTL DEF Spec
=============================================================================
