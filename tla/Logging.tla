------------------------------ MODULE Logging ------------------------------
(***************************************************************************)
(* The asynchronous logger of core/telemetry/logger.go: any goroutine logs *)
(* an entry, a bounded queue takes it or a dropping policy decides, one    *)
(* worker writes what the queue holds to the registered sinks, and a fatal *)
(* entry or a ShutdownLogging call stops the worker after a last drain.    *)
(*                                                                         *)
(* Each entry is the log call of its own goroutine.  A step is one channel *)
(* operation or one critical section of the registry's lock; the worker    *)
(* holds the lock for reading while it writes an entry to sink after sink. *)
(* A goroutine that panics is taken to be recovered by its caller, as the  *)
(* runner of an execution is: the others go on.  Fields, formatting and    *)
(* redaction are left out.                                                 *)
(***************************************************************************)
EXTENDS Integers, Sequences, FiniteSets, SequencesExt

CONSTANTS
  Entries,     \* what is logged, each once
  LevelOf,     \* "low" for Debug and Info, "high" for Warn and Error, "fatal"
  Stoppers,    \* goroutines that call ShutdownLogging directly
  QueueSize,   \* cap(queue)
  Sinks,       \* the sinks that may be registered, each once
  NoEntry

Callers == Entries \cup Stoppers

ASSUME LogAssumption ==
  /\ IsFiniteSet(Callers) /\ Entries \cap Stoppers = {}
  /\ LevelOf \in [Entries -> {"low", "high", "fatal"}]
  /\ QueueSize \in Nat \ {0}
  /\ NoEntry \notin Entries

VARIABLES
  threshold,  \* currentLogLevel, as the least of the three levels it lets through
  queue,
  open,       \* FALSE once the worker has closed the queue
  closing,    \* closeCh is closed
  dropped,    \* the registry's counter
  point,      \* where each caller is
  worker,     \* where processQueue is
  draining,   \* it has left its select loop
  hand,       \* the entry it writes
  todo,       \* the sinks it has yet to write it to
  sinks,      \* the registered sinks
  closed,     \* the sinks ClearLogSinks has closed
  alive,      \* FALSE once exitFunc has ended the process
  \* history, read by no action
  given,      \* the entries whose send succeeded
  evicted,    \* the entries taken out of the queue or never put in, and counted
  written     \* the entries the worker is done with

queueVars  == <<queue, open>>
workerVars == <<worker, draining, hand, todo>>
sinkVars   == <<sinks, closed>>
history    == <<given, evicted, written>>
vars == <<threshold, queue, open, closing, dropped, point, worker, draining, hand, todo,
          sinks, closed, alive, given, evicted, written>>

Points == {"new", "send", "evict", "resend", "close", "wait", "returned", "panicked"}

Init ==
  /\ threshold = "low"
  /\ queue = <<>> /\ open = TRUE /\ closing = FALSE /\ dropped = 0
  /\ point = [c \in Callers |-> IF c \in Entries THEN "new" ELSE "close"]
  /\ worker = "select" /\ draining = FALSE /\ hand = NoEntry /\ todo = {}
  /\ sinks = {} /\ closed = {}
  /\ alive = TRUE
  /\ given = {} /\ evicted = {} /\ written = {}

-----------------------------------------------------------------------------
(* PlatformLogger.log                                                      *)
Goto(c, p) == point' = [point EXCEPT ![c] = p]

(* What follows the submission of an entry.                                *)
AfterSubmit(e) == IF LevelOf[e] = "fatal" THEN "close" ELSE "returned"

(* SetGlobalLogLevel, at any moment.                                       *)
SetLevel ==
  /\ alive
  /\ threshold' \in {"low", "high"}
  /\ UNCHANGED <<queueVars, closing, dropped, point, workerVars, sinkVars, alive, history>>

CheckLevel(e) ==
  /\ alive /\ point[e] = "new"
  /\ Goto(e, IF LevelOf[e] = "low" /\ threshold = "high" THEN "returned" ELSE "send")
  /\ UNCHANGED <<threshold, queueVars, closing, dropped, workerVars, sinkVars, alive, history>>

Enqueue(e) ==
  /\ queue' = Append(queue, e)
  /\ given' = given \cup {e}
  /\ Goto(e, AfterSubmit(e))
  /\ UNCHANGED <<open, dropped, evicted>>

(* Mutant: a full queue drops an entry without counting it. *)
DropUncounted(e) ==
  /\ evicted' = evicted \cup {e}
  /\ Goto(e, "returned")
  /\ UNCHANGED <<queueVars, dropped, given>>

DropNew(e) ==
  /\ dropped' = dropped + 1
  /\ evicted' = evicted \cup {e}
  /\ Goto(e, "returned")
  /\ UNCHANGED <<queueVars, given>>

SendPanics(e) == Goto(e, "panicked") /\ UNCHANGED <<queueVars, dropped, given, evicted>>

Send(e) ==
  /\ alive /\ point[e] = "send"
  /\ \/ ~open /\ SendPanics(e)
     \/ open /\ Len(queue) < QueueSize /\ Enqueue(e)
     \/ open /\ Len(queue) = QueueSize /\ LevelOf[e] = "low" /\ DropNew(e)
     \/ /\ open /\ Len(queue) = QueueSize /\ LevelOf[e] # "low"
        /\ Goto(e, "evict")
        /\ UNCHANGED <<queueVars, dropped, given, evicted>>
  /\ UNCHANGED <<threshold, closing, workerVars, sinkVars, alive, written>>

(* An entry that matters makes room for itself.  Receiving from a queue    *)
(* that is closed and empty succeeds too, and is counted.                  *)
Evict(e) ==
  /\ alive /\ point[e] = "evict"
  /\ \/ /\ queue # <<>>
        /\ queue' = Tail(queue)
        /\ evicted' = evicted \cup {Head(queue)}
        /\ dropped' = dropped + 1
     \/ /\ queue = <<>>
        /\ dropped' = IF open THEN dropped ELSE dropped + 1
        /\ UNCHANGED <<queue, evicted>>
  /\ Goto(e, "resend")
  /\ UNCHANGED <<threshold, open, closing, workerVars, sinkVars, alive, given, written>>

(* The second try; when others were faster the entry is gone, uncounted.   *)
Resend(e) ==
  /\ alive /\ point[e] = "resend"
  /\ \/ ~open /\ SendPanics(e)
     \/ open /\ Len(queue) < QueueSize /\ Enqueue(e)
     \/ /\ open /\ Len(queue) = QueueSize
        /\ Goto(e, AfterSubmit(e))
        /\ UNCHANGED <<queueVars, dropped, given, evicted>>
  /\ UNCHANGED <<threshold, closing, workerVars, sinkVars, alive, written>>

(* ShutdownLogging, called directly or by a fatal entry: closing closeCh a *)
(* second time panics.                                                     *)
Close(c) ==
  /\ alive /\ point[c] = "close"
  /\ closing' = TRUE
  /\ Goto(c, IF closing THEN "panicked" ELSE "wait")
  /\ UNCHANGED <<threshold, queueVars, dropped, workerVars, sinkVars, alive, history>>

AwaitWorker(c) ==
  /\ alive /\ point[c] = "wait"
  /\ worker = "done"
  /\ Goto(c, "returned")
  /\ alive' = (c \notin Entries)
  /\ UNCHANGED <<threshold, queueVars, closing, dropped, workerVars, sinkVars, history>>

-----------------------------------------------------------------------------
(* processQueue: the select loop and, once closeCh is closed, the drain.   *)
Take ==
  /\ alive /\ worker = "select" /\ queue # <<>>
  /\ hand' = Head(queue) /\ queue' = Tail(queue)
  /\ worker' = "lock"
  /\ UNCHANGED <<threshold, open, closing, dropped, point, draining, todo, sinkVars, alive,
                 history>>

(* Mutant: the queue is not closed, so ranging over it never ends. *)
StartDrainOpen ==
  /\ alive /\ worker = "select" /\ ~draining /\ closing
  /\ draining' = TRUE
  /\ UNCHANGED <<threshold, queueVars, closing, dropped, point, worker, hand, todo, sinkVars,
                 alive, history>>

StartDrain ==
  /\ alive /\ worker = "select" /\ ~draining /\ closing
  /\ open' = FALSE /\ draining' = TRUE
  /\ UNCHANGED <<threshold, queue, closing, dropped, point, worker, hand, todo, sinkVars,
                 alive, history>>

(* Mutant: what is left in the queue is not written. *)
EndDrainEarly ==
  /\ alive /\ worker = "select" /\ draining
  /\ worker' = "done"
  /\ UNCHANGED <<threshold, queueVars, closing, dropped, point, draining, hand, todo,
                 sinkVars, alive, history>>

EndDrain ==
  /\ alive /\ worker = "select" /\ draining /\ queue = <<>> /\ ~open
  /\ worker' = "done"
  /\ UNCHANGED <<threshold, queueVars, closing, dropped, point, draining, hand, todo,
                 sinkVars, alive, history>>

LockSinks ==
  /\ alive /\ worker = "lock"
  /\ todo' = sinks
  /\ worker' = "writing"
  /\ UNCHANGED <<threshold, queueVars, closing, dropped, point, draining, hand, sinkVars,
                 alive, history>>

WriteSink ==
  /\ alive /\ worker = "writing"
  /\ \E s \in todo : todo' = todo \ {s}
  /\ UNCHANGED <<threshold, queueVars, closing, dropped, point, worker, draining, hand,
                 sinkVars, alive, history>>

UnlockSinks ==
  /\ alive /\ worker = "writing" /\ todo = {}
  /\ written' = written \cup {hand}
  /\ hand' = NoEntry
  /\ worker' = "select"
  /\ UNCHANGED <<threshold, queueVars, closing, dropped, point, draining, todo, sinkVars,
                 alive, given, evicted>>

-----------------------------------------------------------------------------
(* RegisterLogSink and ClearLogSinks exclude the worker's writing.         *)
Unlocked == worker # "writing"

Register ==
  /\ alive /\ Unlocked
  /\ \E s \in Sinks \ (sinks \cup closed) : sinks' = sinks \cup {s}
  /\ UNCHANGED <<threshold, queueVars, closing, dropped, point, workerVars, closed, alive,
                 history>>

(* Mutant: the sinks are cleared without the lock. *)
ClearUnlocked ==
  /\ alive
  /\ sinks # {}
  /\ closed' = closed \cup sinks /\ sinks' = {}
  /\ UNCHANGED <<threshold, queueVars, closing, dropped, point, workerVars, alive, history>>

Clear ==
  /\ alive /\ Unlocked
  /\ sinks # {}
  /\ closed' = closed \cup sinks /\ sinks' = {}
  /\ UNCHANGED <<threshold, queueVars, closing, dropped, point, workerVars, alive, history>>

Worker == Take \/ StartDrain \/ EndDrain \/ LockSinks \/ WriteSink \/ UnlockSinks

Log(e) == CheckLevel(e) \/ Send(e) \/ Evict(e) \/ Resend(e)

Shut(c) == Close(c) \/ AwaitWorker(c)

Next ==
  \/ SetLevel \/ Worker \/ Register \/ Clear
  \/ \E e \in Entries : Log(e)
  \/ \E c \in Callers : Shut(c)

Spec == Init /\ [][Next]_vars

(* The goroutines keep running; nobody has to change levels or sinks.      *)
Fairness ==
  /\ WF_vars(Worker)
  /\ \A e \in Entries : WF_vars(Log(e))
  /\ \A c \in Callers : WF_vars(AwaitWorker(c))

FairSpec == Spec /\ Fairness

-----------------------------------------------------------------------------
TypeOK ==
  /\ threshold \in {"low", "high"}
  /\ queue \in Seq(Entries) /\ Len(queue) <= QueueSize
  /\ open \in BOOLEAN /\ closing \in BOOLEAN /\ draining \in BOOLEAN /\ alive \in BOOLEAN
  /\ dropped \in Nat
  /\ point \in [Callers -> Points]
  /\ worker \in {"select", "lock", "writing", "done"}
  /\ hand \in Entries \cup {NoEntry}
  /\ todo \subseteq Sinks /\ sinks \subseteq Sinks /\ closed \subseteq Sinks
  /\ given \subseteq Entries /\ evicted \subseteq Entries /\ written \subseteq Entries

(* An entry the queue has accepted is in exactly one place until the end:  *)
(* the queue, the worker's hand, the sinks or among the evicted; and until *)
(* the queue is closed the counter is the number of entries dropped        *)
(* (logger.go 131-163, 229-251).                                           *)
EntriesAccounted ==
  /\ given = ToSet(queue) \cup ({hand} \ {NoEntry}) \cup written \cup (evicted \cap given)
  /\ Len(queue) = Cardinality(ToSet(queue))
  /\ written \cap (evicted \cup ToSet(queue) \cup {hand}) = {}
  /\ evicted \cap (ToSet(queue) \cup {hand}) = {}
  /\ hand \notin ToSet(queue)
  /\ dropped >= Cardinality(evicted)
  /\ open => dropped = Cardinality(evicted)

(* The worker never writes to a sink that ClearLogSinks has closed, which  *)
(* a Restart does while executions log (logger.go 129-135, runtime.go 326).*)
OnlyOpenSinks == todo \cap closed = {}

(* When ShutdownLogging has returned, and so when a fatal entry ends the   *)
(* process, every accepted entry has been written or counted as dropped;   *)
(* none is added later (logger.go 147-168, 253-256).                       *)
FlushedBeforeExit ==
  (\E c \in Callers : point[c] = "returned" /\ (c \in Stoppers \/ LevelOf[c] = "fatal"))
    => queue = <<>> /\ hand = NoEntry /\ given \subseteq written \cup evicted

(* A shutdown ends whatever is logged meanwhile.                           *)
ShutdownEnds == \A c \in Callers : point[c] = "wait" ~> (point[c] = "returned" \/ ~alive)
=============================================================================
