-------------------------- MODULE ExecutionManager --------------------------
(***************************************************************************)
(* The asynchronous execution engine of core/execution/manager.go: callers *)
(* submit executions, cancel them and wait for them; one scheduler loop    *)
(* hands queued executions to runner goroutines under a global and a       *)
(* per-provider concurrency limit; a runner makes attempts with backoff    *)
(* between them, records the outcome, gives its slots back and wakes the   *)
(* waiters.                                                                *)
(*                                                                         *)
(* A step is what the code does between two points where another goroutine *)
(* can act: a critical section of one mutex, a channel operation, the      *)
(* start or the end of a provider call.  The order inside the queue is     *)
(* the subject of PriorityScheduler; here a dequeue takes any execution    *)
(* that is of a class the scheduler serves and whose provider has room.    *)
(* Submit accepts every class, so an execution of another one is queued    *)
(* until somebody cancels it.  Lifecycle readiness is a free choice of the *)
(* environment (module Lifecycle), and published events are left out.      *)
(***************************************************************************)
EXTENDS Integers, FiniteSets

CONSTANTS
  Execs,          \* the execution IDs, each submitted at most once
  Served,         \* those of a priority class in the order Dequeue goes through
  Providers,      \* the provider references
  ProviderOf,     \* [Execs -> Providers], ExecutionRequest.ProviderRef
  Registered,     \* the providers the registry resolves
  ProviderLimit,  \* [Providers -> Nat], providerLimits (an unlimited provider
                  \* has a limit no run can reach)
  GlobalLimit,    \* cap(em.sem)
  QueueSize,      \* cap(em.queue)
  SignalCap,      \* cap(em.scheduleSignal)
  MaxAttempts,    \* RetryPolicy.MaxAttempts
  Replies,        \* what a provider may answer, beside an error
  ProviderErrors, \* the kinds of error a provider may return
  MaxCancels,     \* [Execs -> Nat], bound: the Cancel calls of an execution
  Waiters,        \* the goroutines that call Wait
  WaitsFor,       \* [Waiters -> Execs]
  MayShutdown,    \* whether Shutdown is called in this instance
  None            \* no execution

ASSUME ExecsAssumption == IsFiniteSet(Execs) /\ None \notin Execs /\ Served \subseteq Execs
ASSUME ProviderAssumption ==
  /\ ProviderOf \in [Execs -> Providers]
  /\ Registered \subseteq Providers
  /\ ProviderLimit \in [Providers -> Nat]
ASSUME LimitAssumption ==
  /\ GlobalLimit \in Nat \ {0}
  /\ QueueSize \in Nat
  /\ SignalCap \in Nat \ {0}
  /\ MaxAttempts \in Nat
  /\ MaxCancels \in [Execs -> Nat]
ASSUME WaiterAssumption == WaitsFor \in [Waiters -> Execs]
ASSUME ReplyAssumption ==
  /\ Replies \subseteq {"success", "nil", "failedResult", "bareFailure"}
  /\ ProviderErrors \subseteq {"timeout", "cancelled", "other"}
  /\ MayShutdown \in BOOLEAN

Terminal == {"SUCCEEDED", "FAILED", "CANCELLED", "TIMED_OUT"}
States == {"PENDING", "QUEUED", "RUNNING", "RETRYING"} \cup Terminal

(* Categories of the errors an attempt can end with; "other" stands for    *)
(* every category that translateError does not single out and for errors   *)
(* that are not a PlatformError.                                           *)
ErrorKinds == {"timeout", "cancelled", "other"}
Outcomes == {"none", "success", "nil", "failedResult", "bareFailure"} \cup ErrorKinds

VARIABLES
  submit,    \* where each Submit call is
  state,     \* exec.State
  result,    \* exec.Result: its State, or "none" while it is nil
  queued,    \* the executions in the priority scheduler
  cancels,   \* Cancel calls made so far
  loop,      \* where the scheduler goroutine is
  picked,    \* the execution scheduleNext has dequeued
  sem,       \* len(em.sem)
  active,    \* em.providerActive
  signals,   \* len(em.scheduleSignal)
  shutdown,  \* shutdownChan is closed
  runner,    \* where each runExecution goroutine is
  ctx,       \* the execution's totalCtx; "none" before CancelFunc is set
  attempts,  \* len(exec.Attempts)
  outcome,   \* what executeAttempts returned, or is about to
  panicked,  \* the runners whose panic was recovered
  waiting,   \* where each Wait call is
  reply,     \* what each Wait call returned
  alive      \* FALSE once logger.Fatal has ended the process

callerVars == <<submit, cancels>>
loopVars   == <<loop, picked>>
slotVars   == <<sem, active, signals>>
runVars    == <<runner, ctx, attempts, outcome, panicked>>
waitVars   == <<waiting, reply>>
vars == <<submit, cancels, state, result, queued, loop, picked, sem, active,
          signals, shutdown, runner, ctx, attempts, outcome, panicked,
          waiting, reply, alive>>

SubmitPoints == {"new", "ready", "registered", "marked", "enqueued", "submitted", "rejected"}
LoopPoints   == {"idle", "check", "dequeue", "acquire", "account", "stopped"}
RunnerPoints == {"none", "spawned", "started", "armed", "attempt", "retry", "backoff",
                 "finish", "handled", "releasing", "semFree", "provFree",
                 "notifying", "done"}
WaitPoints   == {"idle", "checked", "registered", "woken", "returned"}

Init ==
  /\ submit = [e \in Execs |-> "new"]
  /\ state = [e \in Execs |-> "PENDING"]
  /\ result = [e \in Execs |-> "none"]
  /\ queued = {}
  /\ cancels = [e \in Execs |-> 0]
  /\ loop = "idle" /\ picked = None
  /\ sem = 0 /\ active = [p \in Providers |-> 0] /\ signals = 0
  /\ shutdown = FALSE
  /\ runner = [e \in Execs |-> "none"]
  /\ ctx = [e \in Execs |-> "none"]
  /\ attempts = [e \in Execs |-> 0]
  /\ outcome = [e \in Execs |-> "none"]
  /\ panicked = {}
  /\ waiting = [w \in Waiters |-> "idle"]
  /\ reply = [w \in Waiters |-> "none"]
  /\ alive = TRUE

-----------------------------------------------------------------------------
(* Shared steps.                                                           *)

(* The execution is in em.executions.  It is never taken out again. *)
Known(e) == submit[e] \in {"registered", "marked", "enqueued", "submitted"}

(* The non-blocking send on scheduleSignal: dropped when the buffer is full. *)
Signal == signals' = IF signals < SignalCap THEN signals + 1 ELSE signals

(* notifyWaiters: close the channels registered so far for e. *)
Notify(e) ==
  waiting' = [w \in Waiters |->
                IF WaitsFor[w] = e /\ waiting[w] = "registered" THEN "woken" ELSE waiting[w]]

(* exec.State and exec.Result are written in one critical section. *)
Settle(e, s) ==
  /\ state' = [state EXCEPT ![e] = s]
  /\ result' = [result EXCEPT ![e] = s]

SetState(e, s) == state' = [state EXCEPT ![e] = s] /\ UNCHANGED result

-----------------------------------------------------------------------------
(* Submit, one step per critical section.                                  *)

SubmitStep(e, from, to) == submit[e] = from /\ submit' = [submit EXCEPT ![e] = to]

SubmitCheck(e) ==   \* lifecycle.IsReady
  /\ \E to \in {"ready", "rejected"} : SubmitStep(e, "new", to)
  /\ UNCHANGED <<cancels, state, result, queued, loopVars, slotVars, shutdown,
                 runVars, waitVars>>

SubmitRegister(e) ==   \* the queue-size test and the insertion, under execMu
  /\ SubmitStep(e, "ready", IF Cardinality(queued) >= QueueSize THEN "rejected" ELSE "registered")
  /\ UNCHANGED <<cancels, state, result, queued, loopVars, slotVars, shutdown,
                 runVars, waitVars>>

SubmitMark(e) ==
  /\ SubmitStep(e, "registered", "marked")
  /\ SetState(e, "QUEUED")
  /\ UNCHANGED <<cancels, queued, loopVars, slotVars, shutdown, runVars, waitVars>>

SubmitEnqueue(e) ==
  /\ SubmitStep(e, "marked", "enqueued")
  /\ queued' = queued \cup {e}
  /\ UNCHANGED <<cancels, state, result, loopVars, slotVars, shutdown, runVars, waitVars>>

SubmitSignal(e) ==
  /\ SubmitStep(e, "enqueued", "submitted")
  /\ Signal
  /\ UNCHANGED <<cancels, state, result, queued, loopVars, sem, active, shutdown,
                 runVars, waitVars>>

-----------------------------------------------------------------------------
(* Cancel holds the execution's lock throughout, so it is one step.        *)

CancelCall(e) ==
  /\ Known(e)
  /\ cancels[e] < MaxCancels[e]
  /\ cancels' = [cancels EXCEPT ![e] = @ + 1]

(* Mutant: the execution is settled but left in the scheduler's queue. *)
CancelKeepsQueued(e) ==
  /\ CancelCall(e)
  /\ state[e] \in {"PENDING", "QUEUED", "RETRYING"}
  /\ Settle(e, "CANCELLED") /\ Notify(e)
  /\ UNCHANGED <<submit, queued, loopVars, slotVars, shutdown, runVars, reply>>

(* Mutant: the waiters are not told. *)
CancelSilently(e) ==
  /\ CancelCall(e)
  /\ state[e] \in {"PENDING", "QUEUED", "RETRYING"}
  /\ queued' = queued \ {e}
  /\ Settle(e, "CANCELLED")
  /\ UNCHANGED <<submit, loopVars, slotVars, shutdown, runVars, waitVars>>

CancelIdle(e) ==   \* not running: settle it here and now
  /\ CancelCall(e)
  /\ state[e] \in {"PENDING", "QUEUED", "RETRYING"}
  /\ queued' = queued \ {e}
  /\ Settle(e, "CANCELLED")
  /\ Notify(e)
  /\ UNCHANGED <<submit, loopVars, slotVars, shutdown, runVars, reply>>

CancelRunning(e) ==   \* cancel totalCtx, if CancelFunc has been set
  /\ CancelCall(e)
  /\ state[e] = "RUNNING"
  /\ ctx' = IF ctx[e] = "live" THEN [ctx EXCEPT ![e] = "cancelled"] ELSE ctx
  /\ UNCHANGED <<submit, state, result, queued, loopVars, slotVars, shutdown, runner,
                 attempts, outcome, panicked, waitVars>>

CancelTerminal(e) ==
  /\ CancelCall(e)
  /\ state[e] \in Terminal
  /\ UNCHANGED <<submit, state, result, queued, loopVars, slotVars, shutdown,
                 runVars, waitVars>>

-----------------------------------------------------------------------------
(* Wait: the state is read under one lock, the channel registered under    *)
(* another.                                                                *)

WaitCheck(w) ==
  LET e == WaitsFor[w] IN
  /\ waiting[w] = "idle" /\ Known(e)
  /\ IF state[e] \in Terminal
       THEN /\ waiting' = [waiting EXCEPT ![w] = "returned"]
            /\ reply' = [reply EXCEPT ![w] = result[e]]
       ELSE /\ waiting' = [waiting EXCEPT ![w] = "checked"]
            /\ UNCHANGED reply
  /\ UNCHANGED <<callerVars, state, result, queued, loopVars, slotVars, shutdown, runVars>>

WaitRegister(w) ==
  /\ waiting[w] = "checked"
  /\ waiting' = [waiting EXCEPT ![w] = "registered"]
  /\ UNCHANGED <<callerVars, state, result, queued, loopVars, slotVars, shutdown, runVars,
                 reply>>

WaitReturn(w) ==   \* the channel is closed: read the result again
  /\ waiting[w] = "woken"
  /\ waiting' = [waiting EXCEPT ![w] = "returned"]
  /\ reply' = [reply EXCEPT ![w] = result[WaitsFor[w]]]
  /\ UNCHANGED <<callerVars, state, result, queued, loopVars, slotVars, shutdown, runVars>>

WaitGiveUp(w) ==   \* the caller's context is done
  /\ waiting[w] \in {"registered", "woken"}
  /\ waiting' = [waiting EXCEPT ![w] = "returned"]
  /\ reply' = [reply EXCEPT ![w] = "ctxErr"]
  /\ UNCHANGED <<callerVars, state, result, queued, loopVars, slotVars, shutdown, runVars>>

-----------------------------------------------------------------------------
(* schedulerLoop and scheduleNext.                                         *)

(* Mutant: one execution too many per provider. *)
HasRoomOffByOne(e) == active[ProviderOf[e]] <= ProviderLimit[ProviderOf[e]]

HasRoom(e) == active[ProviderOf[e]] < ProviderLimit[ProviderOf[e]]   \* canSchedule

Dispatchable(e) == e \in Served /\ HasRoom(e)   \* what Dequeue may return, if queued

LoopSignal ==
  /\ loop = "idle" /\ signals > 0
  /\ signals' = signals - 1
  /\ loop' = "check"
  /\ UNCHANGED <<callerVars, state, result, queued, picked, sem, active, shutdown, runVars,
                 waitVars>>

LoopStop ==
  /\ loop = "idle" /\ shutdown
  /\ loop' = "stopped"
  /\ UNCHANGED <<callerVars, state, result, queued, picked, slotVars, shutdown, runVars,
                 waitVars>>

ScheduleCheck ==
  /\ loop = "check"
  /\ loop' = IF sem >= GlobalLimit THEN "idle" ELSE "dequeue"
  /\ UNCHANGED <<callerVars, state, result, queued, picked, slotVars, shutdown, runVars,
                 waitVars>>

(* Mutant: the execution handed out is not removed. *)
DequeuePeeks ==
  /\ loop = "dequeue"
  /\ \E e \in queued : Dispatchable(e) /\ picked' = e
  /\ loop' = "acquire"
  /\ UNCHANGED <<callerVars, state, result, queued, slotVars, shutdown, runVars, waitVars>>

ScheduleDequeue ==
  /\ loop = "dequeue"
  /\ IF \E e \in queued : Dispatchable(e)
       THEN \E e \in queued :
              /\ Dispatchable(e)
              /\ queued' = queued \ {e}
              /\ picked' = e
              /\ loop' = "acquire"
       ELSE loop' = "idle" /\ UNCHANGED <<queued, picked>>
  /\ UNCHANGED <<callerVars, state, result, slotVars, shutdown, runVars, waitVars>>

ScheduleAcquire ==   \* em.sem <- struct{}{} blocks while the buffer is full
  /\ loop = "acquire" /\ sem < GlobalLimit
  /\ sem' = sem + 1
  /\ loop' = "account"
  /\ UNCHANGED <<callerVars, state, result, queued, picked, active, signals, shutdown,
                 runVars, waitVars>>

(* Mutant: the loop does not look at len(em.sem) again. *)
SpawnSkipsCheck ==
  /\ loop = "account"
  /\ active' = [active EXCEPT ![ProviderOf[picked]] = @ + 1]
  /\ runner' = [runner EXCEPT ![picked] = "spawned"]
  /\ picked' = None
  /\ loop' = "dequeue"
  /\ UNCHANGED <<callerVars, state, result, queued, sem, signals, shutdown, ctx, attempts,
                 outcome, panicked, waitVars>>

ScheduleSpawn ==   \* providerActive++ and go runExecution
  /\ loop = "account"
  /\ active' = [active EXCEPT ![ProviderOf[picked]] = @ + 1]
  /\ runner' = [runner EXCEPT ![picked] = "spawned"]
  /\ picked' = None
  /\ loop' = "check"
  /\ UNCHANGED <<callerVars, state, result, queued, sem, signals, shutdown, ctx, attempts,
                 outcome, panicked, waitVars>>

Shutdown ==   \* close(em.shutdownChan)
  /\ MayShutdown /\ ~shutdown
  /\ shutdown' = TRUE
  /\ UNCHANGED <<callerVars, state, result, queued, loopVars, slotVars, runVars, waitVars>>

-----------------------------------------------------------------------------
(* runExecution and the functions it calls.                                *)

Goto(e, from, to) == runner[e] = from /\ runner' = [runner EXCEPT ![e] = to]

RunnerStart(e) ==   \* the state is overwritten whatever it was
  /\ Goto(e, "spawned", "started")
  /\ SetState(e, "RUNNING")
  /\ UNCHANGED <<callerVars, queued, loopVars, slotVars, shutdown, ctx, attempts, outcome,
                 panicked, waitVars>>

RunnerArm(e) ==   \* context.WithTimeout, and exec.CancelFunc is set
  /\ Goto(e, "started", "armed")
  /\ ctx' = [ctx EXCEPT ![e] = "live"]
  /\ UNCHANGED <<callerVars, state, result, queued, loopVars, slotVars, shutdown, attempts,
                 outcome, panicked, waitVars>>

RunnerResolve(e) ==   \* registry.Resolve, then the middleware around executeAttempts
  /\ \/ /\ ProviderOf[e] \notin Registered
        /\ Goto(e, "armed", "releasing")
        /\ Settle(e, "FAILED")
        /\ UNCHANGED outcome
     \/ /\ ProviderOf[e] \in Registered
        /\ MaxAttempts > 0
        /\ Goto(e, "armed", "attempt")
        /\ UNCHANGED <<state, result, outcome>>
     \/ /\ ProviderOf[e] \in Registered
        /\ Goto(e, "armed", "finish")   \* a middleware answers, or no attempt is allowed
        /\ \E o \in Replies \cup (IF MaxAttempts = 0 THEN {"nil"} ELSE {}) :
             outcome' = [outcome EXCEPT ![e] = o]
        /\ UNCHANGED <<state, result>>
  /\ UNCHANGED <<callerVars, queued, loopVars, slotVars, shutdown, ctx, attempts, panicked,
                 waitVars>>

(* The total timeout of resolvePolicies runs out. *)
Deadline(e) ==
  /\ ctx[e] = "live" /\ runner[e] \in {"armed", "attempt", "retry", "backoff"}
  /\ ctx' = [ctx EXCEPT ![e] = "expired"]
  /\ UNCHANGED <<callerVars, state, result, queued, loopVars, slotVars, shutdown, runner,
                 attempts, outcome, panicked, waitVars>>

(* The end of runSingleAttempt and the decision executeAttempts takes.  By  *)
(* default an error is retryable if it says so, and a timeout if totalCtx   *)
(* is live; RetryPolicy.RetryableCheck may decide otherwise.                *)
AttemptEnd(e, o, retryable) ==
  /\ Goto(e, "attempt", IF retryable /\ attempts[e] + 1 < MaxAttempts THEN "retry" ELSE "finish")
  /\ attempts' = [attempts EXCEPT ![e] = @ + 1]
  /\ outcome' = [outcome EXCEPT ![e] = o]
  /\ UNCHANGED <<callerVars, state, result, queued, loopVars, slotVars, shutdown, ctx,
                 panicked, waitVars>>

AttemptReplies(e)  == \E o \in Replies : AttemptEnd(e, o, FALSE)
AttemptFails(e)    == \E o \in ProviderErrors, r \in BOOLEAN : AttemptEnd(e, o, r)
AttemptTimesOut(e) == \E r \in BOOLEAN : AttemptEnd(e, "timeout", r)   \* attemptCtx.Done

BackoffStart(e) ==
  /\ Goto(e, "retry", "backoff")
  /\ SetState(e, "RETRYING")
  /\ UNCHANGED <<callerVars, queued, loopVars, slotVars, shutdown, ctx, attempts, outcome,
                 panicked, waitVars>>

BackoffElapse(e) ==   \* time.After; the state is overwritten whatever it was
  /\ Goto(e, "backoff", "attempt")
  /\ SetState(e, "RUNNING")
  /\ UNCHANGED <<callerVars, queued, loopVars, slotVars, shutdown, ctx, attempts, outcome,
                 panicked, waitVars>>

BackoffInterrupt(e) ==   \* ctx.Done: the raw ctx.Err() becomes the last error
  /\ Goto(e, "backoff", "finish")
  /\ ctx[e] # "live"
  /\ outcome' = [outcome EXCEPT ![e] = "other"]
  /\ UNCHANGED <<callerVars, state, result, queued, loopVars, slotVars, shutdown, ctx,
                 attempts, panicked, waitVars>>

(* Mutants: recover forgets the slots, or the result. *)
PanicLeaksSlots(e, from) ==
  Goto(e, from, "notifying") /\ Settle(e, "FAILED") /\ panicked' = panicked \cup {e}
PanicWithoutResult(e, from) ==
  Goto(e, from, "releasing") /\ SetState(e, "FAILED") /\ panicked' = panicked \cup {e}

(* A panic in runExecution: recover settles the execution as FAILED and    *)
(* goes on to release the slots.                                           *)
Panic(e, from) ==
  /\ Goto(e, from, "releasing")
  /\ Settle(e, "FAILED")
  /\ panicked' = panicked \cup {e}

(* handleResult and translateError.  The State field of a result that       *)
(* reports a failure, which the code copies, is taken to be FAILED or       *)
(* empty, as all middleware here leaves it.                                 *)
FinalState(o) ==
  CASE o = "success"   -> "SUCCEEDED"
    [] o = "timeout"   -> "TIMED_OUT"
    [] o = "cancelled" -> "CANCELLED"
    [] OTHER           -> "FAILED"

(* Mutant: an early return for the executions that did not succeed. *)
HandleFailureLeaks(e) ==
  /\ Goto(e, "finish", IF outcome[e] = "success" THEN "handled" ELSE "notifying")
  /\ Settle(e, FinalState(outcome[e]))
  /\ UNCHANGED <<callerVars, queued, loopVars, slotVars, shutdown, ctx, attempts, outcome,
                 panicked, waitVars>>

HandleResult(e) ==
  /\ \/ /\ outcome[e] = "nil"          \* translateError(nil) dereferences it
        /\ Panic(e, "finish")
     \/ /\ outcome[e] # "nil"
        /\ Goto(e, "finish", "handled")
        /\ Settle(e, FinalState(outcome[e]))
        /\ UNCHANGED panicked
  /\ UNCHANGED <<callerVars, queued, loopVars, slotVars, shutdown, ctx, attempts, outcome,
                 waitVars>>

PublishOutcome(e) ==
  /\ \/ /\ outcome[e] = "bareFailure"  \* exec.Result.Error is nil
        /\ Panic(e, "handled")
     \/ /\ outcome[e] # "bareFailure"
        /\ Goto(e, "handled", "releasing")
        /\ UNCHANGED <<state, result, panicked>>
  /\ UNCHANGED <<callerVars, queued, loopVars, slotVars, shutdown, ctx, attempts, outcome,
                 waitVars>>

ReleaseSem(e) ==   \* <-em.sem blocks while the buffer is empty
  /\ Goto(e, "releasing", "semFree")
  /\ sem > 0 /\ sem' = sem - 1
  /\ UNCHANGED <<callerVars, state, result, queued, loopVars, active, signals, shutdown, ctx,
                 attempts, outcome, panicked, waitVars>>

ReleaseProvider(e) ==
  /\ Goto(e, "semFree", "provFree")
  /\ active' = [active EXCEPT ![ProviderOf[e]] = @ - 1]
  /\ UNCHANGED <<callerVars, state, result, queued, loopVars, sem, signals, shutdown, ctx,
                 attempts, outcome, panicked, waitVars>>

(* Mutants: the loop is woken only when the last slot comes free, or never. *)
ReleaseSignalsWhenEmpty(e) ==
  /\ Goto(e, "provFree", "notifying")
  /\ IF sem = GlobalLimit - 1 THEN Signal ELSE UNCHANGED signals
  /\ UNCHANGED <<callerVars, state, result, queued, loopVars, sem, active, shutdown, ctx,
                 attempts, outcome, panicked, waitVars>>
ReleaseSilently(e) ==
  /\ Goto(e, "provFree", "notifying")
  /\ UNCHANGED <<callerVars, state, result, queued, loopVars, slotVars, shutdown, ctx,
                 attempts, outcome, panicked, waitVars>>

ReleaseSignal(e) ==
  /\ Goto(e, "provFree", "notifying")
  /\ Signal
  /\ UNCHANGED <<callerVars, state, result, queued, loopVars, sem, active, shutdown, ctx,
                 attempts, outcome, panicked, waitVars>>

NotifyDone(e) ==   \* notifyWaiters; after a recovered panic, logger.Fatal exits
  /\ Goto(e, "notifying", "done")
  /\ Notify(e)
  /\ alive' = (e \notin panicked)
  /\ UNCHANGED <<callerVars, state, result, queued, loopVars, slotVars, shutdown, ctx,
                 attempts, outcome, panicked, reply>>

-----------------------------------------------------------------------------
SubmitCall(e) ==
  SubmitCheck(e) \/ SubmitRegister(e) \/ SubmitMark(e) \/ SubmitEnqueue(e) \/ SubmitSignal(e)

Cancel(e) == CancelIdle(e) \/ CancelRunning(e) \/ CancelTerminal(e)

Wait(w) == WaitCheck(w) \/ WaitRegister(w) \/ WaitReturn(w)

SchedulerLoop == LoopSignal \/ LoopStop \/ ScheduleCheck \/ ScheduleDequeue \/ ScheduleAcquire
                 \/ ScheduleSpawn

Attempt(e) == AttemptReplies(e) \/ AttemptFails(e) \/ AttemptTimesOut(e)

Quietly(A) == A /\ UNCHANGED alive

RunnerStep(e) ==
  \/ Quietly(\/ RunnerStart(e) \/ RunnerArm(e) \/ RunnerResolve(e)
             \/ Attempt(e)
             \/ BackoffStart(e) \/ BackoffElapse(e) \/ BackoffInterrupt(e)
             \/ HandleResult(e) \/ PublishOutcome(e)
             \/ ReleaseSem(e) \/ ReleaseProvider(e) \/ ReleaseSignal(e))
  \/ NotifyDone(e)

Next ==
  /\ alive
  /\ \/ \E e \in Execs : \/ Quietly(SubmitCall(e) \/ Cancel(e) \/ Deadline(e))
                         \/ RunnerStep(e)
     \/ \E w \in Waiters : Quietly(Wait(w) \/ WaitGiveUp(w))
     \/ Quietly(SchedulerLoop \/ Shutdown)

Spec == Init /\ [][Next]_vars

(* Goroutines that can run do run: a Submit that has passed its readiness  *)
(* check, the scheduler loop, every runner (a provider call ends or its    *)
(* attempt context does) and every Wait under way.  No fairness is asked   *)
(* of callers, of deadlines or of a caller's context.                      *)
Fairness ==
  /\ \A e \in Execs : /\ WF_vars(alive /\ Quietly(submit[e] # "new" /\ SubmitCall(e)))
                      /\ WF_vars(alive /\ RunnerStep(e))
  /\ \A w \in Waiters : WF_vars(alive /\ Quietly(waiting[w] # "idle" /\ Wait(w)))
  /\ WF_vars(alive /\ Quietly(SchedulerLoop))

FairSpec == Spec /\ Fairness

-----------------------------------------------------------------------------
(* Properties that hold.                                                   *)

(* Every variable keeps its type; in particular the signal channel never   *)
(* holds more than its capacity.                                           *)
TypeOK ==
  /\ submit \in [Execs -> SubmitPoints]
  /\ state \in [Execs -> States]
  /\ result \in [Execs -> Terminal \cup {"none"}]
  /\ queued \subseteq Execs
  /\ cancels \in [Execs -> Nat] /\ \A e \in Execs : cancels[e] <= MaxCancels[e]
  /\ loop \in LoopPoints
  /\ picked \in Execs \cup {None}
  /\ sem \in Nat
  /\ active \in [Providers -> Int]
  /\ signals \in 0..SignalCap
  /\ shutdown \in BOOLEAN
  /\ runner \in [Execs -> RunnerPoints]
  /\ ctx \in [Execs -> {"none", "live", "cancelled", "expired"}]
  /\ attempts \in [Execs -> 0..MaxAttempts]
  /\ outcome \in [Execs -> Outcomes]
  /\ panicked \subseteq Execs
  /\ waiting \in [Waiters -> WaitPoints]
  /\ reply \in [Waiters -> Terminal \cup {"none", "ctxErr"}]
  /\ alive \in BOOLEAN

(* The slots in use, as one would count them by looking at the goroutines:  *)
(* a runner holds its global slot until <-em.sem and its provider slot      *)
(* until providerActive--; between the send on em.sem and the spawn the     *)
(* scheduler holds one for the execution it has picked.                     *)
Running == {"spawned", "started", "armed", "attempt", "retry", "backoff", "finish",
            "handled", "releasing"}
Picked == IF loop = "account" THEN {picked} ELSE {}
SlotHolders == {e \in Execs : runner[e] \in Running} \cup Picked
ProviderHolders(p) == {e \in Execs : ProviderOf[e] = p /\ runner[e] \in Running \cup {"semFree"}}

(* An execution is in exactly one place: not submitted yet, in the queue,   *)
(* in the scheduler's hand, or with its one runner.  So no execution is     *)
(* ever dispatched twice.                                                   *)
OnePlace ==
  /\ (loop \in {"acquire", "account"}) <=> (picked # None)
  /\ \A e \in queued : runner[e] = "none" /\ picked # e
  /\ picked # None => runner[picked] = "none"
  /\ \A e \in Execs : submit[e] \notin {"enqueued", "submitted"} =>
       e \notin queued /\ picked # e /\ runner[e] = "none"

(* Both counters equal the number of holders on every path (resolve error,  *)
(* panic, normal end): no slot leaks and none is given back twice.          *)
SlotAccounting ==
  /\ sem = Cardinality(SlotHolders)
  /\ \A p \in Providers : active[p] = Cardinality(ProviderHolders(p))

(* The global limit and the limit of every provider are respected although  *)
(* the scheduler tests them and takes the slots in separate steps.          *)
WithinLimits ==
  /\ sem <= GlobalLimit
  /\ \A p \in Providers : active[p] <= ProviderLimit[p]

(* The scheduler never blocks on em.sem with an execution in its hand: what *)
(* it saw in scheduleNext's length test still holds when it sends.          *)
AcquireNeverBlocks == loop = "acquire" => sem < GlobalLimit

(* No dispatch is lost although signals are dropped when the channel is     *)
(* full: while the loop rests with no signal pending, a queued execution    *)
(* that Dequeue would return, and that there is a slot for, means that some *)
(* Submit or some releasing runner has yet to signal.                       *)
NoLostDispatch ==
  (/\ loop = "idle" /\ signals = 0
   /\ sem < GlobalLimit /\ \E e \in queued : Dispatchable(e))
  => \E e \in Execs : submit[e] = "enqueued" \/ runner[e] \in {"semFree", "provFree"}

(* A Wait is only answered with an outcome (or its own context's error),    *)
(* never with a nil result, and a terminal state has its result.            *)
AnsweredWithResult ==
  /\ \A e \in Execs : state[e] \in Terminal => result[e] = state[e]
  /\ \A w \in Waiters : waiting[w] = "woken" => result[WaitsFor[w]] # "none"
  /\ \A w \in Waiters : waiting[w] = "returned" => reply[w] # "none"

(* A Cancel that takes the execution out of the queue is final: it is never *)
(* run and stays CANCELLED.                                                 *)
CancelledInQueue(e) ==
  /\ state[e] = "CANCELLED" /\ submit[e] \in {"enqueued", "submitted"}
  /\ runner[e] = "none" /\ e \notin queued /\ picked # e
CancelFromQueueIsFinal ==
  [][\A e \in Execs : (e \in queued /\ state[e] = "QUEUED" /\ state'[e] = "CANCELLED") \/ CancelledInQueue(e)
       => CancelledInQueue(e)']_vars

(* Every submission of a served class that gets past the readiness check is *)
(* rejected or reaches an outcome, unless the manager is shut down and      *)
(* whatever stays in the queue beside it.  One of another class is never    *)
(* run (scheduler.go 64-102) and settles only if it is cancelled.           *)
SubmissionsSettle ==
  \A e \in Served :
    submit[e] = "ready" ~> (submit[e] = "rejected" \/ result[e] # "none" \/ shutdown \/ ~alive)

(* A slot in use is given back: the manager does not stay full.             *)
SlotsComeBack == (sem = GlobalLimit) ~> (sem < GlobalLimit \/ ~alive)

(* A Wait that registered before the outcome was known returns, if its      *)
(* execution is of a served class.                                          *)
TimelyWaitReturns ==
  \A w \in Waiters :
    (WaitsFor[w] \in Served /\ waiting[w] = "registered" /\ state[WaitsFor[w]] \notin Terminal)
      ~> (waiting[w] = "returned" \/ shutdown \/ ~alive)

-----------------------------------------------------------------------------
(* What a message of the code says and the code does not do; a run refutes  *)
(* it.                                                                      *)

(* "execution cancelled by caller before running" (manager.go:252): an      *)
(* execution with that result never gets to a provider.                     *)
CancelledBeforeRunning ==
  \A e \in Execs : result[e] = "CANCELLED" => runner[e] # "attempt"

=============================================================================
