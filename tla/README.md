# A formal model of the Chukrun runtime

TLA+ modules for the concurrent core of Chukrun (`src/core`), TLC configurations
that check them on small instances, and TLAPS proofs of the properties that
matter most. The reference is the code; every definition that models code is
listed with its lines in `PROJECT.json` (`map`).

## 1. The system

A Chukrun runtime accepts execution requests, queues them by priority, runs each
against a *provider* with retries and timeouts under concurrency limits, and
publishes what happens on an in-process event bus. A lifecycle manager decides
when requests are accepted. Everything is in one Go process; nothing is
persisted, so a crash leaves no state to recover.

| component | state it keeps | operations | modules | status |
|---|---|---|---|---|
| execution manager `core/execution/manager.go` | executions, waiters, slots (`sem`, `providerActive`), signals, stream channels | Submit, SubmitBatch, Stream, Cancel, Wait, Get, Shutdown; scheduler loop; one runner per execution | `ExecutionManager`, `StreamExecution` | partly |
| priority scheduler `core/execution/scheduler.go` | queues per class, credits | Enqueue, Dequeue, Remove, Size | `PriorityScheduler`, `DispatchQueue` | modelled |
| provider registry `core/execution/registry.go` | name to provider | Register, Resolve, List | a constant of `ExecutionManager` | partly |
| lifecycle `core/lifecycle/manager.go` | state, component reports, last restart | Transition, ReportComponentHealth, IsReady, CheckRestartCooldown, HealthStatus, Configure | `Lifecycle` | modelled |
| runtime `core/runtime.go` | the current components | Initialize, Execute, Stream, Shutdown, Restart, Health | `Runtime` | partly |
| event bus `core/events/bus.go` | subscriptions and their queues | Publish, Subscribe, Unsubscribe, namespaces | `EventBus`, `TopicMatch` | partly |
| retry backoff `core/execution/retry.go` | | CalculateBackoff | `Backoff` | modelled |
| middleware `core/middleware` | token buckets, cache, the shared sum of costs | Validate, Wrap, the Handle of each | `Middleware` | modelled |
| context layers `core/context/context.go` | immutable layers of a context | the With functions, Merge | `Contexts`, `Sessions` | modelled |
| session store `core/context/session.go` | sessions, their states and last access | GetOrCreate, SetExpiry, garbage collection, Get, Set, Delete | `Sessions` | modelled |
| context serialization `core/context/serialization.go` | | ToProto, FromProto | `Contexts` | modelled |
| configuration `core/config/manager.go` | | LoadConfig, Validate | `Configuration` | modelled |
| logging `core/telemetry/logger.go` | queue, sinks, level, drop counter | log, RegisterLogSink, ClearLogSinks, ShutdownLogging, the worker | `Logging` | partly |
| telemetry `core/telemetry/telemetry.go` | metrics, spans | RecordCost and others | RecordCost in `Middleware` | partly |
| errors `core/errors` | | | categories in `ExecutionManager` | partly |
| Python client `sdk-python`, protocol definitions | channel, retry counters | call, call_streaming | | not modelled |

How they interact: `Runtime.Execute` calls `Submit` and then `Wait` of the
current execution manager. `Submit` asks the lifecycle whether it may serve,
enqueues into the scheduler and signals the scheduler loop; it ends by promoting
READY to RUNNING. The loop takes executions out of the scheduler and starts a
runner goroutine for each. Runners call the middleware pipeline and the provider,
settle the result under the execution's mutex, give the slots back, signal the
loop and close the waiters' channels. All of them publish events and log. `Restart` and
`Shutdown` hold the runtime's mutex, which `Execute` does not take. Attempts charge
their cost to a budget that a context carries and that all contexts derived from
it share; sessions are shared in the same way through the session store.

What is hard here: many small critical sections with different mutexes between
which any goroutine may act; a signal channel that drops; channels closed by one
goroutine and used by another; cancel, deadline, retry and outcome racing for the
state of one execution; health reports that move the lifecycle during a bootstrap.
`PROJECT.json` lists each such place as a hazard with the property that watches it.

What makes each component correct:

- execution manager: slots neither leak nor are exceeded; nothing is dispatched
  twice; the loop does not sleep through work; a wait is answered with a result;
  a cancel from the queue is final;
- scheduler: a dequeue fails only if nothing acceptable is queued; no class is
  passed over without bound;
- lifecycle and runtime: a runtime that says it serves has an open manager; at
  most one is open; DEGRADED has a reason; Shutdown ends;
- event bus: each delivery is handled or becomes a dead letter, once, in order;
- streams: chunks arrive in order and completely, the end is seen, the slot comes
  back;
- middleware: bursts are bounded, no cost is lost, a budget is passed by a bounded
  amount only, nobody is served what he is not entitled to;
- contexts and sessions: what is derived keeps its lineage, what is sent keeps its
  identity and its moment of deadline, contexts on one session share it while it is
  fresh, a merge does what its rule says;
- configuration: the last layer decides and nothing invalid is accepted;
- logging: every accepted entry is written or counted, no closed sink is written
  to, a shutdown flushes and ends.

## 2. The modules

A step of a model is what the code does between two points where another
goroutine can act: a critical section, a channel operation, a call to a provider
or a handler. Each action names the code it stands for.

`ExecutionManager` has one process per Submit call, per Wait call and per runner,
and the scheduler loop. `submit`, `loop`, `runner` and `waiting` say where each
goroutine is; `state`, `result`, `sem`, `active`, `signals`, `ctx` and `attempts`
are the fields of the code. `scheduleNext` is split where the code is: limit test
(`ScheduleCheck`), dequeue, `em.sem <-`, `providerActive++` and spawn. `Served` are the
executions of a priority class that Dequeue goes through; Submit accepts every class,
and one outside `Served` stays queued beside whatever slots are free.
`releaseSlots` is split into its three steps. A recovered panic (`Panic`) and the
`logger.Fatal` that ends the process after it (`NotifyDone`, `alive`) are part of
the runner. Every place where the code re-reads a state, or writes it without
reading it, does so in the model.

`PriorityScheduler` has the queues and credits of the code, one action per
operation because each holds the mutex for all of it. `canSchedule` is the
set of executions it accepts, one of `Filters`: the manager's asks whether the
provider has room, so a set is all executions of some providers. `DispatchQueue` is
the abstract specification: a pool from which a dequeue takes any acceptable element
and fails only if there is none. What a dequeue accepted (`asked`) is part of both, so
that the refinement says when a nil is right. `PriorityScheduler` is checked to implement it
with the executions of its ranked classes as the served ones; `ExecutionManager` uses it
in this form with its own `Served` (`ScheduleDequeue`; theorem `ManagerUsesThePool`).

`Lifecycle` holds the lifecycle state and reports as variables and operators,
`Runtime` EXTENDS it and adds the calls that hold `r.mu` step by step, the
sequence of execution managers made by bootstraps, and clients in Execute. Of an
execution manager it keeps only what the runtime can tell.

`StreamExecution` is one streamed execution: the caller of Stream, the runner's
select loop, the provider's and the consumer's channel.

`EventBus` has publishers and handler goroutines, each with an agenda of pending
calls, because publishing a dead letter happens inside the call that found the
overflow. `TopicMatch` is the loop of `matchTopic`.

`Middleware` follows each request through a chain of middlewares: `place` is the
position in the chain, `point` where the goroutine is in it. Looking a key up in the
cache and storing it are two critical sections; the key is joined as the code joins it,
with texts as the sequences of their pieces between colons (`CacheKey`), so that different
requests can have one key; AddSpent is a load and a
compare-and-swap that may have to be repeated. Time passes in parts of a token.

`Contexts` has contexts as values in a sequence, each derived from an earlier one by
one of the With functions, by Merge or by a message to another runtime that takes
time (`wire`). `Sessions` is the store with its clock, contexts that take a session,
writes through them, and one Merge, step by step as `mergeSessionKeys` takes its
locks. `Configuration` is LoadConfig, stage by stage, repeated as Restart repeats
it with the same overrides and secrets that change in between. `Backoff` is the loop of
`CalculateBackoff` in integers of a given width; a strategy it does not know is
treated as `constant`.

`Logging` has one goroutine per entry and per caller of ShutdownLogging, and the
worker, with the registry's read lock held while it goes through the sinks.

`MCParts` composes the parts that do not call each other, `TopicMatch`, `Backoff`,
`Configuration`, `Sessions` and `Contexts`, as alternatives: a behaviour is a
behaviour of one of them.

The `MC*` modules give the constants of the instances; `*_proofs` modules hold the
theorems: `ExecutionManager_proofs` also those on `Backoff`, `EventBus_proofs` those on
`TopicMatch`, and `Runtime_proofs` those on `Configuration`, `Contexts` and `Sessions`.
`Sums` has lemmas on sums over finite sets, which the scheduler, the middleware and the
context layers need. Definitions commented *Mutant* are plausible bugs of the definition that
follows them: substituting one must break the property `PROJECT.json` pairs it
with, which shows that the property depends on that piece of code.

### Abstractions to know of

- Readiness is a free choice in `ExecutionManager`'s Submit, and the manager's
  inner life is coarse in `Runtime`; the two models meet at Submit's readiness
  test and at `ActiveCount`.
- Each execution ID is submitted once. The code lets a second request replace the
  first in the table and promises nothing for it.
- The pipeline may answer without an attempt; otherwise it calls the attempts
  once. A failed result without an Error is the reply `bareFailure`: publishing
  its outcome dereferences nil and panics.
- Published events have no effect on the execution manager and are left out of it.
- A result that carries a failure settles the execution as FAILED; in the code a
  middleware may name another state.
- `Runtime` reads `r.execution` once per Execute, the code up to three times.
- A behaviour of `EventBus` ends with the first send on a closed channel.
- In `Middleware` an estimate and a cost are whole units, a payload is the text `%v`
  prints of it (payloads that print alike are the same there, as they are to the cache),
  and credentials are the user they lead to, none or a bad one.
- In `Contexts` metadata is the set of its keys, each with a size. The deadline of a
  message is exact; the code rounds it to milliseconds.
- In `Configuration` one field stands for all that are laid over in the same way;
  `limit` is one that must be positive, `QueueSize` need only be non-negative.
- In `Logging` a goroutine that panics on the closed queue is recovered by its
  caller. Formatting, enrichment and redaction are left out.
- A streamed execution is started at once in `StreamExecution`; queueing is the
  same as for others.

## 3. The runs

All are checked completely, without state constraints. Deadlock is not checked
where the system may come to rest (all executions settled, runtime stopped).

| run | instance | shows |
|---|---|---|
| `EM_slots` | 3 executions, 2 providers of limit 1 (one unknown to the registry), 2 slots | `WithinLimits`, `NoLostDispatch` |
| `EM_dispatch` | 3 executions, one cancelled at any moment, one on a provider unknown to the registry, one of a class that is not served; 1 slot, a queue of 2, a signal buffer of 1, fair goroutines | `OnePlace`, `AcquireNeverBlocks`, `CancelFromQueueIsFinal`, `SubmissionsSettle`, `SlotsComeBack` |
| `EM_outcomes` | 1 execution, 2 attempts, all replies and errors, 2 cancels, 2 waits, shutdown, fair goroutines | `SlotAccounting`, `AnsweredWithResult`, `TimelyWaitReturns` |
| `PS_queue` | classes of weight 2, 2, 1 and one unknown class, 6 executions of two providers that come and go, each provider with room or not at each dequeue | `BoundedBypass`, `ImplementsPool` (refinement of `DispatchQueue`) |
| `RT_service` | 2 components, 2 clients, 2 managers | `ServingIsOpen`, `OneOpenManager`, `ShutdownIsSafe`, `DegradedHasReason`, `LegalMoves`, `ShutdownCompletes` |
| `EB_bus` | 1 publisher of 2 events, 2 subscriptions of capacity 1, both policies | `ExactlyOnePlace`, `InOrder`, `DeliveriesEnd` |
| `ST_stream` | 4 chunks, buffers of 2 | `NothingSkipped`, `SuccessIsComplete`, `SlotComesBack`, `FoundStreamEnds` |
| `MW_requests` | 3 requests of 3 users, two of them with the same key for different users, providers and payloads, one budget of 2, attempts of cost 2 against an estimate of 1, 2 attempts each, a bucket of two tokens refilled at half a token per tick, 5 chains | `RateWithinBurst`, `ServedToEntitled`, `SpentIsTotal`, `OverspendBounded` |
| `LG_log` | an info, a warning, a fatal entry, a direct shutdown, a queue of 1, 2 sinks, fair goroutines | `EntriesAccounted`, `OnlyOpenSinks`, `FlushedBeforeExit`, `ShutdownEnds` |
| `PT_parts` | all patterns and topics of up to 3 segments; all policies over 3 base delays and 3 caps, attempts -1 to 7, multipliers capped at 10 in a range of 32; 2 loads over layers that agree and disagree; 3 contexts on 2 sessions, 2 expiries, 2 writes, one merge; 4 contexts of every derivation, merge and message | `AnswerIsRight`, `BackoffIsRight`, `LoadIsRight`, `SharedWhileFresh`, `MergeIsRight`, `LineageKept`, `WireKept` |

Why the bounds are enough. Three executions on two providers are the least for
which both limits bind and a loop can be tempted past one of them; a signal buffer
of one makes every second signal drop (the code's is 1000). With two served executions
for one slot each can wait for the other, and the unserved one takes a place in the queue
from them. Two attempts give one
backoff; two cancels and two waits of one execution give every pair of callers.
Weights 2, 2, 1 make credits run out in a different order for each class. Two
managers give one restart from each kind of failed bootstrap, with clients of the
old one left over. Queues of one overflow at the second event, and two handlers
beside the publisher race on the one that also takes dead letters. Three segments
let each wildcard be first, inner and last. Three requests are two that pass the
cost guard on the same sum and one that comes when it is overrun, or two that empty
the bucket and one that half a token refilled does not let in; two of the five chains are in an order that `Validate`
refuses, so it matters that it does. A queue of one makes an entry that matters evict
one of the others, with the worker or a second logger in between. The range of 32 is
passed by every product of the larger base delays. Three contexts are two that take
a session from the store within its expiry and one that comes later; four contexts
let a message or a merge come after two derivations, and two keys of which only one
fits, a merge of two layers that together do not.

Bounds in guards: `MaxCancels` (calls to Cancel of each execution), `MaxManagers`
(bootstraps that get as far as a manager), `MaxEvents` (per publisher), `Chunks`,
`MaxAttempts` and `MaxTime` (`Middleware`; the first is the retry policy's), `MaxLoads`,
`MaxNow` and `MaxWrites` (`Sessions`), `MaxContexts`, `MaxTime` and `MaxSpent`
(`Contexts`). `PriorityScheduler` and `Logging` have none.

### Fairness

- `ExecutionManager`: a Submit past its readiness test, the loop, each runner and
  each Wait under way are weakly fair: Go runs every runnable goroutine, and a
  provider call that does not return is cut by the attempt's context, which always
  has a deadline. Callers, cancels and the callers' contexts are not fair.
- `Runtime`: the call that holds the mutex goes on, the shutdown timer fires, and
  clients and managers go on. Nothing is asked of health reports.
- `EventBus`: goroutines that can run do, and handlers return. The second is an
  assumption on user code: a handler that blocks for ever blocks its subscription,
  and only it.
- `StreamExecution`: the runner goes on and the deadline fires. Nothing is asked of
  the provider or the consumer; `ReaderSpec` adds a consumer that reads on.
- `Logging`: the worker and the loggers go on, and a sink's Write returns. Nobody has to
  register sinks, change levels or shut down.

## 4. What the code does otherwise

Two runs refute what a comment or a test says; `PROJECT.json` (`findings`) quotes
them.

- `EM_cancel_then_run`: an execution cancelled while the loop holds it, before
  Submit has queued it, or during a backoff is run all the same: the runner
  sets RUNNING without looking (`manager.go:728`, `:414`).
- `EB_unsubscribe`: `Unsubscribe` closes a queue that a `Publish` has in its
  snapshot (`bus.go:294`, `:258`): the send panics.

Met while modelling, part of the models and not given a run of their own:

- `Wait` reads the state and registers its channel in two critical sections
  (`manager.go:288`, `:297`); an outcome in between is never seen;
- an execution whose priority class is not one of the five is accepted by `Submit`, which
  only fills in an empty one (`manager.go:115`), and never returned by `Dequeue`
  (`scheduler.go:64`): it stays queued and its waits do not return until somebody cancels
  it;
- `Stream` registers its channel after `Submit` has signalled (`manager.go:205`); a
  fast runner finds none and the caller's channel stays open;
- a cancelled running execution ends TIMED_OUT, because the attempt turns any end
  of the total context into the category timeout (`manager.go:503`);
- the queue bound is tested under one lock and the queue grows under another, so
  concurrent submissions exceed it (`manager.go:127`, `:141`);
- Submit may promote DEGRADED to RUNNING: it reads READY and writes RUNNING in two
  steps (`manager.go:158`), and a report in between is hidden;
- a failure reported during BOOTING is only recorded, READY does not look at it
  (`lifecycle/manager.go:193`);
- the drain loop counts slots taken and misses the execution the scheduler holds
  (`runtime.go:197`);
- Restart after an Initialize that could not load its configuration uses a nil bus
  (`runtime.go:256`); after a Restart that could not, the next closes the old
  manager's channel again (`runtime.go:266`);
- a provider that panics does so in a goroutine without recover (`manager.go:443`) and
  ends the process;
- a runner works in `context.Background()` (`manager.go:733`): the middlewares do not
  see the user, the budget or the session of the caller's context; `Middleware` gives
  the chain a context with a budget, as the tests of the middlewares do;
- the cost guard reserves nothing (`context.go:75`): concurrent requests and the
  retries of one pass the limit, by no more than `OverspendBounded` allows;
- all hits of the cache share the first result, in which `handleResult` counts the
  attempts of the last (`cache.go:37`, `manager.go:602`);
- the key of the cache joins user, provider and payload with colons and escapes none
  (`cache.go:30`): user `a:b` asking provider `c` for `x` gets what was cached for user `a`
  asking provider `b` for `c:x`;
- a message read after its deadline yields a context without one
  (`serialization.go:101`); the marks of sensitive keys are not sent;
- Merge adds metadata without the limit of WithMetadata, so that a merged context may
  not arrive whole; a merge that fails has already written to the base session; a key
  deleted during the merge is set to nil (`context.go:611`, `:748`);
- a context that outlives its session's expiry keeps a state that later contexts on
  the same session do not see (`session.go:69`);
- the exponential delay may wrap around to a negative one, which the cap lets pass
  (`retry.go:54`);
- LoadConfig writes secrets into the caller's overrides (`config/manager.go:176`), so a
  Restart keeps the old secret of a provider given in code; overrides replace the two
  debugging flags and `Redaction.Enabled` even when they do not mention them
  (`config/manager.go:269`, `:326`; the last is not in the model);
- a second ShutdownLogging, or one beside a fatal entry, panics, as does a log call after
  it (`logger.go:166`, `:232`); an entry whose second try finds the queue full is not
  counted (`logger.go:246`); entries between ClearLogSinks and the next registration
  reach no sink (`runtime.go:326`);
- Shutdown ends the loop with executions queued, whose waits then depend on their
  callers' contexts (`manager.go:320`).

The properties that hold are stated around these: `TimelyWaitReturns` speaks of
waits registered in time, `CancelFromQueueIsFinal` of cancels that find the
execution queued, `FoundStreamEnds` of streams the runner has found,
`SubmissionsSettle` excludes a shutdown, it and `TimelyWaitReturns` speak of executions of a
served class and `NoLostDispatch` of those `Dequeue` would return, `ServedToEntitled`
separates users whose ID, like the provider's reference, contains no colon, `EntriesAccounted` compares the counter only while the queue is open, `SharedWhileFresh` speaks of contexts no further apart than the
shortest expiry, and `WireKept` of deadlines that have not passed.

## 5. What is proved

Every invariant the runs check, and every action property and the refinement, is a
theorem for every value of the constants that satisfies the ASSUMEs of the module. These
say no more than the code gives: limits are naturals, the sets of executions, requests,
ranked classes and metadata keys are finite, every execution has a provider, a time of
`Never` is later than any deadline there can be. One is for the sake of the statement:
`OverspendBounded` speaks of the largest cost an attempt can have, so there must be one
(`CostAssumption`); the code bounds no cost. The bounds of section 3, `MaxEvents`,
`MaxContexts` and the others, are any naturals.

Some theorems state what no run lists as a property: `UnservedNeverRun`, `StateTellsThePlace`, `OutcomesLast`,
`RepliesAgree`, `ManagerUsesThePool`, `AncestorsAreKept`, `SessionsNeverMix`,
`ClassesAreServedInOrder`, `ChannelsAreBounded` and `NoSendAfterClose`. Their formulas
are defined beside the proofs, because they hold for reasons the proofs already have.

**Induction without induction theorems.** The library's induction rules take an operator
as a parameter, which the provers cannot instantiate. The proofs use least
counterexamples instead: `LeastNatural` (a non-empty set of naturals has a least element)
and `LeastSubset` (of a finite set's bad subsets one has none below it). With these,
`ExecutionManager_proofs` shows that the recursive function `PowerOfTwo` satisfies its
equation (`PowersOfTwo`: pieces of it exist, agree and can be put together), and `Sums`
that the community modules' fold has a solution (`SolutionExists`), that it does not
depend on the order in which the elements are taken out (`AnyFirst`), and hence all that is
ever used of a sum: `SumFacts`, `SumChange`, `SumPart`, `SumOnPart`. `Functions`' sum is
used in the models for that reason.

**ExecutionManager.** `Control` = `TypeOK` /\ `OnePlace` /\ `AttemptsLeft` is
inductive: `OnePlace` needs the typing of the four program counters, and typing of
`attempts` needs that a runner about to attempt has one left. From it:

- `TypeCorrect`, `DispatchedOnce`;
- `LimitsRespected` and `SendNeverBlocks`, from `Limits` = `WithinLimits` /\
  `Room`. `Room` says that what the loop has tested still holds when it takes the
  slot. It is inductive because no other goroutine takes slots: lemma `StepKinds`
  reduces all other steps to "slots untouched";
- `SlotsAccounted`: every step moves a counter and the set of holders it counts by
  the same amount; the cardinality facts are `CountAdd` and `CountRemove`, and
  adding needs `OnePlace` (the holder is new);
- `DispatchNotLost`: most steps are `Inert`, the others are Submit's enqueue and
  signal, the loop's rests and the runner's releases;
- `WaitsAnswered`, from `AnsweredWithResult` and `ResultSet` (a runner past its
  outcome has written a result);
- `CancelIsFinalInQueue`, an action property: a cancel of a queued execution
  establishes `CancelledInQueue` and every step keeps it;
- `StateTellsThePlace`: `exec.State` is written by Submit, Cancel and the runner, none
  of which looks at what another has done, but for a CANCELLED it agrees with where
  Submit and the runner are (`StateAgrees`); a provider is only called for a RUNNING
  execution;
- `OutcomesLast`, an action property, from it: what a runner has settled nobody changes.
  The only outcome ever overwritten is a CANCELLED, and `OutcomeKept` names the moments:
  Submit has registered but not marked the execution, its runner starts, or its runner
  was waiting to retry. These are the moments `EM_cancel_then_run` finds one of;
- `RepliesAgree`: two Waits on one execution, whenever they are made, are never told
  different lasting outcomes, because a lasting one that was told (`Told`) is the state
  of its execution for good;
- `ManagerUsesThePool`: with history variables for what the last dequeue accepted and
  returned, every step of the manager is a step of `DispatchQueue` or a stutter. In
  particular Submit never enqueues what is queued, which `Enqueue` of
  `PriorityScheduler` assumes. Both modules instantiate `DispatchQueue` with the
  executions of the served classes, so with `SchedulerImplementsPool` this joins them
  whatever callers submit: one shows what the other relies on;
- `UnservedNeverRun`: no step puts an execution of another class into the loop's hand, and
  a runner settles only its own, so a cancellation is the only outcome it can have.

**Backoff.** `DelaysAreRight`: the loop invariant `BackoffLoop` says that the multiplier
is the power of two for the rounds made, or the cap, when the power for all of them is
beyond it; that powers grow (`PowersGrow`) makes stopping at the cap right. For every
policy, attempt, cap and width of the integers.

**Runtime.** `IInv` = `TypeOK` /\ `Phases` /\ `ServingIsOpen` /\ `OneOpenManager`
/\ `ShutdownIsSafe` is inductive. `Phases` ties the step of the call that holds the
mutex to the lifecycle state and to whether the current manager is closed; without
it a bootstrap could reach READY with a closed manager. From it `ServiceHasManager`,
`NoTwoManagers`, `ShutdownClosesOnce`; with `StateMoves` (what one step does to the
lifecycle) `DegradationExplained` and the action property `MovesAreLegal`.

**Configuration.** `ConfigurationsAreRight`, from `StageInv`, which says for each stage of
LoadConfig which layers the fields already come from. Results share the key of the
caller's overrides, so the key is excepted (`OwnKey`) when those are given; the property
says the same.

**EventBus.** `BusInv` is inductive; it gives `EventsInOrder` and
`DeliveriesAccountedFor`. `OwnEvents`: an ordinary event is only on the agenda of the
goroutine that published it, and is the last it published; this is what makes a new event
later than all that is queued (`OrderInv`). `DeliveryInv` says of every event and
subscription in which one place it is, counting the places in the queues and agendas (`Zero`, `One`); it needs
`EventInv`, that an event is matched once, and for dead letters that a letter is made
only when its delivery dies. `MatchTopicIsRight`: for patterns and topics of any length
the loop answers what the pattern means; the loop invariant is that the segments before
`i` fit and none was a double star.

**StreamExecution.** `StreamInv`: there is a sequence `p`, what the runner has passed on,
such that `p`, the chunk in its hand and the provider's channel line up to all chunks
produced, and what the consumer has or will get is `p`, or `p` and the error. From it
`StreamsSkipNothing`; with `Phases`, that a success is decided only on a closed and empty
channel, `SuccessfulStreamsAreComplete`. `ChannelsAreBounded` and `NoSendAfterClose`: every
send has found room or a reader, but the open error, which is all that is ever sent, and the close is the runner's last
step. The capacity matters where `runStreamExecution` sends without a select.

**PriorityScheduler.** `SchedulerImplementsPool`: with the pool mapped to the set of
all queued elements every step of the scheduler is a step of `DispatchQueue` or a
stutter. The invariant `QueuesInv` says that an element is in the queue of its own class
and in it once, which with the credits' range is also `SchedulerTyped`; `LeastNatural`
makes the CHOOSE of the first match and of the highest class well defined.
`NoClassStarves`, from `BypassInv`: before the refill every time a class is passed over
has cost another class a credit (`BeforeRefill`), and afterwards, while the class has
credits, a better one (`AfterRefill`). The bound alone is not inductive because it does
not speak of the credits left. `ClassesAreServedInOrder`, an action property: whatever the
credits choose between classes, within one nobody is served before an earlier element the
caller accepts, and those that stay keep their order (`Without` removes one element and
moves nothing else).

**Middleware.** `BurstsAreBounded` rests on `RateInv`: for each user every past
admission is `Balanced`, that is, what was admitted since it and what is left in the
bucket is within the capacity and what has been refilled; the property alone is not
inductive because it does not speak of the bucket. `NoCostIsLost` needs only that a
swap compares what it replaces. `OnlyEntitledServed` rests on `FlowInv`: a request that
has passed the authentication or authorization of its chain is authentic or allowed
(`Good`), in a valid chain the second follows the first, and the cache holds for each
key a request whose own user gives it that key (`CacheGood`, `OwnKey`). What equal keys
mean is `PlainKeysDiffer`: when the first two of the joined texts are one piece each, the
key determines all three. `BudgetOverrunBounded`, from
`CostInv`: what is spent and the largest charge times the attempts that the requests past
the guard have left stay below the ceiling (`Covered`); a charge takes from the one what
it adds to the other, an admission raises the ceiling.

**Logging.** `SinksAreOpen`, because the worker holds the read lock whenever it has
sinks to do; `ShutdownFlushes`, from `FlushInv`, which ties the closed queue to the
worker's last drain; `EveryEntryAccounted`, from `AccountInv`, in which an entry not
yet sent is nowhere.

**Sessions.** `FreshSessionsAreShared`, from `StoreInv`: the state a context holds is
either the store's current one, with an access at least as late, or older than the
shortest expiry. `MergesAreRight`, from `MergeInv`: while nobody else writes to the two
states, the keys the merge has still to look at are in the base as they were and the
others as the rule says (`Result`), a merge of a state with itself included.
`SessionsTyped` is the type invariant. `SessionsNeverMix`: contexts of different sessions
never hold the same state, because the store never keeps one state under two keys
(`StatesApart`), whatever expires and is made again.

**Contexts.** `LineageIsKept`: `ContextsInv` says of every context and the one it comes
from what `LineageKept` asks (`Kin`); contexts never change, so a step only has to
show it for the new one. `AncestorsAreKept` carries what one derivation keeps along
chains of any length, by a least counterexample: deadline, trace, metadata and marks
are inherited from every ancestor. `WireIsFaithful`, from `WireInv`: a message on its way has its
sender's deadline, and every received context stands to its sender as `WireKept` asks
(`Carried`), which time only weakens. That metadata within the limit arrives whole whatever
the order in which it is added (`AllReadable`) is a fact about sums: a part of what fits
fits (`FitsPart`).

Only model-checked: the liveness properties (`SubmissionsSettle`, `SlotsComeBack`,
`TimelyWaitReturns`, `ShutdownCompletes`, `DeliveriesEnd`, `SlotComesBack`,
`FoundStreamEnds`, `ShutdownEnds`), because no backend proves fairness or ENABLED. The two
runs that refute a comment or a test are counterexamples and need no proof.

## 6. What is left

1. `Runtime` with `r.execution` read as often as the code does, and the namespaces of
   the bus.
2. A run with the manager and the credits of the scheduler in one module. The two are
   joined by the theorems `ManagerUsesThePool` and `SchedulerImplementsPool`; what the
   manager's liveness gains from `BoundedBypass` would need the composition.

Not modelled: the Python client, a client of a server that is not in the repository;
generated stubs and protocol definitions; formatting, enrichment and redaction of log
entries; metrics and spans, which are recorded and read by nothing in the runtime;
filtered claims and the compatibility keys of contexts; topic validation and
namespaces of the bus; `SubmitBatch`, which calls Submit in a loop.
