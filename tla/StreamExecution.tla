--------------------------- MODULE StreamExecution ---------------------------
(***************************************************************************)
(* One streamed execution of core/execution/manager.go: the caller of       *)
(* Stream, which submits first and registers its channel afterwards; the    *)
(* runner, which looks the channel up, then forwards the provider's chunks  *)
(* until the provider is done or the total context is; the provider and the *)
(* consumer at the two ends.  Queueing and slots of other executions are in *)
(* ExecutionManager; here the runner may start as soon as Submit has queued *)
(* it, and a cancel comes while it runs (one from the queue is              *)
(* ExecutionManager's CancelIdle).                                          *)
(***************************************************************************)
EXTENDS Integers, Sequences

CONSTANTS
  Chunks,     \* bound: how many chunks the provider has
  InBuffer,   \* the capacity of the provider's channel
  OutBuffer   \* cap(outCh)

ASSUME StreamAssumption ==
  Chunks \in Nat /\ InBuffer \in Nat \ {0} /\ OutBuffer \in Nat \ {0}

VARIABLES
  caller,    \* Stream: "new", "submitted", then "registered" with a channel in hand
  state,     \* exec.State
  slot,      \* the execution holds its slots
  ctx,       \* totalCtx
  runner,    \* where runExecution is
  held,      \* the chunk the runner has received and not yet forwarded
  inCh, inClosed,    \* the provider's channel
  produced,          \* chunks the provider has sent
  outCh, outClosed,  \* the channel registered in streamChans
  received   \* history: what the consumer has read

providerVars == <<inCh, inClosed, produced>>
outVars == <<outCh, outClosed>>
vars == <<caller, state, slot, ctx, runner, held, inCh, inClosed, produced, outCh, outClosed,
          received>>

Init ==
  /\ caller = "new" /\ state = "PENDING" /\ slot = FALSE /\ ctx = "live"
  /\ runner = "none" /\ held = 0
  /\ inCh = <<>> /\ inClosed = FALSE /\ produced = 0
  /\ outCh = <<>> /\ outClosed = FALSE
  /\ received = <<>>

Error == 0   \* a StreamChunk that carries an error; the chunks are 1, 2, ...

-----------------------------------------------------------------------------
StreamSubmit ==   \* Submit, up to the signal to the scheduler
  /\ caller = "new"
  /\ caller' = "submitted" /\ state' = "QUEUED"
  /\ UNCHANGED <<slot, ctx, runner, held, providerVars, outVars, received>>

StreamRegister ==   \* streamChans[exec.ID] = outCh
  /\ caller = "submitted"
  /\ caller' = "registered"
  /\ UNCHANGED <<state, slot, ctx, runner, held, providerVars, outVars, received>>

-----------------------------------------------------------------------------
Start ==   \* the scheduler takes slots and spawns the runner
  /\ runner = "none" /\ state = "QUEUED"
  /\ runner' = "lookup" /\ state' = "RUNNING" /\ slot' = TRUE
  /\ UNCHANGED <<caller, ctx, held, providerVars, outVars, received>>

Lookup ==   \* is there a channel in streamChans?
  /\ runner = "lookup"
  /\ runner' = IF caller = "registered" THEN "open" ELSE "plain"
  /\ UNCHANGED <<caller, state, slot, ctx, held, providerVars, outVars, received>>

PlainEnd ==   \* run as an ordinary execution
  /\ runner = "plain"
  /\ runner' = "done" /\ slot' = FALSE
  /\ state' \in {"SUCCEEDED", "FAILED", "TIMED_OUT", "CANCELLED"}
  /\ UNCHANGED <<caller, ctx, held, providerVars, outVars, received>>

(* The state is settled, then slots and waiters are released; the deferred  *)
(* function closes the channel.                                             *)
Finish(final) ==
  /\ state' = final /\ slot' = FALSE
  /\ runner' = "closing"

OpenFails ==   \* p.Stream returns an error
  /\ runner = "open"
  /\ outCh' = Append(outCh, Error)
  /\ Finish("FAILED")
  /\ UNCHANGED <<caller, ctx, held, providerVars, outClosed, received>>

Open ==
  /\ runner = "open"
  /\ runner' = "select"
  /\ UNCHANGED <<caller, state, slot, ctx, held, providerVars, outVars, received>>

(* select: whichever is ready. *)
SelectChunk ==
  /\ runner = "select" /\ inCh # <<>>
  /\ held' = Head(inCh) /\ inCh' = Tail(inCh)
  /\ runner' = "forward"
  /\ UNCHANGED <<caller, state, slot, ctx, inClosed, produced, outVars, received>>

(* Mutant: a closed channel is not told from an empty one. *)
SelectEndEarly ==
  /\ runner = "select" /\ inClosed
  /\ Finish("SUCCEEDED")
  /\ UNCHANGED <<caller, ctx, held, providerVars, outVars, received>>

SelectEnd ==   \* the provider has closed its channel
  /\ runner = "select" /\ inCh = <<>> /\ inClosed
  /\ Finish("SUCCEEDED")
  /\ UNCHANGED <<caller, ctx, held, providerVars, outVars, received>>

(* Mutant: the loop has no case for the context. *)
IgnoreDone == FALSE

SelectDone ==   \* the total timeout, or Cancel
  /\ runner = "select" /\ ctx # "live"
  /\ runner' = "forwardError"
  /\ UNCHANGED <<caller, state, slot, ctx, held, providerVars, outVars, received>>

(* Mutant: a chunk that finds the buffer full is dropped. *)
ForwardOrDrop ==
  /\ runner = "forward"
  /\ outCh' = IF Len(outCh) < OutBuffer THEN Append(outCh, held) ELSE outCh
  /\ held' = 0
  /\ runner' = "select"
  /\ UNCHANGED <<caller, state, slot, ctx, providerVars, outClosed, received>>

Forward ==   \* blocks while the buffer is full, whatever the context says
  /\ runner = "forward" /\ Len(outCh) < OutBuffer
  /\ outCh' = Append(outCh, held) /\ held' = 0
  /\ runner' = "select"
  /\ UNCHANGED <<caller, state, slot, ctx, providerVars, outClosed, received>>

ForwardError ==
  /\ runner = "forwardError" /\ Len(outCh) < OutBuffer
  /\ outCh' = Append(outCh, Error)
  /\ Finish("TIMED_OUT")
  /\ UNCHANGED <<caller, ctx, held, providerVars, outClosed, received>>

(* Mutant: the deferred function forgets the channel. *)
CloseForgotten ==
  /\ runner = "closing" /\ runner' = "done"
  /\ UNCHANGED <<caller, state, slot, ctx, held, providerVars, outVars, received>>

Close ==
  /\ runner = "closing"
  /\ runner' = "done" /\ outClosed' = TRUE
  /\ UNCHANGED <<caller, state, slot, ctx, held, providerVars, outCh, received>>

-----------------------------------------------------------------------------
(* The provider, the consumer and the context.                             *)

Produce ==
  /\ runner \in {"select", "forward", "forwardError", "closing", "done"} /\ ~inClosed
  /\ produced < Chunks /\ Len(inCh) < InBuffer
  /\ produced' = produced + 1
  /\ inCh' = Append(inCh, produced + 1)
  /\ UNCHANGED <<caller, state, slot, ctx, runner, held, inClosed, outVars, received>>

ProviderEnds ==
  /\ runner \in {"select", "forward", "forwardError", "closing", "done"} /\ ~inClosed
  /\ inClosed' = TRUE
  /\ UNCHANGED <<caller, state, slot, ctx, runner, held, inCh, produced, outVars, received>>

Receive ==
  /\ caller = "registered" /\ outCh # <<>>
  /\ received' = Append(received, Head(outCh)) /\ outCh' = Tail(outCh)
  /\ UNCHANGED <<caller, state, slot, ctx, runner, held, providerVars, outClosed>>

ContextEnds(why) ==
  /\ ctx = "live" /\ slot
  /\ ctx' = why
  /\ UNCHANGED <<caller, state, slot, runner, held, providerVars, outVars, received>>

Deadline == ContextEnds("expired")
Cancel == ContextEnds("cancelled")

-----------------------------------------------------------------------------
Runner ==
  \/ Start \/ Lookup \/ PlainEnd \/ OpenFails \/ Open
  \/ SelectChunk \/ SelectEnd \/ SelectDone \/ Forward \/ ForwardError \/ Close

Next ==
  \/ StreamSubmit \/ StreamRegister \/ Runner
  \/ Produce \/ ProviderEnds \/ Receive \/ Deadline \/ Cancel

Spec == Init /\ [][Next]_vars

(* The runner goes on, a Stream call under way goes on, and the timer of    *)
(* the total context fires.  Nothing is asked of the provider.  A reading   *)
(* consumer is assumed only in ReaderSpec.                                  *)
Fairness == WF_vars(Runner) /\ WF_vars(StreamRegister) /\ WF_vars(Deadline)

FairSpec == Spec /\ Fairness
ReaderSpec == FairSpec /\ WF_vars(Receive)   \* the consumer reads what there is

-----------------------------------------------------------------------------
Delivered == received \o outCh
Data(s) == IF s # <<>> /\ s[Len(s)] = Error THEN SubSeq(s, 1, Len(s) - 1) ELSE s
Holding == IF held = 0 THEN <<>> ELSE <<held>>
Numbers(n) == [j \in 1..n |-> j]

(* The consumer gets the provider's chunks in order, none twice, none       *)
(* skipped -- what it has, what is buffered on either side and what the     *)
(* runner holds line up -- and the error chunk the runner makes is the last *)
(* thing on the channel (manager.go 860-914).                               *)
NothingSkipped ==
  /\ Data(Delivered) \o Holding \o inCh = Numbers(produced)
  /\ \A j \in DOMAIN Delivered : Delivered[j] = Error => j = Len(Delivered)

(* A stream that is reported as SUCCEEDED has passed on everything the      *)
(* provider sent, and no error.                                             *)
SuccessIsComplete ==
  state = "SUCCEEDED" /\ runner \in {"closing", "done"} /\ outClosed
    => Delivered = Numbers(produced)

(* A slot in use comes back, whatever the provider does, unless the         *)
(* consumer leaves the buffer full for ever.                                *)
SlotComesBack == slot ~> (~slot \/ [](Len(outCh) = OutBuffer))

(* A stream whose channel the runner found is closed, with the same         *)
(* exception: also when the provider cannot open it or never ends it.       *)
FoundStreamEnds == (runner = "open") ~> (outClosed \/ [](Len(outCh) = OutBuffer))

=============================================================================
