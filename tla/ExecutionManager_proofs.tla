----------------------- MODULE ExecutionManager_proofs -----------------------
(***************************************************************************)
(* Proofs, for every number of executions, providers and waiters and every  *)
(* limit, of the invariants of ExecutionManager; and, at the end, of what   *)
(* CalculateBackoff answers for every policy and attempt number.            *)
(***************************************************************************)
EXTENDS ExecutionManager, Backoff, Sums, TLAPS

(* Attempts are counted when they end, so a runner that is going to make    *)
(* one has made fewer than MaxAttempts.                                     *)
AttemptsLeft ==
  \A e \in Execs :
    /\ runner[e] \in {"none", "spawned", "started", "armed"} => attempts[e] = 0
    /\ runner[e] \in {"attempt", "retry", "backoff"} => attempts[e] < MaxAttempts

(* The part of the inductive invariant that is not about counting. *)
Control == TypeOK /\ OnePlace /\ AttemptsLeft

USE DEF SubmitPoints, LoopPoints, RunnerPoints, WaitPoints, Terminal, States, ErrorKinds, Outcomes

(* NewExecutionManager establishes Control. *)
LEMMA ControlInit == Init => Control
<1> SUFFICES ASSUME Init PROVE Control
  OBVIOUS
<1> USE ExecsAssumption, ProviderAssumption, LimitAssumption, WaiterAssumption DEF Init
<1>1. TypeOK
  <2>1. /\ queued \subseteq Execs /\ panicked \subseteq Execs
        /\ shutdown \in BOOLEAN /\ alive \in BOOLEAN
        /\ submit \in [Execs -> SubmitPoints] /\ state \in [Execs -> States]
        /\ loop \in LoopPoints /\ picked \in Execs \cup {None}
    OBVIOUS
  <2>2. /\ cancels \in [Execs -> Nat] /\ \A e \in Execs : cancels[e] <= MaxCancels[e]
        /\ attempts \in [Execs -> 0..MaxAttempts]
        /\ sem \in Nat /\ signals \in 0..SignalCap /\ active \in [Providers -> Int]
    OBVIOUS
  <2>3. /\ result \in [Execs -> Terminal \cup {"none"}]
        /\ runner \in [Execs -> RunnerPoints]
        /\ ctx \in [Execs -> {"none", "live", "cancelled", "expired"}]
        /\ outcome \in [Execs -> Outcomes]
    OBVIOUS
  <2>4. /\ waiting \in [Waiters -> WaitPoints]
        /\ reply \in [Waiters -> Terminal \cup {"none", "ctxErr"}]
    OBVIOUS
  <2> QED BY <2>1, <2>2, <2>3, <2>4 DEF TypeOK
<1>2. OnePlace /\ AttemptsLeft
  BY DEF OnePlace, AttemptsLeft
<1> QED BY <1>1, <1>2 DEF Control

(* Each step of Submit preserves Control. *)
LEMMA ControlSubmit ==
  ASSUME Control, NEW e \in Execs, SubmitCall(e), UNCHANGED alive
  PROVE  Control'
<1> USE LimitAssumption DEF Control, TypeOK, OnePlace, AttemptsLeft, SubmitStep, SetState, Signal,
        callerVars, loopVars, slotVars, runVars, waitVars
<1>1. CASE SubmitCheck(e)
  BY <1>1 DEF SubmitCheck
<1>2. CASE SubmitRegister(e)
  BY <1>2 DEF SubmitRegister
<1>3. CASE SubmitMark(e)
  BY <1>3 DEF SubmitMark
<1>4. CASE SubmitEnqueue(e)
  BY <1>4, ExecsAssumption DEF SubmitEnqueue
<1>5. CASE SubmitSignal(e)
  BY <1>5 DEF SubmitSignal
<1> QED BY <1>1, <1>2, <1>3, <1>4, <1>5 DEF SubmitCall

(* Cancel, Wait, the deadline and Shutdown preserve Control. *)
LEMMA ControlCaller ==
  ASSUME Control, UNCHANGED alive,
         \/ \E e \in Execs : Cancel(e) \/ Deadline(e)
         \/ \E w \in Waiters : Wait(w) \/ WaitGiveUp(w)
         \/ Shutdown
  PROVE  Control'
<1> USE LimitAssumption, WaiterAssumption
    DEF Control, TypeOK, OnePlace, AttemptsLeft, Settle, Notify, Known,
        callerVars, loopVars, slotVars, runVars, waitVars
<1>1. ASSUME NEW e \in Execs, CancelIdle(e)
      PROVE  Control'
  BY <1>1 DEF CancelIdle, CancelCall
<1>2. ASSUME NEW e \in Execs, CancelRunning(e)
      PROVE  Control'
  BY <1>2 DEF CancelRunning, CancelCall
<1>3. ASSUME NEW e \in Execs, CancelTerminal(e)
      PROVE  Control'
  BY <1>3 DEF CancelTerminal, CancelCall
<1>4. ASSUME NEW e \in Execs, Deadline(e)
      PROVE  Control'
  BY <1>4 DEF Deadline
<1>5. ASSUME NEW w \in Waiters, WaitCheck(w)
      PROVE  Control'
  BY <1>5 DEF WaitCheck
<1>6. ASSUME NEW w \in Waiters, WaitRegister(w)
      PROVE  Control'
  BY <1>6 DEF WaitRegister
<1>7. ASSUME NEW w \in Waiters, WaitReturn(w)
      PROVE  Control'
  BY <1>7 DEF WaitReturn
<1>8. ASSUME NEW w \in Waiters, WaitGiveUp(w)
      PROVE  Control'
  BY <1>8 DEF WaitGiveUp
<1>9. ASSUME Shutdown
      PROVE  Control'
  BY <1>9 DEF Shutdown
<1> QED BY <1>1, <1>2, <1>3, <1>4, <1>5, <1>6, <1>7, <1>8, <1>9 DEF Cancel, Wait

(* Each step of the scheduler loop preserves Control. *)
LEMMA ControlLoop ==
  ASSUME Control, SchedulerLoop, UNCHANGED alive
  PROVE  Control'
<1> USE LimitAssumption, ExecsAssumption, ProviderAssumption
    DEF Control, TypeOK, OnePlace, AttemptsLeft,
        callerVars, loopVars, slotVars, runVars, waitVars
<1>1. CASE LoopSignal
  BY <1>1 DEF LoopSignal
<1>2. CASE LoopStop
  BY <1>2 DEF LoopStop
<1>3. CASE ScheduleCheck
  BY <1>3 DEF ScheduleCheck
<1>4. CASE ScheduleDequeue
  BY <1>4 DEF ScheduleDequeue
<1>5. CASE ScheduleAcquire
  BY <1>5 DEF ScheduleAcquire
<1>6. CASE ScheduleSpawn
  BY <1>6 DEF ScheduleSpawn
<1> QED BY <1>1, <1>2, <1>3, <1>4, <1>5, <1>6 DEF SchedulerLoop

(* Each step of a runner preserves Control. *)
LEMMA ControlRunner ==
  ASSUME Control, NEW e \in Execs, RunnerStep(e)
  PROVE  Control'
<1> USE LimitAssumption, ProviderAssumption, ReplyAssumption
    DEF Control, TypeOK, OnePlace, AttemptsLeft, Goto, SetState, Settle, Signal, Notify, Panic,
        callerVars, loopVars, slotVars, runVars, waitVars
<1>1. CASE RunnerStart(e) /\ UNCHANGED alive
  BY <1>1 DEF RunnerStart
<1>2. CASE RunnerArm(e) /\ UNCHANGED alive
  BY <1>2 DEF RunnerArm
<1>3. CASE RunnerResolve(e) /\ UNCHANGED alive
  <2>1. CASE Goto(e, "armed", "releasing") /\ Settle(e, "FAILED") /\ UNCHANGED outcome
    BY <1>3, <2>1 DEF RunnerResolve
  <2>2. CASE /\ MaxAttempts > 0 /\ Goto(e, "armed", "attempt")
             /\ UNCHANGED <<state, result, outcome>>
    BY <1>3, <2>2 DEF RunnerResolve
  <2>3. ASSUME NEW o \in Replies \cup {"nil"}, Goto(e, "armed", "finish"),
               outcome' = [outcome EXCEPT ![e] = o], UNCHANGED <<state, result>>
        PROVE  Control'
    BY <1>3, <2>3 DEF RunnerResolve
  <2>4. \/ Goto(e, "armed", "releasing") /\ Settle(e, "FAILED") /\ UNCHANGED outcome
        \/ MaxAttempts > 0 /\ Goto(e, "armed", "attempt") /\ UNCHANGED <<state, result, outcome>>
        \/ /\ Goto(e, "armed", "finish") /\ UNCHANGED <<state, result>>
           /\ \E o \in Replies \cup {"nil"} : outcome' = [outcome EXCEPT ![e] = o]
    BY <1>3 DEF RunnerResolve
  <2> QED BY <2>1, <2>2, <2>3, <2>4
<1>4. CASE Attempt(e) /\ UNCHANGED alive
  <2>1. CASE AttemptReplies(e)
    BY <1>4, <2>1 DEF AttemptReplies, AttemptEnd
  <2>2. CASE AttemptFails(e)
    BY <1>4, <2>2 DEF AttemptFails, AttemptEnd
  <2>3. CASE AttemptTimesOut(e)
    BY <1>4, <2>3 DEF AttemptTimesOut, AttemptEnd
  <2> QED BY <1>4, <2>1, <2>2, <2>3 DEF Attempt
<1>5. CASE BackoffStart(e) /\ UNCHANGED alive
  BY <1>5 DEF BackoffStart
<1>6. CASE BackoffElapse(e) /\ UNCHANGED alive
  BY <1>6 DEF BackoffElapse
<1>7. CASE BackoffInterrupt(e) /\ UNCHANGED alive
  BY <1>7 DEF BackoffInterrupt
<1>8. CASE HandleResult(e) /\ UNCHANGED alive
  BY <1>8 DEF HandleResult, FinalState
<1>9. CASE PublishOutcome(e) /\ UNCHANGED alive
  BY <1>9 DEF PublishOutcome
<1>10. CASE ReleaseSem(e) /\ UNCHANGED alive
  BY <1>10 DEF ReleaseSem
<1>11. CASE ReleaseProvider(e) /\ UNCHANGED alive
  BY <1>11 DEF ReleaseProvider
<1>12. CASE ReleaseSignal(e) /\ UNCHANGED alive
  BY <1>12 DEF ReleaseSignal
<1>13. CASE NotifyDone(e)
  BY <1>13 DEF NotifyDone
<1> QED BY <1>1, <1>2, <1>3, <1>4, <1>5, <1>6, <1>7, <1>8, <1>9, <1>10, <1>11, <1>12, <1>13
        DEF RunnerStep, Quietly

(* Control is inductive. *)
LEMMA ControlNext == Control /\ [Next]_vars => Control'
<1> SUFFICES ASSUME Control, [Next]_vars PROVE Control'
  OBVIOUS
<1>1. CASE Next
  BY <1>1, ControlSubmit, ControlCaller, ControlLoop, ControlRunner DEF Next, Quietly
<1>2. CASE UNCHANGED vars
  BY <1>2 DEF vars, Control, TypeOK, OnePlace, AttemptsLeft
<1> QED BY <1>1, <1>2

(* The control invariant holds in every reachable state. *)
THEOREM ControlInvariant == Spec => []Control
  BY ControlInit, ControlNext, PTL DEF Spec

(* Every variable keeps its type; the signal channel never overflows. *)
THEOREM TypeCorrect == Spec => []TypeOK
  BY ControlInvariant, PTL DEF Control

(* No execution is queued and running, in two hands, or dispatched twice. *)
THEOREM DispatchedOnce == Spec => []OnePlace
  BY ControlInvariant, PTL DEF Control

-----------------------------------------------------------------------------
(* Slots.  Only the scheduler loop and two steps of a runner's release      *)
(* touch the counters; every other step keeps the holders as they are.      *)
KeepsSlots ==
  /\ UNCHANGED <<loop, picked, sem, active>>
  /\ \A e \in Execs : /\ (runner'[e] \in Running) <=> (runner[e] \in Running)
                      /\ (runner'[e] = "semFree") <=> (runner[e] = "semFree")

(* A step keeps the slots, or is the loop's, or one of the two releases. *)
LEMMA StepKinds ==
  ASSUME Control, [Next]_vars
  PROVE  \/ KeepsSlots
         \/ SchedulerLoop
         \/ \E e \in Execs : ReleaseSem(e) \/ ReleaseProvider(e)
<1> USE DEF Control, TypeOK, KeepsSlots, Running, callerVars, loopVars, slotVars, runVars, waitVars
<1>1. ASSUME NEW e \in Execs, SubmitCall(e) \/ Cancel(e) \/ Deadline(e)
      PROVE  KeepsSlots
  BY <1>1 DEF SubmitCall, SubmitCheck, SubmitRegister, SubmitMark, SubmitEnqueue, SubmitSignal,
              Cancel, CancelIdle, CancelRunning, CancelTerminal, Deadline
<1>2. ASSUME NEW w \in Waiters, Wait(w) \/ WaitGiveUp(w)
      PROVE  KeepsSlots
  BY <1>2 DEF Wait, WaitCheck, WaitRegister, WaitReturn, WaitGiveUp
<1>3. ASSUME NEW e \in Execs, RunnerStep(e)
      PROVE  KeepsSlots \/ ReleaseSem(e) \/ ReleaseProvider(e)
  <2> USE DEF Goto
  <2>1. CASE RunnerStart(e) \/ RunnerArm(e) \/ RunnerResolve(e)
    BY <2>1 DEF RunnerStart, RunnerArm, RunnerResolve
  <2>2. CASE Attempt(e)
    BY <2>2 DEF Attempt, AttemptReplies, AttemptFails, AttemptTimesOut, AttemptEnd
  <2>3. CASE BackoffStart(e) \/ BackoffElapse(e) \/ BackoffInterrupt(e)
    BY <2>3 DEF BackoffStart, BackoffElapse, BackoffInterrupt
  <2>4. CASE HandleResult(e) \/ PublishOutcome(e)
    BY <2>4 DEF HandleResult, PublishOutcome, Panic
  <2>5. CASE ReleaseSignal(e) \/ NotifyDone(e)
    BY <2>5 DEF ReleaseSignal, NotifyDone
  <2> QED BY <1>3, <2>1, <2>2, <2>3, <2>4, <2>5 DEF RunnerStep, Quietly
<1>4. Shutdown => KeepsSlots
  BY DEF Shutdown
<1>5. UNCHANGED vars => KeepsSlots
  BY DEF vars
<1> QED BY <1>1, <1>2, <1>3, <1>4, <1>5 DEF Next, Quietly

(* What the scheduler saw in its tests is still true when it takes a slot:  *)
(* nobody else takes one.                                                   *)
Room ==
  /\ loop \in {"dequeue", "acquire"} => sem < GlobalLimit
  /\ loop \in {"acquire", "account"} => HasRoom(picked)

Limits == WithinLimits /\ Room

(* Both counters start at zero, within any limit. *)
LEMMA LimitsInit == Init => Limits
  BY ProviderAssumption, LimitAssumption DEF Init, Limits, WithinLimits, Room

(* Limits is inductive, given Control. *)
LEMMA LimitsNext == Control /\ Limits /\ [Next]_vars => Limits'
<1> SUFFICES ASSUME Control, Limits, [Next]_vars PROVE Limits'
  OBVIOUS
<1> USE ExecsAssumption, ProviderAssumption, LimitAssumption
    DEF Control, TypeOK, OnePlace, Limits, WithinLimits, Room, HasRoom, loopVars, slotVars
<1>1. CASE KeepsSlots
  BY <1>1 DEF KeepsSlots
<1>2. CASE SchedulerLoop
  <2>1. CASE LoopSignal \/ LoopStop \/ ScheduleCheck
    BY <2>1 DEF LoopSignal, LoopStop, ScheduleCheck
  <2>2. CASE ScheduleDequeue
    BY <2>2 DEF ScheduleDequeue, Dispatchable
  <2>3. CASE ScheduleAcquire
    BY <2>3 DEF ScheduleAcquire
  <2>4. CASE ScheduleSpawn
    BY <2>4 DEF ScheduleSpawn
  <2> QED BY <1>2, <2>1, <2>2, <2>3, <2>4 DEF SchedulerLoop
<1>3. ASSUME NEW e \in Execs, ReleaseSem(e)
      PROVE  Limits'
  BY <1>3 DEF ReleaseSem
<1>4. ASSUME NEW e \in Execs, ReleaseProvider(e)
      PROVE  Limits'
  BY <1>4 DEF ReleaseProvider
<1> QED BY <1>1, <1>2, <1>3, <1>4, StepKinds

(* The counters stay within their limits, and a picked execution has room. *)
THEOREM LimitsInvariant == Spec => []Limits
  BY ControlInvariant, LimitsInit, LimitsNext, PTL DEF Spec

(* The global and every provider's concurrency limit hold at all times. *)
THEOREM LimitsRespected == Spec => []WithinLimits
  BY LimitsInvariant, PTL DEF Limits

(* The scheduler's send on em.sem never blocks. *)
THEOREM SendNeverBlocks == Spec => []AcquireNeverBlocks
<1>1. Limits => AcquireNeverBlocks
  BY DEF Limits, Room, AcquireNeverBlocks
<1> QED BY <1>1, LimitsInvariant, PTL

-----------------------------------------------------------------------------
(* The counters against the holders they count.                            *)

(* The sets that are counted are finite. *)
LEMMA HoldersFinite ==
  ASSUME Control
  PROVE  IsFiniteSet(SlotHolders) /\ \A p \in Providers : IsFiniteSet(ProviderHolders(p))
<1>1. SlotHolders \subseteq Execs
  BY DEF Control, OnePlace, TypeOK, SlotHolders, Picked
<1>2. \A p \in Providers : ProviderHolders(p) \subseteq Execs
  BY DEF ProviderHolders
<1> QED BY <1>1, <1>2, ExecsAssumption, FS_Subset

(* A new member adds one to the count. *)
LEMMA CountAdd ==
  ASSUME NEW S, IsFiniteSet(S), NEW x, x \notin S
  PROVE  Cardinality(S \cup {x}) = Cardinality(S) + 1
  BY FS_AddElement

(* A member that leaves takes one from the count. *)
LEMMA CountRemove ==
  ASSUME NEW S, IsFiniteSet(S), NEW x \in S
  PROVE  Cardinality(S \ {x}) = Cardinality(S) - 1
  BY FS_RemoveElement

(* At the start nobody holds a slot and both counters are zero. *)
LEMMA SlotsInit == Init => SlotAccounting
<1> SUFFICES ASSUME Init PROVE SlotAccounting
  OBVIOUS
<1>1. SlotHolders = {} /\ \A p \in Providers : ProviderHolders(p) = {}
  BY DEF Init, SlotHolders, ProviderHolders, Picked, Running
<1> QED BY <1>1, FS_EmptySet DEF Init, SlotAccounting

(* Every step moves a counter and its holders together. *)
LEMMA SlotsNext == Control /\ SlotAccounting /\ [Next]_vars => SlotAccounting'
<1> SUFFICES ASSUME Control, SlotAccounting, [Next]_vars PROVE SlotAccounting'
  OBVIOUS
<1> USE DEF SlotAccounting
<1>1. ASSUME UNCHANGED <<sem, active>>, SlotHolders' = SlotHolders,
             \A p \in Providers : ProviderHolders(p)' = ProviderHolders(p)
      PROVE  SlotAccounting'
  BY <1>1
<1>2. CASE KeepsSlots
  <2>1. SlotHolders' = SlotHolders
    BY <1>2 DEF KeepsSlots, SlotHolders, Picked
  <2>2. \A p \in Providers : ProviderHolders(p)' = ProviderHolders(p)
    BY <1>2 DEF KeepsSlots, ProviderHolders
  <2> QED BY <1>2, <2>1, <2>2, <1>1 DEF KeepsSlots
<1>3. CASE LoopSignal \/ LoopStop \/ ScheduleCheck \/ ScheduleDequeue
  <2>1. UNCHANGED <<sem, active, runner>> /\ loop # "account" /\ loop' # "account"
    BY <1>3 DEF LoopSignal, LoopStop, ScheduleCheck, ScheduleDequeue, slotVars, runVars
  <2>2. SlotHolders' = SlotHolders
    BY <2>1 DEF SlotHolders, Picked
  <2>3. \A p \in Providers : ProviderHolders(p)' = ProviderHolders(p)
    BY <2>1 DEF ProviderHolders
  <2> QED BY <2>1, <2>2, <2>3, <1>1
<1>4. CASE ScheduleAcquire
  <2> USE <1>4 DEF ScheduleAcquire, runVars
  <2>1. picked \notin SlotHolders
    BY DEF SlotHolders, Picked, Running, Control, OnePlace
  <2>2. SlotHolders' = SlotHolders \cup {picked}
    BY DEF SlotHolders, Picked
  <2>3. Cardinality(SlotHolders') = sem + 1
    BY <2>1, <2>2, HoldersFinite, CountAdd
  <2>4. \A p \in Providers : ProviderHolders(p)' = ProviderHolders(p)
    BY DEF ProviderHolders
  <2> QED BY <2>3, <2>4
<1>5. CASE ScheduleSpawn
  <2> USE <1>5 DEF ScheduleSpawn
  <2>0. picked \in Execs /\ runner[picked] = "none" /\ runner \in [Execs -> RunnerPoints]
    BY DEF Control, TypeOK, OnePlace
  <2>1. SlotHolders' = SlotHolders
    BY <2>0 DEF SlotHolders, Picked, Running
  <2>2. ASSUME NEW p \in Providers
        PROVE  active'[p] = Cardinality(ProviderHolders(p)')
    <3>1. CASE p = ProviderOf[picked]
      <4>1. picked \notin ProviderHolders(p)
        BY <2>0 DEF ProviderHolders, Running
      <4>2. ProviderHolders(p)' = ProviderHolders(p) \cup {picked}
        BY <2>0, <3>1 DEF ProviderHolders, Running
      <4>3. active'[p] = active[p] + 1
        BY <3>1 DEF Control, TypeOK
      <4> QED BY <4>1, <4>2, <4>3, HoldersFinite, CountAdd
    <3>2. CASE p # ProviderOf[picked]
      <4>1. ProviderHolders(p)' = ProviderHolders(p)
        BY <2>0, <3>2 DEF ProviderHolders
      <4>2. active'[p] = active[p]
        BY <3>2 DEF Control, TypeOK
      <4> QED BY <4>1, <4>2
    <3> QED BY <3>1, <3>2
  <2>3. UNCHANGED sem
    OBVIOUS
  <2> QED BY <2>1, <2>2, <2>3
<1>6. ASSUME NEW e \in Execs, ReleaseSem(e)
      PROVE  SlotAccounting'
  <2> USE <1>6 DEF ReleaseSem, Goto, loopVars
  <2>0. runner \in [Execs -> RunnerPoints] /\ (loop = "account" => picked # e)
    BY DEF Control, TypeOK, OnePlace
  <2>1. e \in SlotHolders
    BY DEF SlotHolders, Running
  <2>2. SlotHolders' = SlotHolders \ {e}
    BY <2>0 DEF SlotHolders, Picked, Running
  <2>3. Cardinality(SlotHolders') = sem - 1
    BY <2>1, <2>2, HoldersFinite, CountRemove
  <2>4. \A p \in Providers : ProviderHolders(p)' = ProviderHolders(p)
    BY <2>0 DEF ProviderHolders, Running
  <2> QED BY <2>3, <2>4
<1>7. ASSUME NEW e \in Execs, ReleaseProvider(e)
      PROVE  SlotAccounting'
  <2> USE <1>7 DEF ReleaseProvider, Goto, loopVars
  <2>0. runner \in [Execs -> RunnerPoints] /\ active \in [Providers -> Int]
    BY DEF Control, TypeOK
  <2>1. SlotHolders' = SlotHolders
    BY <2>0 DEF SlotHolders, Picked, Running
  <2>2. ASSUME NEW p \in Providers
        PROVE  active'[p] = Cardinality(ProviderHolders(p)')
    <3>1. CASE p = ProviderOf[e]
      <4>1. e \in ProviderHolders(p)
        BY <3>1 DEF ProviderHolders
      <4>2. ProviderHolders(p)' = ProviderHolders(p) \ {e}
        BY <2>0 DEF ProviderHolders, Running
      <4>3. active'[p] = active[p] - 1
        BY <2>0, <3>1
      <4> QED BY <4>1, <4>2, <4>3, HoldersFinite, CountRemove
    <3>2. CASE p # ProviderOf[e]
      <4>1. ProviderHolders(p)' = ProviderHolders(p)
        BY <2>0, <3>2 DEF ProviderHolders
      <4>2. active'[p] = active[p]
        BY <2>0, <3>2
      <4> QED BY <4>1, <4>2
    <3> QED BY <3>1, <3>2
  <2>3. UNCHANGED sem
    OBVIOUS
  <2> QED BY <2>1, <2>2, <2>3
<1> QED BY <1>2, <1>3, <1>4, <1>5, <1>6, <1>7, StepKinds DEF SchedulerLoop

(* No slot leaks and none is given back twice, on any path. *)
THEOREM SlotsAccounted == Spec => []SlotAccounting
  BY ControlInvariant, SlotsInit, SlotsNext, PTL DEF Spec

-----------------------------------------------------------------------------
(* NoLostDispatch is inductive given the types.  A step that neither moves  *)
(* the loop nor gives a slot back nor enqueues nor signals cannot disturb   *)
(* it; the others either leave a witness that has yet to signal, or signal. *)
Inert ==
  /\ queued' \subseteq queued
  /\ UNCHANGED <<loop, sem, active, signals>>
  /\ \A e \in Execs :
       /\ submit[e] = "enqueued" => submit'[e] = "enqueued"
       /\ runner[e] \in {"semFree", "provFree"} => runner'[e] \in {"semFree", "provFree"}

(* A step that cannot lose a wakeup preserves NoLostDispatch. *)
LEMMA DispatchInert ==
  ASSUME Control, NoLostDispatch, Inert
  PROVE  NoLostDispatch'
  BY DEF Inert, NoLostDispatch, Dispatchable, HasRoom, Control, TypeOK

(* Submit leaves a signal after it has queued. *)
LEMMA DispatchSubmit ==
  ASSUME Control, NoLostDispatch, NEW e \in Execs, SubmitCall(e)
  PROVE  NoLostDispatch'
<1> USE LimitAssumption
    DEF Control, TypeOK, SubmitStep, SetState, callerVars, loopVars, slotVars, runVars
<1>1. CASE SubmitCheck(e) \/ SubmitRegister(e) \/ SubmitMark(e)
  <2>1. Inert
    BY <1>1 DEF Inert, SubmitCheck, SubmitRegister, SubmitMark
  <2> QED BY <2>1, DispatchInert
<1>2. CASE SubmitEnqueue(e)
  BY <1>2 DEF SubmitEnqueue, NoLostDispatch
<1>3. CASE SubmitSignal(e)
  BY <1>3 DEF SubmitSignal, Signal, NoLostDispatch
<1> QED BY <1>1, <1>2, <1>3 DEF SubmitCall

(* The loop only rests when Dequeue can return nothing. *)
LEMMA DispatchLoop ==
  ASSUME Control, NoLostDispatch, SchedulerLoop
  PROVE  NoLostDispatch'
<1> USE LimitAssumption
    DEF Control, TypeOK, NoLostDispatch, callerVars, loopVars, slotVars, runVars
<1>1. CASE LoopSignal \/ LoopStop \/ ScheduleAcquire \/ ScheduleSpawn
  BY <1>1 DEF LoopSignal, LoopStop, ScheduleAcquire, ScheduleSpawn
<1>2. CASE ScheduleCheck
  BY <1>2 DEF ScheduleCheck
<1>3. CASE ScheduleDequeue
  BY <1>3 DEF ScheduleDequeue, Dispatchable, HasRoom
<1> QED BY <1>1, <1>2, <1>3 DEF SchedulerLoop

(* A runner leaves a signal after it has freed its slots. *)
LEMMA DispatchRunner ==
  ASSUME Control, NoLostDispatch, NEW e \in Execs, RunnerStep(e)
  PROVE  NoLostDispatch'
<1> USE LimitAssumption
    DEF Control, TypeOK, Goto, SetState, Settle, callerVars, loopVars, slotVars, runVars
<1>1. CASE RunnerStart(e) \/ RunnerArm(e) \/ RunnerResolve(e)
  <2>1. Inert
    BY <1>1 DEF Inert, RunnerStart, RunnerArm, RunnerResolve
  <2> QED BY <2>1, DispatchInert
<1>2. CASE Attempt(e)
  <2>1. Inert
    BY <1>2 DEF Inert, Attempt, AttemptReplies, AttemptFails, AttemptTimesOut, AttemptEnd
  <2> QED BY <2>1, DispatchInert
<1>3. CASE BackoffStart(e) \/ BackoffElapse(e) \/ BackoffInterrupt(e)
  <2>1. Inert
    BY <1>3 DEF Inert, BackoffStart, BackoffElapse, BackoffInterrupt
  <2> QED BY <2>1, DispatchInert
<1>4. CASE HandleResult(e) \/ PublishOutcome(e) \/ NotifyDone(e)
  <2>1. Inert
    BY <1>4 DEF Inert, HandleResult, PublishOutcome, NotifyDone, Panic
  <2> QED BY <2>1, DispatchInert
<1>5. CASE ReleaseSem(e) \/ ReleaseProvider(e)
  BY <1>5 DEF ReleaseSem, ReleaseProvider, NoLostDispatch
<1>6. CASE ReleaseSignal(e)
  BY <1>6 DEF ReleaseSignal, Signal, NoLostDispatch
<1> QED BY <1>1, <1>2, <1>3, <1>4, <1>5, <1>6 DEF RunnerStep, Quietly

(* NoLostDispatch is inductive, given Control. *)
LEMMA DispatchNext == Control /\ NoLostDispatch /\ [Next]_vars => NoLostDispatch'
<1> SUFFICES ASSUME Control, NoLostDispatch, [Next]_vars PROVE NoLostDispatch'
  OBVIOUS
<1> USE DEF Inert, Control, TypeOK, callerVars, loopVars, slotVars, runVars
<1>1. ASSUME NEW e \in Execs, Cancel(e) \/ Deadline(e)
      PROVE  Inert
  BY <1>1 DEF Cancel, CancelIdle, CancelRunning, CancelTerminal, CancelCall, Deadline
<1>2. ASSUME NEW w \in Waiters, Wait(w) \/ WaitGiveUp(w)
      PROVE  Inert
  BY <1>2 DEF Wait, WaitCheck, WaitRegister, WaitReturn, WaitGiveUp
<1>3. Shutdown \/ UNCHANGED vars => Inert
  BY DEF Shutdown, vars
<1> QED BY <1>1, <1>2, <1>3, DispatchInert, DispatchSubmit, DispatchLoop, DispatchRunner
        DEF Next, Quietly

(* No wakeup of the scheduler is lost, although signals may be dropped. *)
THEOREM DispatchNotLost == Spec => []NoLostDispatch
<1>1. Init => NoLostDispatch
  BY DEF Init, NoLostDispatch
<1> QED BY <1>1, ControlInvariant, DispatchNext, PTL DEF Spec

-----------------------------------------------------------------------------
(* Results.  Once a runner is past handleResult, or on a failure path, the  *)
(* result is set; it is never taken back.                                   *)
Settled == {"handled", "releasing", "semFree", "provFree", "notifying", "done"}
ResultSet == \A e \in Execs : runner[e] \in Settled => result[e] # "none"
Answers == AnsweredWithResult /\ ResultSet

(* At the start nothing is terminal and nobody waits. *)
LEMMA AnswersInit == Init => Answers
  BY DEF Init, Answers, AnsweredWithResult, ResultSet, Settled

(* Answers is inductive, given Control. *)
LEMMA AnswersNext == Control /\ Answers /\ [Next]_vars => Answers'
<1> SUFFICES ASSUME Control, Answers, [Next]_vars PROVE Answers'
  OBVIOUS
<1> USE WaiterAssumption
    DEF Control, TypeOK, Answers, AnsweredWithResult, ResultSet, Settled, Settle, SetState, Notify,
        Known, callerVars, loopVars, slotVars, runVars, waitVars
<1>1. ASSUME NEW e \in Execs, SubmitCall(e)
      PROVE  Answers'
  BY <1>1 DEF SubmitCall, SubmitCheck, SubmitRegister, SubmitMark, SubmitEnqueue, SubmitSignal
<1>2. ASSUME NEW e \in Execs, Cancel(e) \/ Deadline(e)
      PROVE  Answers'
  <2>1. CASE CancelIdle(e)
    BY <2>1 DEF CancelIdle, CancelCall
  <2>2. CASE CancelRunning(e) \/ CancelTerminal(e) \/ Deadline(e)
    BY <2>2 DEF CancelRunning, CancelTerminal, CancelCall, Deadline
  <2> QED BY <1>2, <2>1, <2>2 DEF Cancel
<1>3. ASSUME NEW w \in Waiters, Wait(w) \/ WaitGiveUp(w)
      PROVE  Answers'
  <2>1. CASE WaitCheck(w)
    BY <2>1 DEF WaitCheck
  <2>2. CASE WaitRegister(w) \/ WaitReturn(w) \/ WaitGiveUp(w)
    BY <2>2 DEF WaitRegister, WaitReturn, WaitGiveUp
  <2> QED BY <1>3, <2>1, <2>2 DEF Wait
<1>4. CASE SchedulerLoop
  BY <1>4 DEF SchedulerLoop, LoopSignal, LoopStop, ScheduleCheck, ScheduleDequeue,
              ScheduleAcquire, ScheduleSpawn
<1>5. ASSUME NEW e \in Execs, RunnerStep(e)
      PROVE  Answers'
  <2> USE DEF Goto
  <2>1. CASE RunnerStart(e) \/ RunnerArm(e) \/ RunnerResolve(e)
    BY <2>1 DEF RunnerStart, RunnerArm, RunnerResolve
  <2>2. CASE Attempt(e)
    BY <2>2 DEF Attempt, AttemptReplies, AttemptFails, AttemptTimesOut, AttemptEnd
  <2>3. CASE BackoffStart(e) \/ BackoffElapse(e) \/ BackoffInterrupt(e)
    BY <2>3 DEF BackoffStart, BackoffElapse, BackoffInterrupt
  <2>4. CASE HandleResult(e)
    BY <2>4 DEF HandleResult, Panic, FinalState
  <2>5. CASE PublishOutcome(e)
    BY <2>5 DEF PublishOutcome, Panic
  <2>6. CASE ReleaseSem(e) \/ ReleaseProvider(e) \/ ReleaseSignal(e)
    BY <2>6 DEF ReleaseSem, ReleaseProvider, ReleaseSignal
  <2>7. CASE NotifyDone(e)
    BY <2>7 DEF NotifyDone
  <2> QED BY <1>5, <2>1, <2>2, <2>3, <2>4, <2>5, <2>6, <2>7 DEF RunnerStep, Quietly
<1>6. Shutdown \/ UNCHANGED vars => Answers'
  BY DEF Shutdown, vars
<1> QED BY <1>1, <1>2, <1>3, <1>4, <1>5, <1>6 DEF Next, Quietly

(* A terminal state has its result, and no Wait is answered with nil. *)
THEOREM WaitsAnswered == Spec => []AnsweredWithResult
<1>1. Answers => AnsweredWithResult
  BY DEF Answers
<1> QED BY <1>1, ControlInvariant, AnswersInit, AnswersNext, PTL DEF Spec

-----------------------------------------------------------------------------
(* A cancel that reaches the execution while it is in the queue is final.  *)

(* An execution out of the queue, cancelled and never dispatched stays so. *)
LEMMA CancelledStays ==
  ASSUME Control, [Next]_vars, NEW x \in Execs, CancelledInQueue(x)
  PROVE  CancelledInQueue(x)'
<1> USE DEF Control, TypeOK, OnePlace, CancelledInQueue, SetState, Settle,
            callerVars, loopVars, slotVars, runVars, waitVars
<1>1. ASSUME NEW e \in Execs, SubmitCall(e)
      PROVE  CancelledInQueue(x)'
  BY <1>1 DEF SubmitCall, SubmitStep, SubmitCheck, SubmitRegister, SubmitMark, SubmitEnqueue,
              SubmitSignal
<1>2. ASSUME NEW e \in Execs, Cancel(e) \/ Deadline(e)
      PROVE  CancelledInQueue(x)'
  BY <1>2 DEF Cancel, CancelIdle, CancelRunning, CancelTerminal, CancelCall, Deadline
<1>3. ASSUME NEW w \in Waiters, Wait(w) \/ WaitGiveUp(w)
      PROVE  CancelledInQueue(x)'
  BY <1>3 DEF Wait, WaitCheck, WaitRegister, WaitReturn, WaitGiveUp
<1>4. CASE SchedulerLoop
  BY <1>4, ExecsAssumption
     DEF SchedulerLoop, LoopSignal, LoopStop, ScheduleCheck, ScheduleDequeue, ScheduleAcquire,
         ScheduleSpawn
<1>5. ASSUME NEW e \in Execs, RunnerStep(e)
      PROVE  CancelledInQueue(x)'
  <2> USE DEF Goto
  <2>1. CASE RunnerStart(e) \/ RunnerArm(e) \/ RunnerResolve(e)
    BY <2>1 DEF RunnerStart, RunnerArm, RunnerResolve
  <2>2. CASE Attempt(e)
    BY <2>2 DEF Attempt, AttemptReplies, AttemptFails, AttemptTimesOut, AttemptEnd
  <2>3. CASE BackoffStart(e) \/ BackoffElapse(e) \/ BackoffInterrupt(e)
    BY <2>3 DEF BackoffStart, BackoffElapse, BackoffInterrupt
  <2>4. CASE HandleResult(e) \/ PublishOutcome(e)
    BY <2>4 DEF HandleResult, PublishOutcome, Panic
  <2>5. CASE ReleaseSem(e) \/ ReleaseProvider(e) \/ ReleaseSignal(e) \/ NotifyDone(e)
    BY <2>5 DEF ReleaseSem, ReleaseProvider, ReleaseSignal, NotifyDone
  <2> QED BY <1>5, <2>1, <2>2, <2>3, <2>4, <2>5 DEF RunnerStep, Quietly
<1>6. Shutdown \/ UNCHANGED vars => CancelledInQueue(x)'
  BY DEF Shutdown, vars
<1> QED BY <1>1, <1>2, <1>3, <1>4, <1>5, <1>6 DEF Next, Quietly

(* A cancel that finds its execution queued leaves it so. *)
LEMMA CancelledTakesEffect ==
  ASSUME Control, Next, NEW x \in Execs,
         x \in queued, state[x] = "QUEUED", state'[x] = "CANCELLED"
  PROVE  CancelledInQueue(x)'
<1> USE DEF Control, TypeOK, OnePlace, SetState, Settle,
            callerVars, loopVars, slotVars, runVars, waitVars
<1>0. /\ runner[x] = "none" /\ picked # x
      /\ submit[x] \in {"enqueued", "submitted"}
  OBVIOUS
<1>1. ASSUME NEW e \in Execs, SubmitCall(e)
      PROVE  FALSE
  BY <1>1, <1>0 DEF SubmitCall, SubmitStep, SubmitCheck, SubmitRegister, SubmitMark,
                    SubmitEnqueue, SubmitSignal
<1>2. ASSUME NEW e \in Execs, Cancel(e) \/ Deadline(e)
      PROVE  CancelledInQueue(x)'
  <2>1. CASE CancelIdle(e)
    BY <2>1, <1>0 DEF CancelIdle, CancelCall, CancelledInQueue
  <2>2. CASE CancelRunning(e) \/ CancelTerminal(e) \/ Deadline(e)
    BY <2>2 DEF CancelRunning, CancelTerminal, CancelCall, Deadline
  <2> QED BY <1>2, <2>1, <2>2 DEF Cancel
<1>3. ASSUME NEW w \in Waiters, Wait(w) \/ WaitGiveUp(w)
      PROVE  FALSE
  BY <1>3 DEF Wait, WaitCheck, WaitRegister, WaitReturn, WaitGiveUp
<1>4. ~SchedulerLoop /\ ~Shutdown
  BY DEF SchedulerLoop, LoopSignal, LoopStop, ScheduleCheck, ScheduleDequeue, ScheduleAcquire,
         ScheduleSpawn, Shutdown
<1>5. ASSUME NEW e \in Execs, RunnerStep(e)
      PROVE  FALSE
  <2> USE <1>0 DEF Goto
  <2>1. ~(RunnerStart(e) \/ RunnerArm(e) \/ RunnerResolve(e))
    BY DEF RunnerStart, RunnerArm, RunnerResolve
  <2>2. ~Attempt(e)
    BY DEF Attempt, AttemptReplies, AttemptFails, AttemptTimesOut, AttemptEnd
  <2>3. ~(BackoffStart(e) \/ BackoffElapse(e) \/ BackoffInterrupt(e))
    BY DEF BackoffStart, BackoffElapse, BackoffInterrupt
  <2>4. ~(HandleResult(e) \/ PublishOutcome(e))
    BY DEF HandleResult, PublishOutcome, Panic
  <2>5. ~(ReleaseSem(e) \/ ReleaseProvider(e) \/ ReleaseSignal(e) \/ NotifyDone(e))
    BY DEF ReleaseSem, ReleaseProvider, ReleaseSignal, NotifyDone
  <2> QED BY <1>5, <2>1, <2>2, <2>3, <2>4, <2>5 DEF RunnerStep, Quietly
<1> QED BY <1>1, <1>2, <1>3, <1>4, <1>5 DEF Next, Quietly

(* An execution cancelled in the queue is never dispatched and stays so. *)
THEOREM CancelIsFinalInQueue == Spec => CancelFromQueueIsFinal
<1>1. ASSUME Control, [Next]_vars
      PROVE  [\A e \in Execs :
                (e \in queued /\ state[e] = "QUEUED" /\ state'[e] = "CANCELLED") \/ CancelledInQueue(e)
                  => CancelledInQueue(e)']_vars
  BY <1>1, CancelledStays, CancelledTakesEffect
<1> QED BY <1>1, ControlInvariant, PTL DEF Spec, CancelFromQueueIsFinal
-----------------------------------------------------------------------------
(* The state and the goroutines.  exec.State is written by Submit, Cancel   *)
(* and the runner, none of which looks at what another has done; what it    *)
(* can be is still fixed by where Submit and the runner are, but for a      *)
(* CANCELLED of the moments when no provider is being called.               *)
StateAgrees(e) ==
  /\ submit[e] \in {"new", "ready", "rejected"} => state[e] = "PENDING"
  /\ submit[e] = "registered" => state[e] \in {"PENDING", "CANCELLED"}
  /\ submit[e] \in {"marked", "enqueued", "submitted"} /\ runner[e] \in {"none", "spawned"}
       => state[e] \in {"QUEUED", "CANCELLED"}
  /\ runner[e] \in {"started", "armed", "attempt", "retry"} => state[e] = "RUNNING"
  /\ runner[e] = "backoff" => state[e] \in {"RETRYING", "CANCELLED"}
  /\ runner[e] = "finish" => state[e] \in {"RUNNING", "RETRYING", "CANCELLED"}
  /\ runner[e] = "handled" => outcome[e] # "nil" /\ state[e] = FinalState(outcome[e])
  /\ runner[e] \in Settled => state[e] \in Terminal
StateFollowsRunner == \A e \in Execs : StateAgrees(e)

(* At the start nothing is submitted. *)
LEMMA StateInit == Init => StateFollowsRunner
  BY DEF Init, StateFollowsRunner, StateAgrees, Settled

(* Whatever a step does, the state of an execution agrees with its places. *)
LEMMA StateNext == Control /\ StateFollowsRunner /\ [Next]_vars => StateFollowsRunner'
<1> SUFFICES ASSUME Control, StateFollowsRunner, [Next]_vars, NEW x \in Execs
             PROVE  StateAgrees(x)'
  BY DEF StateFollowsRunner
<1>0. StateAgrees(x)
  BY DEF StateFollowsRunner
<1> USE <1>0 DEF Control, TypeOK, OnePlace, StateAgrees, Settled, Settle, SetState,
            callerVars, loopVars, slotVars, runVars, waitVars
<1>1. ASSUME NEW e \in Execs, SubmitCall(e)
      PROVE  StateAgrees(x)'
  BY <1>1 DEF SubmitCall, SubmitStep, SubmitCheck, SubmitRegister, SubmitMark, SubmitEnqueue,
              SubmitSignal
<1>2. ASSUME NEW e \in Execs, Cancel(e) \/ Deadline(e)
      PROVE  StateAgrees(x)'
  <2>1. CASE CancelIdle(e)
    BY <2>1 DEF CancelIdle, CancelCall, Known
  <2>2. CASE CancelRunning(e) \/ CancelTerminal(e) \/ Deadline(e)
    BY <2>2 DEF CancelRunning, CancelTerminal, CancelCall, Deadline
  <2> QED BY <1>2, <2>1, <2>2 DEF Cancel
<1>3. ASSUME NEW w \in Waiters, Wait(w) \/ WaitGiveUp(w)
      PROVE  StateAgrees(x)'
  BY <1>3 DEF Wait, WaitCheck, WaitRegister, WaitReturn, WaitGiveUp
<1>4. CASE SchedulerLoop
  BY <1>4 DEF SchedulerLoop, LoopSignal, LoopStop, ScheduleCheck, ScheduleDequeue,
              ScheduleAcquire, ScheduleSpawn
<1>5. ASSUME NEW e \in Execs, RunnerStep(e)
      PROVE  StateAgrees(x)'
  <2> USE DEF Goto
  <2>1. CASE RunnerStart(e) \/ RunnerArm(e)
    BY <2>1 DEF RunnerStart, RunnerArm
  <2>2. CASE RunnerResolve(e)
    BY <2>2 DEF RunnerResolve
  <2>3. CASE Attempt(e)
    BY <2>3 DEF Attempt, AttemptReplies, AttemptFails, AttemptTimesOut, AttemptEnd
  <2>4. CASE BackoffStart(e) \/ BackoffElapse(e) \/ BackoffInterrupt(e)
    BY <2>4 DEF BackoffStart, BackoffElapse, BackoffInterrupt
  <2>5. CASE HandleResult(e)
    BY <2>5 DEF HandleResult, Panic, FinalState
  <2>6. CASE PublishOutcome(e)
    BY <2>6 DEF PublishOutcome, Panic
  <2>7. CASE ReleaseSem(e) \/ ReleaseProvider(e) \/ ReleaseSignal(e) \/ NotifyDone(e)
    BY <2>7 DEF ReleaseSem, ReleaseProvider, ReleaseSignal, NotifyDone
  <2> QED BY <1>5, <2>1, <2>2, <2>3, <2>4, <2>5, <2>6, <2>7 DEF RunnerStep, Quietly
<1>6. Shutdown \/ UNCHANGED vars => StateAgrees(x)'
  BY DEF Shutdown, vars
<1> QED BY <1>1, <1>2, <1>3, <1>4, <1>5, <1>6 DEF Next, Quietly

(* The state of an execution always agrees with where its Submit and its    *)
(* runner are: a provider is only called for a RUNNING one, and whatever    *)
(* its runner has settled is terminal.                                      *)
THEOREM StateTellsThePlace == Spec => []StateFollowsRunner
  BY ControlInvariant, StateInit, StateNext, PTL DEF Spec

-----------------------------------------------------------------------------
(* The executions no dequeue returns.                                       *)
LeftInQueue(e) == picked # e /\ runner[e] = "none" /\ result[e] \in {"none", "CANCELLED"}
UnservedLeft == \A e \in Execs \ Served : LeftInQueue(e)

(* No step hands such an execution to the loop, and a runner settles only   *)
(* its own.                                                                 *)
LEMMA UnservedStays == Control /\ UnservedLeft /\ [Next]_vars => UnservedLeft'
<1> SUFFICES ASSUME Control, UnservedLeft, [Next]_vars, NEW x \in Execs \ Served
             PROVE  LeftInQueue(x)'
  BY DEF UnservedLeft
<1>0. LeftInQueue(x)
  BY DEF UnservedLeft
<1> USE <1>0 DEF Control, TypeOK, OnePlace, LeftInQueue, Settle, SetState, callerVars, loopVars,
            slotVars, runVars, waitVars
<1>1. ASSUME NEW e \in Execs, SubmitCall(e) \/ Cancel(e) \/ Deadline(e)
      PROVE  LeftInQueue(x)'
  BY <1>1 DEF SubmitCall, SubmitCheck, SubmitRegister, SubmitMark, SubmitEnqueue, SubmitSignal,
              Cancel, CancelIdle, CancelRunning, CancelTerminal, Deadline
<1>2. ASSUME NEW w \in Waiters, Wait(w) \/ WaitGiveUp(w)
      PROVE  LeftInQueue(x)'
  BY <1>2 DEF Wait, WaitCheck, WaitRegister, WaitReturn, WaitGiveUp
<1>3. CASE SchedulerLoop
  <2>1. CASE ScheduleDequeue
    BY <2>1, ExecsAssumption DEF ScheduleDequeue, Dispatchable
  <2>2. CASE ScheduleSpawn
    BY <2>2, ExecsAssumption DEF ScheduleSpawn
  <2>3. CASE LoopSignal \/ LoopStop \/ ScheduleCheck \/ ScheduleAcquire
    BY <2>3 DEF LoopSignal, LoopStop, ScheduleCheck, ScheduleAcquire
  <2> QED BY <1>3, <2>1, <2>2, <2>3 DEF SchedulerLoop
<1>4. ASSUME NEW e \in Execs, RunnerStep(e)
      PROVE  LeftInQueue(x)'
  <2> USE DEF Goto
  <2>1. e # x
    BY <1>4 DEF RunnerStep, Quietly, RunnerStart, RunnerArm, RunnerResolve, Attempt,
       AttemptReplies, AttemptFails, AttemptTimesOut, AttemptEnd, BackoffStart, BackoffElapse,
       BackoffInterrupt, HandleResult, PublishOutcome, Panic, ReleaseSem, ReleaseProvider,
       ReleaseSignal, NotifyDone
  <2>2. UNCHANGED <<picked, runner[x], result[x]>>
    <3>1. CASE RunnerStart(e) \/ RunnerArm(e) \/ RunnerResolve(e)
      BY <2>1, <3>1 DEF RunnerStart, RunnerArm, RunnerResolve
    <3>2. CASE Attempt(e) \/ BackoffStart(e) \/ BackoffElapse(e) \/ BackoffInterrupt(e)
      BY <2>1, <3>2 DEF Attempt, AttemptReplies, AttemptFails, AttemptTimesOut, AttemptEnd,
         BackoffStart, BackoffElapse, BackoffInterrupt
    <3>3. CASE HandleResult(e) \/ PublishOutcome(e)
      BY <2>1, <3>3 DEF HandleResult, PublishOutcome, Panic
    <3>4. CASE ReleaseSem(e) \/ ReleaseProvider(e) \/ ReleaseSignal(e) \/ NotifyDone(e)
      BY <2>1, <3>4 DEF ReleaseSem, ReleaseProvider, ReleaseSignal, NotifyDone
    <3> QED BY <1>4, <3>1, <3>2, <3>3, <3>4 DEF RunnerStep, Quietly
  <2> QED BY <2>2
<1>5. Shutdown \/ UNCHANGED vars => LeftInQueue(x)'
  BY DEF Shutdown, vars
<1> QED BY <1>1, <1>2, <1>3, <1>4, <1>5 DEF Next, Quietly

(* An execution of a class outside the order Dequeue goes through is never  *)
(* picked and never run, though Submit accepted it and whatever slots are   *)
(* free: the only outcome it can have is a cancellation.                    *)
THEOREM UnservedNeverRun == Spec => []UnservedLeft
<1>1. Init => UnservedLeft
  BY ExecsAssumption DEF Init, UnservedLeft, LeftInQueue
<1> QED BY <1>1, UnservedStays, ControlInvariant, PTL DEF Spec

-----------------------------------------------------------------------------
(* Outcomes are final.                                                      *)
Lasting == {"SUCCEEDED", "FAILED", "TIMED_OUT"}

(* Only the runner writes them. *)
LEMMA LastingIsSettled ==
  ASSUME Control, StateFollowsRunner, NEW e \in Execs, state[e] \in Lasting
  PROVE  runner[e] \in Settled
<1>1. submit[e] \in SubmitPoints /\ runner[e] \in RunnerPoints /\ StateAgrees(e)
  BY DEF Control, TypeOK, StateFollowsRunner
<1>2. runner[e] = "spawned" => submit[e] \in {"enqueued", "submitted"}
  BY DEF Control, OnePlace
<1> QED BY <1>1, <1>2 DEF StateAgrees, Lasting, Settled

(* What a step may not do to an execution's outcome: touch it once its      *)
(* runner has settled it; or overwrite it, unless it is the CANCELLED of a  *)
(* Cancel that came between two steps of Submit, before the runner started, *)
(* or during a backoff.                                                     *)
OutcomeKept(e) ==
  /\ runner[e] \in Settled =>
       runner'[e] \in Settled /\ state'[e] = state[e] /\ result'[e] = result[e]
  /\ state[e] \in Terminal /\ state'[e] # state[e] =>
       /\ state[e] = "CANCELLED"
       /\ submit[e] = "registered" \/ runner[e] \in {"spawned", "backoff", "finish"}
OutcomeIsFinal == [][\A e \in Execs : OutcomeKept(e)]_vars

(* No step loses an outcome. *)
LEMMA OutcomeStep ==
  ASSUME Control, Answers, StateFollowsRunner, [Next]_vars, NEW x \in Execs
  PROVE  OutcomeKept(x)
<1>0. StateAgrees(x) /\ (state[x] \in Terminal => result[x] = state[x])
  BY DEF StateFollowsRunner, Answers, AnsweredWithResult
<1> USE <1>0 DEF Control, TypeOK, OnePlace, StateAgrees, Settled, Settle, SetState, OutcomeKept,
            callerVars, loopVars, slotVars, runVars, waitVars
<1>1. ASSUME NEW e \in Execs, SubmitCall(e)
      PROVE  OutcomeKept(x)
  BY <1>1 DEF SubmitCall, SubmitStep, SubmitCheck, SubmitRegister, SubmitMark, SubmitEnqueue,
              SubmitSignal
<1>2. ASSUME NEW e \in Execs, Cancel(e) \/ Deadline(e)
      PROVE  OutcomeKept(x)
  <2>1. CASE CancelIdle(e)
    BY <2>1 DEF CancelIdle, CancelCall
  <2>2. CASE CancelRunning(e) \/ CancelTerminal(e) \/ Deadline(e)
    BY <2>2 DEF CancelRunning, CancelTerminal, CancelCall, Deadline
  <2> QED BY <1>2, <2>1, <2>2 DEF Cancel
<1>3. ASSUME NEW w \in Waiters, Wait(w) \/ WaitGiveUp(w)
      PROVE  OutcomeKept(x)
  BY <1>3 DEF Wait, WaitCheck, WaitRegister, WaitReturn, WaitGiveUp
<1>4. CASE SchedulerLoop
  BY <1>4 DEF SchedulerLoop, LoopSignal, LoopStop, ScheduleCheck, ScheduleDequeue,
              ScheduleAcquire, ScheduleSpawn
<1>5. ASSUME NEW e \in Execs, RunnerStep(e)
      PROVE  OutcomeKept(x)
  <2> USE DEF Goto
  <2>1. CASE RunnerStart(e) \/ RunnerArm(e)
    BY <2>1 DEF RunnerStart, RunnerArm
  <2>2. CASE RunnerResolve(e)
    BY <2>2 DEF RunnerResolve
  <2>3. CASE Attempt(e)
    BY <2>3 DEF Attempt, AttemptReplies, AttemptFails, AttemptTimesOut, AttemptEnd
  <2>4. CASE BackoffStart(e) \/ BackoffElapse(e) \/ BackoffInterrupt(e)
    BY <2>4 DEF BackoffStart, BackoffElapse, BackoffInterrupt
  <2>5. CASE HandleResult(e)
    BY <2>5 DEF HandleResult, Panic, FinalState
  <2>6. CASE PublishOutcome(e)
    BY <2>6 DEF PublishOutcome, Panic, FinalState
  <2>7. CASE ReleaseSem(e) \/ ReleaseProvider(e) \/ ReleaseSignal(e) \/ NotifyDone(e)
    BY <2>7 DEF ReleaseSem, ReleaseProvider, ReleaseSignal, NotifyDone
  <2> QED BY <1>5, <2>1, <2>2, <2>3, <2>4, <2>5, <2>6, <2>7 DEF RunnerStep, Quietly
<1>6. Shutdown \/ UNCHANGED vars => OutcomeKept(x)
  BY DEF Shutdown, vars
<1> QED BY <1>1, <1>2, <1>3, <1>4, <1>5, <1>6 DEF Next, Quietly

(* Answers, for use with the invariants of the state. *)
LEMMA AnswersInvariant == Spec => []Answers
  BY ControlInvariant, AnswersInit, AnswersNext, PTL DEF Spec

(* An outcome the runner has settled is never changed, and only a CANCELLED *)
(* of the listed moments is ever overwritten.                               *)
THEOREM OutcomesLast == Spec => OutcomeIsFinal
<1>1. ASSUME Control, Answers, StateFollowsRunner, [Next]_vars
      PROVE  [\A e \in Execs : OutcomeKept(e)]_vars
  BY <1>1, OutcomeStep
<1> QED BY <1>1, ControlInvariant, AnswersInvariant, StateTellsThePlace, PTL
        DEF Spec, OutcomeIsFinal

(* What a Wait has been told.  A lasting outcome it returned is the outcome *)
(* of its execution for good, so no two callers are told different ones.    *)
Told ==
  /\ \A e \in Execs : result[e] \in Lasting => result[e] = state[e]
  /\ \A w \in Waiters : reply[w] \in Lasting => reply[w] = state[WaitsFor[w]]
RepliesStand ==
  \A v, w \in Waiters :
    WaitsFor[v] = WaitsFor[w] /\ reply[v] \in Lasting /\ reply[w] \in Lasting => reply[v] = reply[w]

(* At the start nobody has been told anything. *)
LEMMA ToldInit == Init => Told
  BY DEF Init, Told, Lasting

(* A result is only written together with the state, and a reply other than *)
(* an error is read from the result.                                        *)
LEMMA WrittenTogether ==
  ASSUME Control, [Next]_vars
  PROVE  /\ \A e \in Execs : result'[e] # result[e] => result'[e] = state'[e]
         /\ \A w \in Waiters : reply'[w] \in Lasting /\ reply'[w] # reply[w] =>
              reply'[w] = result[WaitsFor[w]] /\ UNCHANGED state
<1> USE DEF Control, TypeOK, SetState, Settle, callerVars, loopVars, slotVars, runVars, waitVars
<1>1. ASSUME NEW x \in Execs, SubmitCall(x)
      PROVE  UNCHANGED <<result, reply>>
  BY <1>1 DEF SubmitCall, SubmitCheck, SubmitRegister, SubmitMark, SubmitEnqueue, SubmitSignal
<1>2. ASSUME NEW x \in Execs, Cancel(x) \/ Deadline(x)
      PROVE  UNCHANGED reply /\ \A e \in Execs : result'[e] # result[e] => result'[e] = state'[e]
  BY <1>2 DEF Cancel, CancelIdle, CancelRunning, CancelTerminal, Deadline
<1>3. ASSUME NEW v \in Waiters, Wait(v) \/ WaitGiveUp(v)
      PROVE  /\ UNCHANGED <<state, result>>
             /\ \A w \in Waiters : reply'[w] \in Lasting /\ reply'[w] # reply[w] =>
                  reply'[w] = result[WaitsFor[w]]
  BY <1>3 DEF Wait, WaitCheck, WaitRegister, WaitReturn, WaitGiveUp, Lasting
<1>4. SchedulerLoop \/ Shutdown \/ UNCHANGED vars => UNCHANGED <<result, reply>>
  BY DEF SchedulerLoop, LoopSignal, LoopStop, ScheduleCheck, ScheduleDequeue, ScheduleAcquire,
         ScheduleSpawn, Shutdown, vars
<1>5. ASSUME NEW x \in Execs, RunnerStep(x)
      PROVE  UNCHANGED reply /\ \A e \in Execs : result'[e] # result[e] => result'[e] = state'[e]
  <2>1. CASE RunnerStart(x) \/ RunnerArm(x) \/ RunnerResolve(x)
    BY <2>1 DEF RunnerStart, RunnerArm, RunnerResolve
  <2>2. CASE Attempt(x)
    BY <2>2 DEF Attempt, AttemptReplies, AttemptFails, AttemptTimesOut, AttemptEnd
  <2>3. CASE BackoffStart(x) \/ BackoffElapse(x) \/ BackoffInterrupt(x)
    BY <2>3 DEF BackoffStart, BackoffElapse, BackoffInterrupt
  <2>4. CASE HandleResult(x) \/ PublishOutcome(x)
    BY <2>4 DEF HandleResult, PublishOutcome, Panic, FinalState
  <2>5. CASE ReleaseSem(x) \/ ReleaseProvider(x) \/ ReleaseSignal(x) \/ NotifyDone(x)
    BY <2>5 DEF ReleaseSem, ReleaseProvider, ReleaseSignal, NotifyDone
  <2> QED BY <1>5, <2>1, <2>2, <2>3, <2>4, <2>5 DEF RunnerStep, Quietly
<1> QED BY <1>1, <1>2, <1>3, <1>4, <1>5 DEF Next, Quietly

(* A lasting state stays. *)
LEMMA LastingStays ==
  ASSUME Control, Answers, StateFollowsRunner, [Next]_vars,
         NEW e \in Execs, state[e] \in Lasting
  PROVE  state'[e] = state[e] /\ result'[e] = result[e]
<1>1. runner[e] \in Settled
  BY LastingIsSettled
<1> QED BY <1>1, OutcomeStep DEF OutcomeKept

(* What a Wait returns is a lasting state at that moment and so afterwards. *)
LEMMA ToldNext ==
  Control /\ Answers /\ StateFollowsRunner /\ Told /\ [Next]_vars => Told'
<1> SUFFICES ASSUME Control, Answers, StateFollowsRunner, Told, [Next]_vars
             PROVE  Told'
  OBVIOUS
<1>1. ASSUME NEW e \in Execs, result'[e] \in Lasting
      PROVE  result'[e] = state'[e]
  <2>1. CASE result'[e] = result[e]
    BY <1>1, <2>1, LastingStays DEF Told
  <2> QED BY <2>1, WrittenTogether
<1>2. ASSUME NEW w \in Waiters, reply'[w] \in Lasting
      PROVE  reply'[w] = state'[WaitsFor[w]]
  <2>1. WaitsFor[w] \in Execs
    BY WaiterAssumption
  <2>2. CASE reply'[w] = reply[w]
    BY <1>2, <2>1, <2>2, LastingStays DEF Told
  <2>3. CASE reply'[w] # reply[w]
    BY <1>2, <2>1, <2>3, WrittenTogether DEF Told
  <2> QED BY <2>2, <2>3
<1> QED BY <1>1, <1>2 DEF Told

(* Two callers are never told different lasting outcomes of one execution,  *)
(* whenever they wait: what either was told is its state for good.          *)
THEOREM RepliesAgree == Spec => [](Told /\ RepliesStand)
<1>1. Told => RepliesStand
  BY DEF Told, RepliesStand
<1> QED BY <1>1, ControlInvariant, AnswersInvariant, StateTellsThePlace, ToldInit, ToldNext,
           PTL DEF Spec

-----------------------------------------------------------------------------
(* How the manager uses its scheduler.  asked and taken are history          *)
(* variables: what the last dequeue accepted and returned, forgotten when    *)
(* the queue next changes otherwise.                                         *)
VARIABLES asked, taken

(* The canSchedule filter that scheduleNext passes to DequeueFiltered, and   *)
(* the sets it can accept: some providers have room, the others have not.    *)
Schedulable == {e \in Execs : HasRoom(e)}
Rooms == {{e \in Execs : ProviderOf[e] \in P} : P \in SUBSET Providers}

Queue == INSTANCE DispatchQueue WITH pool <- queued, Filters <- Rooms

Asks == loop = "dequeue" /\ loop' # "dequeue"

Record ==
  IF Asks
    THEN asked' = Schedulable /\ taken' = IF loop' = "acquire" THEN picked' ELSE None
    ELSE IF queued' = queued THEN UNCHANGED <<asked, taken>> ELSE Queue!Quiet

Watched == (Init /\ asked = {} /\ taken = None) /\ [][Next /\ Record]_<<vars, asked, taken>>

(* A step that is not a dequeue adds an execution that is not queued,        *)
(* removes one that is, or leaves the queue alone.                           *)
QueuedOnce ==
  /\ ~Asks
  /\ \/ UNCHANGED queued
     \/ \E e \in Execs : e \notin queued /\ queued' = queued \cup {e}
     \/ \E e \in Execs : e \in queued /\ queued' = queued \ {e}

(* What each step of the manager does to the queue. *)
LEMMA QueueSteps ==
  ASSUME Control, Next
  PROVE  QueuedOnce \/ ScheduleDequeue
<1> USE DEF callerVars, loopVars, slotVars, runVars, waitVars
<1>1. ASSUME NEW e \in Execs, SubmitCall(e)
      PROVE  QueuedOnce
  <2>1. loop' = loop
    BY <1>1 DEF SubmitCall, SubmitCheck, SubmitRegister, SubmitMark, SubmitEnqueue, SubmitSignal
  <2>2. queued' = queued \/ (e \notin queued /\ queued' = queued \cup {e})
    <3>1. CASE SubmitEnqueue(e)
      BY <3>1 DEF SubmitEnqueue, SubmitStep, Control, OnePlace
    <3> QED BY <1>1, <3>1 DEF SubmitCall, SubmitCheck, SubmitRegister, SubmitMark, SubmitSignal
  <2> QED BY <2>1, <2>2 DEF QueuedOnce, Asks
<1>2. ASSUME NEW e \in Execs, Cancel(e)
      PROVE  QueuedOnce
  <2>1. loop' = loop /\ (queued' = queued \/ queued' = queued \ {e})
    BY <1>2 DEF Cancel, CancelIdle, CancelRunning, CancelTerminal
  <2>2. e \notin queued => queued \ {e} = queued
    OBVIOUS
  <2> QED BY <2>1, <2>2 DEF QueuedOnce, Asks
<1>3. ASSUME \/ \E e \in Execs : Deadline(e) \/ RunnerStep(e)
             \/ \E w \in Waiters : Wait(w) \/ WaitGiveUp(w)
             \/ Shutdown
      PROVE  QueuedOnce
  <2>1. loop' = loop /\ queued' = queued
    <3>1. CASE \E e \in Execs : Deadline(e)
      BY <3>1 DEF Deadline
    <3>2. CASE \E e \in Execs : RunnerStep(e)
      BY <3>2 DEF RunnerStep, Quietly, RunnerStart, RunnerArm, RunnerResolve, Attempt,
         AttemptReplies, AttemptFails, AttemptTimesOut, AttemptEnd, BackoffStart, BackoffElapse,
         BackoffInterrupt, HandleResult, PublishOutcome, ReleaseSem, ReleaseProvider,
         ReleaseSignal, NotifyDone
    <3>3. CASE \E w \in Waiters : Wait(w) \/ WaitGiveUp(w)
      BY <3>3 DEF Wait, WaitCheck, WaitRegister, WaitReturn, WaitGiveUp
    <3>4. CASE Shutdown
      BY <3>4 DEF Shutdown
    <3> QED BY <1>3, <3>1, <3>2, <3>3, <3>4
  <2> QED BY <2>1 DEF QueuedOnce, Asks
<1>4. ASSUME SchedulerLoop
      PROVE  QueuedOnce \/ ScheduleDequeue
  BY <1>4 DEF SchedulerLoop, LoopSignal, LoopStop, ScheduleCheck, ScheduleAcquire, ScheduleSpawn,
     QueuedOnce, Asks
<1> QED BY <1>1, <1>2, <1>3, <1>4 DEF Next, Quietly

(* The accepted executions are those of the providers with room. *)
LEMMA RoomIsByProvider == Schedulable \in Rooms
<1> DEFINE P == {p \in Providers : active[p] < ProviderLimit[p]}
<1>1. Schedulable = {e \in Execs : ProviderOf[e] \in P}
  BY ProviderAssumption DEF Schedulable, HasRoom
<1>2. P \in SUBSET Providers
  OBVIOUS
<1> QED BY <1>1, <1>2 DEF Rooms

(* A recorded step of the manager is a step of the pool. *)
LEMMA PoolStep ==
  ASSUME Control, [Next /\ Record]_<<vars, asked, taken>>
  PROVE  [Queue!Next]_<<queued, asked, taken>>
<1>1. CASE Next /\ Record /\ QueuedOnce
  <2>1. CASE queued' = queued
    BY <1>1, <2>1 DEF Record, QueuedOnce
  <2>2. CASE queued' # queued
    <3>1. Queue!Quiet
      BY <1>1, <2>2 DEF Record, QueuedOnce
    <3>2. PICK e \in Execs : \/ e \notin queued /\ queued' = queued \cup {e}
                             \/ e \in queued /\ queued' = queued \ {e}
      BY <1>1, <2>2 DEF QueuedOnce
    <3>3. Queue!Add(e) \/ Queue!Drop(e)
      BY <3>1, <3>2 DEF Queue!Add, Queue!Drop
    <3> QED BY <3>3 DEF Queue!Next
  <2> QED BY <2>1, <2>2
<1>2. CASE Next /\ Record /\ ScheduleDequeue
  <2>1. Asks /\ asked' = Schedulable
    BY <1>2 DEF ScheduleDequeue, Asks, Record
  <2>2. queued \cap Schedulable \cap Served = {e \in queued : Dispatchable(e)}
    BY DEF Control, TypeOK, Schedulable, Dispatchable
  <2>3. Queue!Take(Schedulable)
    <3>1. CASE \E e \in queued : Dispatchable(e)
      <4>1. PICK e \in queued : /\ Dispatchable(e) /\ queued' = queued \ {e}
                               /\ picked' = e /\ loop' = "acquire"
        BY <1>2, <3>1 DEF ScheduleDequeue
      <4>2. taken' = e
        BY <1>2, <2>1, <4>1 DEF Record
      <4> QED BY <2>1, <2>2, <4>1, <4>2 DEF Queue!Take
    <3>2. CASE ~ \E e \in queued : Dispatchable(e)
      <4>1. loop' = "idle" /\ queued' = queued
        BY <1>2, <3>2 DEF ScheduleDequeue
      <4>2. taken' = None
        BY <1>2, <2>1, <4>1 DEF Record
      <4> QED BY <2>1, <2>2, <3>2, <4>1, <4>2 DEF Queue!Take
    <3> QED BY <3>1, <3>2
  <2> QED BY <2>3, RoomIsByProvider DEF Queue!Next
<1>3. CASE UNCHANGED <<vars, asked, taken>>
  BY <1>3 DEF vars
<1> QED BY <1>1, <1>2, <1>3, QueueSteps

(* The manager uses its scheduler as DispatchQueue describes: Submit never   *)
(* enqueues an execution that is queued already (which is what Enqueue of    *)
(* PriorityScheduler assumes of its callers), what scheduleNext goes on with *)
(* is what the dequeue returned for the providers with room, and nothing     *)
(* leaves the queue but by a dequeue or a Cancel.  Served is the same set on *)
(* both sides, the executions of the classes SchedulerImplementsPool is      *)
(* stated for: the two theorems join without an assumption on what callers   *)
(* submit.                                                                   *)
THEOREM ManagerUsesThePool == Watched => Queue!Spec
<1>1. Init /\ asked = {} /\ taken = None => Queue!Init
  BY DEF Init, Queue!Init
<1>2. Watched => Spec
  <2>1. [Next /\ Record]_<<vars, asked, taken>> => [Next]_vars
    OBVIOUS
  <2> QED BY <2>1, PTL DEF Watched, Spec
<1>3. Control /\ [Next /\ Record]_<<vars, asked, taken>> => [Queue!Next]_<<queued, asked, taken>>
  BY PoolStep
<1> QED BY <1>1, <1>2, <1>3, ControlInvariant, PTL DEF Watched, Queue!Spec

-----------------------------------------------------------------------------
(* The delay before a retry.  First, powers of two: the recursive function *)
(* is what its equation says, since finite pieces of it exist, agree where *)
(* they overlap and can be put together.                                   *)
Piece(g, n) ==
  g \in [0..n -> Nat \ {0}] /\ g[0] = 1 /\ \A k \in 1..n : g[k] = 2 * g[k - 1]

(* There is a piece of every length. *)
LEMMA PieceExists == \A n \in Nat : \E g : Piece(g, n)
<1> DEFINE bad == {n \in Nat : ~(\E g : Piece(g, n))}
<1> SUFFICES ASSUME bad # {} PROVE FALSE
  OBVIOUS
<1>1. PICK m \in bad : \A n \in bad : m <= n
  BY LeastNatural
<1>2. m # 0
  <2>1. Piece([k \in 0..0 |-> 1], 0)
    BY DEF Piece
  <2> QED BY <2>1
<1>3. m - 1 \in Nat /\ m - 1 \notin bad
  BY <1>1, <1>2
<1>4. PICK g : Piece(g, m - 1)
  BY <1>3
<1> DEFINE h == [k \in 0..m |-> IF k = m THEN 2 * g[m - 1] ELSE g[k]]
<1>5. g \in [0..(m - 1) -> Nat \ {0}] /\ g[0] = 1 /\ \A k \in 1..(m - 1) : g[k] = 2 * g[k - 1]
  BY <1>4 DEF Piece
<1>6. g[m - 1] \in Nat \ {0} /\ \A k \in 0..m : k # m => g[k] \in Nat \ {0}
  BY <1>2, <1>3, <1>5
<1>7. h \in [0..m -> Nat \ {0}] /\ h[0] = 1
  BY <1>2, <1>3, <1>5, <1>6
<1>8. ASSUME NEW k \in 1..m PROVE h[k] = 2 * h[k - 1]
  <2>1. k \in 0..m /\ k - 1 \in 0..m /\ k - 1 # m /\ h[k - 1] = g[k - 1]
    BY <1>3
  <2>2. CASE k = m
    BY <2>1, <2>2
  <2>3. CASE k # m
    <3>1. h[k] = g[k] /\ k \in 1..(m - 1)
      BY <1>3, <2>1, <2>3
    <3> QED BY <1>5, <2>1, <3>1
  <2> QED BY <2>2, <2>3
<1> HIDE DEF h
<1>9. Piece(h, m)
  BY <1>7, <1>8 DEF Piece
<1> QED BY <1>9

(* Pieces agree. *)
LEMMA PiecesAgree ==
  ASSUME NEW n \in Nat, NEW g, Piece(g, n), NEW m \in Nat, NEW h, Piece(h, m)
  PROVE  \A k \in Nat : k <= n /\ k <= m => g[k] = h[k]
<1> DEFINE bad == {k \in Nat : k <= n /\ k <= m /\ g[k] # h[k]}
<1> SUFFICES ASSUME bad # {} PROVE FALSE
  OBVIOUS
<1>1. PICK k \in bad : \A j \in bad : k <= j
  BY LeastNatural
<1>2. k # 0 /\ k \in Nat /\ k <= n /\ k <= m /\ g[k] # h[k]
  BY <1>1 DEF Piece
<1>3. k - 1 \in Nat /\ k - 1 \notin bad
  BY <1>1, <1>2
<1>4. g[k - 1] = h[k - 1]
  BY <1>2, <1>3
<1>5. g[k] = 2 * g[k - 1] /\ h[k] = 2 * h[k - 1]
  BY <1>2 DEF Piece
<1> QED BY <1>2, <1>4, <1>5

(* The recursive function PowerOfTwo exists and satisfies its equation.     *)
LEMMA PowersOfTwo ==
  /\ PowerOfTwo[0] = 1
  /\ \A n \in Nat : PowerOfTwo[n] \in Nat \ {0} /\ PowerOfTwo[n + 1] = 2 * PowerOfTwo[n]
<1> DEFINE g(n) == CHOOSE q : Piece(q, n)
           f == [n \in Nat |-> g(n)[n]]
<1>1. \A n \in Nat : Piece(g(n), n)
  BY PieceExists
<1> HIDE DEF g
<1>2. f[0] = 1
  BY <1>1 DEF Piece
<1>3. ASSUME NEW n \in Nat, n # 0 PROVE f[n] = 2 * f[n - 1]
  <2>1. n - 1 \in Nat /\ n \in 1..n /\ n - 1 <= n
    BY <1>3
  <2>2. Piece(g(n), n) /\ Piece(g(n - 1), n - 1)
    BY <1>1, <2>1
  <2>3. g(n)[n - 1] = g(n - 1)[n - 1]
    BY <2>1, <2>2, PiecesAgree
  <2>4. g(n)[n] = 2 * g(n)[n - 1]
    BY <2>1, <2>2 DEF Piece
  <2> QED BY <2>1, <2>3, <2>4
<1>4. f = [n \in Nat |-> IF n = 0 THEN 1 ELSE 2 * f[n - 1]]
  BY <1>2, <1>3
<1> HIDE DEF f
<1>5. PowerOfTwo = [n \in Nat |-> IF n = 0 THEN 1 ELSE 2 * PowerOfTwo[n - 1]]
  BY <1>4 DEF PowerOfTwo
<1> DEFINE P == PowerOfTwo
<1>6. P[0] = 1 /\ \A n \in Nat : n # 0 => P[n] = 2 * P[n - 1]
  BY <1>5
<1> HIDE DEF P
<1>7. \A n \in Nat : P[n + 1] = 2 * P[n]
  <2> SUFFICES ASSUME NEW n \in Nat PROVE P[n + 1] = 2 * P[n]
    OBVIOUS
  <2>1. n + 1 \in Nat /\ n + 1 # 0 /\ (n + 1) - 1 = n
    OBVIOUS
  <2> QED BY <1>6, <2>1
<1>8. \A n \in Nat : P[n] \in Nat \ {0}
  <2> DEFINE bad == {n \in Nat : P[n] \notin Nat \ {0}}
  <2> SUFFICES ASSUME bad # {} PROVE FALSE
    OBVIOUS
  <2>1. PICK m \in bad : \A n \in bad : m <= n
    BY LeastNatural
  <2>2. m # 0 /\ m \in Nat
    BY <1>6, <2>1
  <2>3. m - 1 \in Nat /\ m - 1 \notin bad
    BY <2>1, <2>2
  <2>4. P[m - 1] \in Nat \ {0}
    BY <2>3
  <2>5. P[m] = 2 * P[m - 1]
    BY <1>6, <2>2
  <2> QED BY <2>1, <2>4, <2>5
<1> QED BY <1>6, <1>7, <1>8 DEF P

(* They grow. *)
LEMMA PowersGrow == \A m, n \in Nat : m <= n => PowerOfTwo[m] <= PowerOfTwo[n]
<1> DEFINE P == PowerOfTwo
<1> SUFFICES ASSUME NEW m \in Nat PROVE \A n \in Nat : m <= n => P[m] <= P[n]
  OBVIOUS
<1> DEFINE bad == {n \in Nat : m <= n /\ ~(P[m] <= P[n])}
<1> SUFFICES ASSUME bad # {} PROVE FALSE
  OBVIOUS
<1>1. PICK k \in bad : \A n \in bad : k <= n
  BY LeastNatural
<1>2. P[k] \in Nat /\ P[m] \in Nat /\ k \in Nat /\ m <= k /\ ~(P[m] <= P[k])
  BY <1>1, PowersOfTwo
<1>3. k # m
  BY <1>2
<1>4. k - 1 \in Nat /\ m <= k - 1 /\ k - 1 \notin bad
  BY <1>1, <1>2, <1>3
<1>5. P[m] <= P[k - 1] /\ P[k - 1] \in Nat
  BY <1>4, PowersOfTwo
<1>6. P[k] = 2 * P[k - 1]
  <2>1. (k - 1) + 1 = k
    BY <1>2
  <2> QED BY <1>4, <2>1, PowersOfTwo
<1> QED BY <1>2, <1>5, <1>6

(* The loop: the multiplier is the power of two for the rounds made, or the*)
(* cap, when the power for all of them is beyond it.                       *)
BackoffLoop ==
  /\ policy \in [strategy : Strategies, base : Nat, maxDelay : Nat, jitter : BOOLEAN]
  /\ try \in Nat \ {0}
  /\ doubled \in 1..try
  /\ \/ multiplier = PowerOfTwo[doubled - 1] /\ multiplier <= MultiplierCap
     \/ multiplier = MultiplierCap /\ doubled = try /\ PowerOfTwo[try - 1] > MultiplierCap

BackoffInv == BackoffLoop /\ BackoffIsRight

(* No round has been made and nothing delivered. *)
LEMMA InitBackoff == BackoffInit => BackoffInv
<1> SUFFICES ASSUME BackoffInit PROVE BackoffInv
  OBVIOUS
<1>1. try \in Nat \ {0}
  BY BackoffAssumption DEF BackoffInit
<1>2. BackoffLoop
  BY <1>1, BackoffAssumption, PowersOfTwo DEF BackoffInit, BackoffLoop
<1>3. BackoffIsRight
  BY DEF BackoffInit, BackoffIsRight
<1> QED BY <1>2, <1>3 DEF BackoffInv

(* A round of the loop. *)
LEMMA DoubleStep == ASSUME BackoffInv, Double PROVE BackoffInv'
<1>1. /\ policy' = policy /\ try' = try /\ delay' = delay /\ delay = Unknown
      /\ doubled < try
      /\ IF multiplier * 2 > MultiplierCap
           THEN multiplier' = MultiplierCap /\ doubled' = try
           ELSE multiplier' = multiplier * 2 /\ doubled' = doubled + 1
  BY DEF Double, Doubling
<1>2. /\ try \in Nat \ {0} /\ doubled \in 1..try /\ MultiplierCap \in Nat
      /\ multiplier = PowerOfTwo[doubled - 1]
  BY <1>1, BackoffAssumption DEF BackoffInv, BackoffLoop
<1>3. PowerOfTwo[doubled] = 2 * multiplier /\ multiplier \in Nat
  <2>1. doubled - 1 \in Nat /\ (doubled - 1) + 1 = doubled
    BY <1>2
  <2> QED BY <1>2, <2>1, PowersOfTwo
<1>4. CASE multiplier * 2 > MultiplierCap
  <2>1. PowerOfTwo[doubled] <= PowerOfTwo[try - 1] /\ PowerOfTwo[try - 1] \in Nat
    <3>1. doubled \in Nat /\ try - 1 \in Nat /\ doubled <= try - 1
      BY <1>1, <1>2
    <3> QED BY <3>1, PowersGrow, PowersOfTwo
  <2>2. PowerOfTwo[try - 1] > MultiplierCap
    BY <1>2, <1>3, <1>4, <2>1
  <2> QED BY <1>1, <1>2, <1>4, <2>2 DEF BackoffInv, BackoffLoop, BackoffIsRight, Unknown
<1>5. CASE ~(multiplier * 2 > MultiplierCap)
  <2>1. doubled' \in 1..try /\ doubled' - 1 = doubled
    BY <1>1, <1>2, <1>5
  <2>2. multiplier' = PowerOfTwo[doubled' - 1] /\ multiplier' <= MultiplierCap
    BY <1>1, <1>2, <1>3, <1>5, <2>1
  <2> QED BY <1>1, <2>1, <2>2 DEF BackoffInv, BackoffLoop, BackoffIsRight, Unknown
<1> QED BY <1>4, <1>5

(* What is delivered: the factor is the strategy's growth, or the cap, when*)
(* that is smaller.                                                        *)
LEMMA DeliverStep == ASSUME BackoffInv, Deliver PROVE BackoffInv'
<1> DEFINE growth == Growth(policy.strategy, try)  base == policy.base  limit == policy.maxDelay
           exact == base * growth
           want == IF limit > 0 /\ exact > limit THEN limit ELSE exact
           fits == /\ base * Factor < IntLimit
                   /\ growth <= MultiplierCap \/ (limit > 0 /\ limit <= base * MultiplierCap)
<1>1. /\ UNCHANGED <<policy, try, doubled, multiplier>>
      /\ delay' \in IF policy.jitter /\ Clamped > 0 THEN 0..(Clamped - 1) ELSE {Clamped}
      /\ policy.strategy = "exponential" => doubled >= try
  <2>1. delay = Unknown /\ ~Doubling
    BY DEF Deliver
  <2>2. policy.strategy = "exponential" => ~(doubled < try)
    BY <2>1 DEF Doubling
  <2>3. doubled \in Nat /\ try \in Nat
    BY DEF BackoffInv, BackoffLoop
  <2> QED BY <2>2, <2>3 DEF Deliver
<1>2. /\ policy.strategy \in Strategies /\ base \in Nat /\ limit \in Nat /\ try \in Nat \ {0}
      /\ MultiplierCap \in Nat \ {0} /\ IntLimit \in Nat \ {0}
  BY BackoffAssumption DEF BackoffInv, BackoffLoop
<1>3. Factor \in Nat /\ growth \in Nat
      /\ (Factor = growth \/ (Factor = MultiplierCap /\ growth > MultiplierCap))
  <2>1. CASE policy.strategy = "constant"
    BY <1>2, <2>1 DEF Factor, Growth
  <2>2. CASE policy.strategy = "linear"
    BY <1>2, <2>2 DEF Factor, Growth
  <2>3. CASE policy.strategy = "exponential"
    <3>1. doubled = try /\ try - 1 \in Nat
      BY <1>1, <1>2, <2>3 DEF BackoffInv, BackoffLoop
    <3>2. Factor = multiplier /\ growth = PowerOfTwo[try - 1] /\ growth \in Nat
      BY <2>3, <3>1, PowersOfTwo DEF Factor, Growth
    <3>3. multiplier = growth \/ (multiplier = MultiplierCap /\ growth > MultiplierCap)
      BY <3>1, <3>2 DEF BackoffInv, BackoffLoop
    <3> QED BY <1>2, <3>2, <3>3
  <2> QED BY <1>2, <2>1, <2>2, <2>3 DEF Strategies
<1> DEFINE product == base * Factor
<1>4. product \in Nat /\ exact \in Nat /\ Wrap(product) \in Int
  <2>1. product \in Nat /\ exact \in Nat
    BY <1>2, <1>3
  <2> HIDE DEF product, growth, base, limit
  <2>2. (product + IntLimit) % (2 * IntLimit) \in Int
    BY <1>2, <2>1
  <2> QED BY <1>2, <2>1, <2>2 DEF Wrap
<1>5. product < IntLimit => Wrap(product) = product
  <2> SUFFICES ASSUME product < IntLimit PROVE Wrap(product) = product
    OBVIOUS
  <2> HIDE DEF product
  <2>1. product + IntLimit \in 0..(2 * IntLimit - 1) /\ 2 * IntLimit \in Nat \ {0}
    BY <1>2, <1>4
  <2>2. (product + IntLimit) % (2 * IntLimit) = product + IntLimit
    BY <2>1
  <2> QED BY <1>2, <1>4, <2>2 DEF Wrap
<1>6. Clamped = IF limit > 0 /\ Wrap(product) > limit THEN limit ELSE Wrap(product)
  BY DEF Clamped
<1>7. fits => Clamped = want
  <2> SUFFICES ASSUME fits PROVE Clamped = want
    OBVIOUS
  <2>1. Wrap(product) = product
    BY <1>5
  <2>2. CASE Factor = growth
    BY <1>6, <2>1, <2>2
  <2>3. CASE Factor = MultiplierCap /\ growth > MultiplierCap
    <3>1. limit > 0 /\ limit <= product
      BY <1>2, <1>3, <2>3
    <3>2. product <= exact
      <4> HIDE DEF growth, base
      <4>1. \A a, b, c \in Nat : b <= c => a * b <= a * c
        OBVIOUS
      <4> QED BY <1>2, <1>3, <2>3, <4>1
    <3> HIDE DEF product, exact, limit
    <3> QED BY <1>2, <1>4, <1>6, <2>1, <3>1, <3>2
  <2> QED BY <1>3, <2>2, <2>3
<1>8. limit > 0 => Clamped <= limit /\ Clamped \in Int
  <2> HIDE DEF product, limit
  <2> QED BY <1>2, <1>4, <1>6
<1>9. limit > 0 => delay' <= limit
  <2> HIDE DEF limit
  <2> QED BY <1>1, <1>2, <1>8
<1>10. fits => IF policy.jitter /\ want > 0 THEN delay' \in 0..(want - 1) ELSE delay' = want
  <2> HIDE DEF fits, want
  <2> QED BY <1>1, <1>7
<1>11. BackoffLoop'
  BY <1>1 DEF BackoffInv, BackoffLoop
<1>12. Factor' = Factor
  BY <1>1 DEF Factor
<1>13. BackoffIsRight'
  BY <1>1, <1>9, <1>10, <1>12 DEF BackoffIsRight
<1> QED BY <1>11, <1>13 DEF BackoffInv

(* Every delay is the one the strategy means, limited by MaxDelay, for     *)
(* every policy, every number of attempts and every width of an integer.   *)
THEOREM DelaysAreRight == BackoffSpec => []BackoffIsRight
<1>1. BackoffInv /\ [BackoffNext]_backoffVars => BackoffInv'
  <2>1. ASSUME BackoffInv, UNCHANGED backoffVars PROVE BackoffInv'
    BY <2>1 DEF backoffVars, BackoffInv, BackoffLoop, BackoffIsRight, Factor, Unknown
  <2> QED BY <2>1, DoubleStep, DeliverStep DEF BackoffNext
<1>2. BackoffInv => BackoffIsRight
  BY DEF BackoffInv
<1> QED BY <1>1, <1>2, InitBackoff, PTL DEF BackoffSpec
=============================================================================
