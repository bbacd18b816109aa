------------------------------- MODULE Runtime -------------------------------
(***************************************************************************)
(* core/runtime.go over the lifecycle manager and a sequence of execution   *)
(* managers: Initialize, Restart and Shutdown, which exclude each other     *)
(* (r.mu), against clients in Execute, which takes no lock, and against     *)
(* components that report their health.  Each successful bootstrap makes a  *)
(* new execution manager; of a manager only what the runtime can tell is    *)
(* kept: whether its shutdown channel is closed, whether its loop has       *)
(* returned, and for each client whether its execution is queued, in the    *)
(* scheduler's hand, or holds a slot (ExecutionManager has the detail).     *)
(***************************************************************************)
EXTENDS Lifecycle, Integers, FiniteSets

CONSTANTS
  Clients,       \* callers of Execute, one call each
  MaxManagers,   \* bound: how many execution managers a run makes
  GlobalLimit    \* the slots of a manager

ASSUME RuntimeAssumption ==
  MaxManagers \in Nat \ {0} /\ GlobalLimit \in Nat \ {0} /\ IsFiniteSet(Clients)

VARIABLES
  op,        \* the step of the call that holds r.mu, "none" if nobody does
  current,   \* r.execution, numbered by age; 0 while it is nil
  made,      \* how many managers have been made
  closed,    \* managers whose shutdownChan is closed
  stopped,   \* managers whose schedulerLoop has returned
  bus,       \* r.events is not nil
  panicked,  \* a nil event bus was used or a closed channel closed again
  client,    \* where each Execute is
  manager,   \* the execution manager it has read from r.execution
  promote    \* the end of Submit: the promotion of READY to RUNNING

runtimeVars == <<current, made, closed, stopped, bus>>
clientVars  == <<client, manager, promote>>
vars == <<lstate, health, cooling, op, current, made, closed, stopped, bus,
          panicked, client, manager, promote>>

Init ==
  /\ LifecycleInit
  /\ op = "none"
  /\ current = 0 /\ made = 0 /\ closed = {} /\ stopped = {}
  /\ bus = FALSE /\ panicked = FALSE
  /\ client = [c \in Clients |-> "idle"]
  /\ manager = [c \in Clients |-> 0]
  /\ promote = [c \in Clients |-> "no"]

At(m, place) == {c \in Clients : manager[c] = m /\ client[c] = place}
ActiveCount(m) == Cardinality(At(m, "running"))

-----------------------------------------------------------------------------
(* The bootstrap shared by Initialize and Restart.                         *)

InitializeBegin ==
  /\ op = "none" /\ lstate = "UNINITIALIZED"
  /\ Transition("BOOTING")
  /\ op' = "load"
  /\ UNCHANGED <<runtimeVars, panicked, clientVars>>

Load ==   \* LoadConfig; then logger, event bus and telemetry
  /\ op = "load"
  /\ \/ Transition("FAILED") /\ op' = "none" /\ UNCHANGED bus
     \/ op' = "build" /\ bus' = TRUE /\ UNCHANGED lifecycleVars
  /\ UNCHANGED <<current, made, closed, stopped, panicked, clientVars>>

Build ==   \* provider registry, pipeline validation, new execution manager
  /\ op = "build"
  /\ \/ Transition("FAILED") /\ op' = "none" /\ UNCHANGED <<current, made>>
     \/ /\ made < MaxManagers
        /\ made' = made + 1 /\ current' = made + 1
        /\ op' = "ready"
        /\ UNCHANGED lifecycleVars
  /\ UNCHANGED <<closed, stopped, bus, panicked, clientVars>>

BecomeReady ==   \* refused when a fatal report came in meanwhile
  /\ op = "ready"
  /\ Transition("READY")
  /\ op' = "none"
  /\ UNCHANGED <<runtimeVars, panicked, clientVars>>

(* Restart.  Within the cooldown it is rejected and nothing changes.  It    *)
(* publishes an event either way, on a bus that LoadConfig's failure in     *)
(* Initialize leaves nil.                                                   *)
RestartBegin ==
  /\ op = "none" /\ lstate = "FAILED" /\ ~cooling
  /\ StartCooldown
  /\ IF bus THEN op' = "reboot" /\ UNCHANGED panicked
            ELSE panicked' = TRUE /\ UNCHANGED op
  /\ UNCHANGED <<runtimeVars, clientVars>>

Reboot ==
  /\ op = "reboot"
  /\ Transition("BOOTING")
  /\ op' = "close"
  /\ UNCHANGED <<runtimeVars, panicked, clientVars>>

(* Mutant: the old manager is left open. *)
LeaveOpen(next) ==
  /\ op' = next
  /\ UNCHANGED <<lifecycleVars, runtimeVars, panicked, clientVars>>

(* execution.Shutdown() of the current manager, if there is one *)
CloseManager(next) ==
  /\ closed' = IF current = 0 THEN closed ELSE closed \cup {current}
  /\ panicked' = (current \in closed)
  /\ op' = next
  /\ UNCHANGED <<lifecycleVars, current, made, stopped, bus, clientVars>>

RestartClose  == op = "close" /\ CloseManager("load")
ShutdownClose == op = "drainClose" /\ CloseManager("drain")

ShutdownBegin ==
  /\ op = "none" /\ "DRAINING" \in Successors(lstate)
  /\ Transition("DRAINING")
  /\ op' = "drainClose"
  /\ UNCHANGED <<runtimeVars, panicked, clientVars>>

DrainTick ==   \* the ticker finds nothing active
  /\ op = "drain" /\ ActiveCount(current) = 0
  /\ op' = "stop"
  /\ UNCHANGED <<lifecycleVars, runtimeVars, panicked, clientVars>>

(* Mutant: the timeout returns before the last transition. *)
DrainAborted ==
  /\ op = "drain"
  /\ op' = "none"
  /\ UNCHANGED <<lifecycleVars, runtimeVars, panicked, clientVars>>

DrainTimeout ==   \* the shutdown timeout or the caller's context
  /\ op = "drain"
  /\ op' = "stop"
  /\ UNCHANGED <<lifecycleVars, runtimeVars, panicked, clientVars>>

ShutdownEnd ==
  /\ op = "stop"
  /\ Transition("STOPPED")
  /\ op' = "none"
  /\ UNCHANGED <<runtimeVars, panicked, clientVars>>

-----------------------------------------------------------------------------
(* Execute: r.execution is read without r.mu, then Submit checks readiness, *)
(* registers and queues, and at last promotes READY to RUNNING.             *)

Move(c, from, to) == client[c] = from /\ client' = [client EXCEPT ![c] = to]

ReadManager(c) ==
  /\ Move(c, "idle", IF current = 0 THEN "rejected" ELSE "fetched")
  /\ manager' = [manager EXCEPT ![c] = current]
  /\ UNCHANGED <<lifecycleVars, op, runtimeVars, panicked, promote>>

CheckReady(c) ==
  /\ Move(c, "fetched", IF IsReady THEN "accepted" ELSE "rejected")
  /\ UNCHANGED <<lifecycleVars, op, runtimeVars, panicked, manager, promote>>

Enqueue(c) ==
  /\ Move(c, "accepted", "queued")
  /\ promote' = [promote EXCEPT ![c] = "due"]
  /\ UNCHANGED <<lifecycleVars, op, runtimeVars, panicked, manager>>

PromoteCheck(c) ==
  /\ promote[c] = "due"
  /\ promote' = [promote EXCEPT ![c] = IF lstate = "READY" THEN "sawReady" ELSE "no"]
  /\ UNCHANGED <<lifecycleVars, op, runtimeVars, panicked, client, manager>>

Promote(c) ==
  /\ promote[c] = "sawReady"
  /\ promote' = [promote EXCEPT ![c] = "no"]
  /\ Transition("RUNNING")
  /\ UNCHANGED <<op, runtimeVars, panicked, client, manager>>

(* The manager's side, in the steps that matter to ActiveCount. *)
Pick(c) ==
  /\ Move(c, "queued", "picked")
  /\ manager[c] \notin stopped
  /\ At(manager[c], "picked") = {} /\ ActiveCount(manager[c]) < GlobalLimit
  /\ UNCHANGED <<lifecycleVars, op, runtimeVars, panicked, manager, promote>>

Acquire(c) ==
  /\ Move(c, "picked", "running")
  /\ UNCHANGED <<lifecycleVars, op, runtimeVars, panicked, manager, promote>>

Finish(c) ==
  /\ Move(c, "running", "finished")
  /\ UNCHANGED <<lifecycleVars, op, runtimeVars, panicked, manager, promote>>

LoopReturns(m) ==
  /\ m \in closed \ stopped /\ At(m, "picked") = {}
  /\ stopped' = stopped \cup {m}
  /\ UNCHANGED <<lifecycleVars, op, current, made, closed, bus, panicked, clientVars>>

-----------------------------------------------------------------------------
Operation ==
  \/ Load \/ Build \/ BecomeReady \/ Reboot \/ RestartClose
  \/ ShutdownClose \/ DrainTick \/ DrainTimeout \/ ShutdownEnd

Request == InitializeBegin \/ RestartBegin \/ ShutdownBegin

ClientStep(c) ==
  \/ CheckReady(c) \/ Enqueue(c) \/ PromoteCheck(c) \/ Promote(c)

ManagerStep ==
  \/ \E c \in Clients : Pick(c) \/ Acquire(c) \/ Finish(c)
  \/ \E m \in closed : LoopReturns(m)

Environment ==
  /\ \/ \E c \in Components : ReportHealthy(c) \/ \E fatal \in BOOLEAN : ReportFailure(c, fatal)
     \/ CooldownEnds
  /\ UNCHANGED <<op, runtimeVars, panicked, clientVars>>

Next ==
  /\ ~panicked
  /\ \/ Operation \/ Request \/ ManagerStep \/ Environment
     \/ \E c \in Clients : ReadManager(c) \/ ClientStep(c)

Spec == Init /\ [][Next]_vars

(* The call that holds r.mu goes on, the drain timeout ends it at the       *)
(* latest; a Submit under way and the managers' goroutines go on.           *)
Fairness ==
  /\ WF_vars(~panicked /\ Operation)
  /\ WF_vars(~panicked /\ DrainTimeout)
  /\ \A c \in Clients : /\ WF_vars(~panicked /\ ClientStep(c))
                        /\ WF_vars(~panicked /\ Pick(c))
                        /\ WF_vars(~panicked /\ (Acquire(c) \/ Finish(c)))

FairSpec == Spec /\ Fairness

-----------------------------------------------------------------------------
(* Every variable keeps its type; a manager is closed only once it is made,  *)
(* and its loop returns only once it is closed.                             *)
TypeOK ==
  /\ lstate \in LifecycleStates
  /\ health \in [Components -> {"none", "healthy", "unhealthy"}]
  /\ cooling \in BOOLEAN
  /\ op \in {"none", "load", "build", "ready", "reboot", "close", "drainClose", "drain", "stop"}
  /\ made \in 0..MaxManagers /\ current \in 0..made
  /\ closed \subseteq 1..made /\ stopped \subseteq closed
  /\ bus \in BOOLEAN /\ panicked \in BOOLEAN
  /\ client \in [Clients -> {"idle", "fetched", "accepted", "rejected", "queued", "picked",
                             "running", "finished"}]
  /\ manager \in [Clients -> 0..made]
  /\ promote \in [Clients -> {"no", "due", "sawReady"}]

(* While the runtime says it serves, the manager it hands out is open: the  *)
(* failed restarts and late health reports that leave a closed one behind   *)
(* never lead back to service.                                              *)
ServingIsOpen == lstate \in Serving => current # 0 /\ current \notin closed

(* Restarts never leave two open managers, so two loops never dispatch new  *)
(* submissions at once.                                                     *)
OneOpenManager == \A m \in 1..made : m \notin closed => m = current

(* Shutdown never closes a closed channel; only Restart can.                *)
ShutdownIsSafe == op = "drainClose" => current \notin closed

(* The state moves along the table of Transition, whoever moves it, but for *)
(* one edge the health reports add, READY to DEGRADED.  So a runtime that   *)
(* drains is never revived, and FAILED is left only by a restart.           *)
LegalMoves ==
  [][lstate' # lstate =>
       lstate' \in Successors(lstate) \/ (lstate = "READY" /\ lstate' = "DEGRADED")]_vars

(* DEGRADED always has its reason: some component's last report is bad.     *)
DegradedHasReason == lstate = "DEGRADED" => \E c \in Components : health[c] = "unhealthy"

(* A Shutdown that has begun ends in STOPPED, whatever is still running.    *)
ShutdownCompletes == op = "drainClose" ~> lstate = "STOPPED"

=============================================================================
