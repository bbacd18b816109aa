------------------------------ MODULE Lifecycle ------------------------------
(***************************************************************************)
(* The lifecycle manager of core/lifecycle/manager.go: the state of the     *)
(* runtime, moved by Transition under the rules of its table and by the     *)
(* health reports of components, which store the state themselves.  Every   *)
(* method is one critical section.  The callers are in module Runtime.      *)
(***************************************************************************)
CONSTANTS
  Components,     \* what reports its health
  DegradedReady   \* the AcceptWhenDegraded setting

ASSUME DegradedReadyAssumption == DegradedReady \in BOOLEAN

VARIABLES
  lstate,    \* stateVal
  health,    \* components: the last report of each, "none" before the first
  cooling    \* less than the cooldown has passed since lastRestart

lifecycleVars == <<lstate, health, cooling>>

LifecycleStates == {"UNINITIALIZED", "BOOTING", "READY", "RUNNING", "DEGRADED", "DRAINING",
                    "STOPPED", "FAILED"}
Serving == {"READY", "RUNNING", "DEGRADED"}

LifecycleInit ==
  /\ lstate = "UNINITIALIZED"
  /\ health = [c \in Components |-> "none"]
  /\ cooling = FALSE

(* Mutant: a failed runtime may be shut down. *)
SuccessorsDrainFailed(from) ==
  CASE from = "UNINITIALIZED" -> {"BOOTING"}
    [] from = "BOOTING"       -> {"READY", "FAILED"}
    [] from = "READY"         -> {"RUNNING", "DRAINING", "FAILED"}
    [] from = "RUNNING"       -> {"DEGRADED", "FAILED", "DRAINING"}
    [] from = "DEGRADED"      -> {"RUNNING", "FAILED", "DRAINING"}
    [] from = "DRAINING"      -> {"STOPPED"}
    [] from = "FAILED"        -> {"BOOTING", "DRAINING"}
    [] OTHER                  -> {}

(* The table of Transition *)
Successors(from) ==
  CASE from = "UNINITIALIZED" -> {"BOOTING"}
    [] from = "BOOTING"       -> {"READY", "FAILED"}
    [] from = "READY"         -> {"RUNNING", "DRAINING", "FAILED"}
    [] from = "RUNNING"       -> {"DEGRADED", "FAILED", "DRAINING"}
    [] from = "DEGRADED"      -> {"RUNNING", "FAILED", "DRAINING"}
    [] from = "DRAINING"      -> {"STOPPED"}
    [] from = "FAILED"        -> {"BOOTING"}
    [] OTHER                  -> {}

Legal(to) == to = lstate \/ to \in Successors(lstate)

(* Transition(to); when it is not legal it returns an error and nothing     *)
(* changes.                                                                 *)
Transition(to) ==
  /\ lstate' = IF Legal(to) THEN to ELSE lstate
  /\ health' = IF to = "BOOTING" /\ to \in Successors(lstate)
                 THEN [c \in Components |-> "none"] ELSE health
  /\ UNCHANGED cooling

IsReady == lstate \in {"READY", "RUNNING"} \/ (lstate = "DEGRADED" /\ DegradedReady)

(* CheckRestartCooldown, once it has found that the cooldown is over *)
StartCooldown == cooling' = TRUE /\ UNCHANGED <<lstate, health>>

CooldownEnds == cooling /\ cooling' = FALSE /\ UNCHANGED <<lstate, health>>

(* Mutant: a fatal report fails the runtime in any state. *)
FatalAlwaysFails(fatal) ==
  IF fatal THEN "FAILED"
    ELSE IF lstate \in {"READY", "RUNNING"} THEN "DEGRADED" ELSE lstate

(* ReportComponentHealth: ignored while draining or stopped. *)
AfterFailure(fatal) ==   \* handleComponentFailure
  IF fatal
    THEN IF lstate \in Serving \cup {"BOOTING"} THEN "FAILED" ELSE lstate
    ELSE IF lstate \in {"READY", "RUNNING"} THEN "DEGRADED" ELSE lstate

(* Mutant: health reports revive a failed runtime. *)
RecoverFailed(reports) ==
  IF lstate \in {"DEGRADED", "FAILED"} /\ \A c \in Components : reports[c] # "unhealthy"
    THEN "RUNNING" ELSE lstate

AfterRecovery(reports) ==   \* handleComponentRecovery
  IF lstate = "DEGRADED" /\ \A c \in Components : reports[c] # "unhealthy"
    THEN "RUNNING" ELSE lstate

ReportFailure(c, fatal) ==
  /\ lstate \notin {"DRAINING", "STOPPED"}
  /\ health' = [health EXCEPT ![c] = "unhealthy"]
  /\ lstate' = AfterFailure(fatal)
  /\ UNCHANGED cooling

(* Mutant: the components are looked at before the report is stored. *)
ReportHealthyLate(c) ==
  /\ lstate \notin {"DRAINING", "STOPPED"}
  /\ health' = [health EXCEPT ![c] = "healthy"]
  /\ lstate' = AfterRecovery(health)
  /\ UNCHANGED cooling

ReportHealthy(c) ==
  /\ lstate \notin {"DRAINING", "STOPPED"}
  /\ health' = [health EXCEPT ![c] = "healthy"]
  /\ lstate' = AfterRecovery(health')
  /\ UNCHANGED cooling
=============================================================================
