--------------------------- MODULE Runtime_proofs ---------------------------
(***************************************************************************)
(* Proofs about Runtime, for any number of clients, components and         *)
(* restarts, and about the parts of the core that no other part's state    *)
(* depends on: what LoadConfig accepts, the context layers and the wire,   *)
(* and the session store with its merge.                                   *)
(***************************************************************************)
EXTENDS Runtime, Configuration, Contexts, Sessions, Sums, TLAPS

(* Where each call that holds r.mu is with respect to the lifecycle state   *)
(* and the managers.  Between its BOOTING and its READY a bootstrap has     *)
(* closed every older manager; a fatal report can turn BOOTING into FAILED  *)
(* under it.                                                                *)
Phases ==
  /\ lstate = "UNINITIALIZED" => op = "none" /\ made = 0
  /\ lstate = "BOOTING" => op \in {"close", "load", "build", "ready"}
  /\ op = "reboot" => lstate = "FAILED"
  /\ op \in {"close", "load", "build", "ready"} => lstate \in {"BOOTING", "FAILED"}
  /\ op \in {"load", "build"} => \A m \in 1..made : m \in closed
  /\ op = "ready" => current # 0 /\ current \notin closed
  /\ op \in {"drainClose", "drain", "stop"} => lstate = "DRAINING"

IInv == TypeOK /\ Phases /\ ServingIsOpen /\ OneOpenManager /\ ShutdownIsSafe

USE DegradedReadyAssumption, RuntimeAssumption DEF LifecycleStates, Serving

(* A new runtime satisfies the invariant. *)
LEMMA InitInv == Init => IInv
<1> SUFFICES ASSUME Init PROVE IInv
  OBVIOUS
<1> USE DEF Init, LifecycleInit
<1>1. TypeOK
  <2>1. /\ lstate \in LifecycleStates /\ op = "none"
        /\ made \in 0..MaxManagers /\ current \in 0..made
        /\ closed \subseteq 1..made /\ stopped \subseteq closed
    OBVIOUS
  <2>2. /\ cooling \in BOOLEAN /\ bus \in BOOLEAN
        /\ panicked \in BOOLEAN
    OBVIOUS
  <2>3. /\ health \in [Components -> {"none", "healthy", "unhealthy"}]
        /\ client \in [Clients -> {"idle", "fetched", "accepted", "rejected", "queued",
                                  "picked", "running", "finished"}]
        /\ promote \in [Clients -> {"no", "due", "sawReady"}]
    OBVIOUS
  <2>4. manager \in [Clients -> 0..made]
    OBVIOUS
  <2> QED BY <2>1, <2>2, <2>3, <2>4 DEF TypeOK
<1>2. Phases /\ ServingIsOpen /\ OneOpenManager /\ ShutdownIsSafe
  BY DEF Phases, ServingIsOpen, OneOpenManager, ShutdownIsSafe
<1> QED BY <1>1, <1>2 DEF IInv

(* Steps of a client or of a manager's goroutines leave alone what the      *)
(* invariant is about, types aside.                                         *)
LEMMA Untouched ==
  ASSUME IInv, TypeOK', UNCHANGED <<lstate, op, current, made, closed>>
  PROVE  IInv'
  BY DEF IInv, Phases, ServingIsOpen, OneOpenManager, ShutdownIsSafe

(* Each step of Initialize, Restart and Shutdown preserves the invariant. *)
LEMMA OperationInv ==
  ASSUME IInv, Operation
  PROVE  IInv'
<1> USE DEF IInv, TypeOK, Phases, ServingIsOpen, OneOpenManager, ShutdownIsSafe,
            runtimeVars, clientVars, lifecycleVars
<1>1. CASE Load
  BY <1>1 DEF Load, Transition, Legal, Successors
<1>2. CASE Build
  BY <1>2 DEF Build, Transition, Legal, Successors
<1>3. CASE BecomeReady
  BY <1>3 DEF BecomeReady, Transition, Legal, Successors
<1>4. CASE Reboot
  BY <1>4 DEF Reboot, Transition, Legal, Successors
<1>5. CASE RestartClose
  BY <1>5 DEF RestartClose, CloseManager
<1>6. CASE ShutdownClose
  BY <1>6 DEF ShutdownClose, CloseManager
<1>7. CASE DrainTick \/ DrainTimeout
  BY <1>7 DEF DrainTick, DrainTimeout
<1>8. CASE ShutdownEnd
  BY <1>8 DEF ShutdownEnd, Transition, Legal, Successors
<1> QED BY <1>1, <1>2, <1>3, <1>4, <1>5, <1>6, <1>7, <1>8 DEF Operation

(* The begin of such a call preserves the invariant. *)
LEMMA RequestInv ==
  ASSUME IInv, Request
  PROVE  IInv'
<1> USE DEF IInv, TypeOK, Phases, ServingIsOpen, OneOpenManager, ShutdownIsSafe,
            runtimeVars, clientVars, lifecycleVars
<1>1. CASE InitializeBegin
  BY <1>1 DEF InitializeBegin, Transition, Legal, Successors
<1>2. CASE RestartBegin
  BY <1>2 DEF RestartBegin, StartCooldown
<1>3. CASE ShutdownBegin
  BY <1>3 DEF ShutdownBegin, Transition, Legal, Successors
<1> QED BY <1>1, <1>2, <1>3 DEF Request

(* Clients preserve the invariant: a promotion needs a serving lifecycle. *)
LEMMA ClientInv ==
  ASSUME IInv, NEW c \in Clients, ReadManager(c) \/ ClientStep(c)
  PROVE  IInv'
<1> USE DEF runtimeVars, clientVars, lifecycleVars
<1>1. CASE ReadManager(c) \/ CheckReady(c) \/ Enqueue(c) \/ PromoteCheck(c)
  <2>1. UNCHANGED <<lstate, op, current, made, closed>>
    BY <1>1 DEF ReadManager, CheckReady, Enqueue, PromoteCheck
  <2>2. TypeOK'
    <3> USE DEF IInv, TypeOK, Move
    <3>1. CASE ReadManager(c)
      BY <3>1 DEF ReadManager
    <3>2. CASE CheckReady(c)
      BY <3>2 DEF CheckReady
    <3>3. CASE Enqueue(c)
      BY <3>3 DEF Enqueue
    <3>4. CASE PromoteCheck(c)
      BY <3>4 DEF PromoteCheck
    <3> QED BY <1>1, <3>1, <3>2, <3>3, <3>4
  <2> QED BY <2>1, <2>2, Untouched
<1>2. CASE Promote(c)
  BY <1>2 DEF Promote, Transition, Legal, Successors,
              IInv, TypeOK, Phases, ServingIsOpen, OneOpenManager, ShutdownIsSafe
<1> QED BY <1>1, <1>2 DEF ClientStep

(* The goroutines of the managers preserve the invariant. *)
LEMMA ManagerInv ==
  ASSUME IInv, ManagerStep
  PROVE  IInv'
<1> USE DEF runtimeVars, clientVars, lifecycleVars
<1>1. UNCHANGED <<lstate, op, current, made, closed>>
  BY DEF ManagerStep, Pick, Acquire, Finish, LoopReturns
<1>2. TypeOK'
  <2> USE DEF IInv, TypeOK, Move
  <2>1. ASSUME NEW c \in Clients, Pick(c)
        PROVE  TypeOK'
    BY <2>1 DEF Pick
  <2>2. ASSUME NEW c \in Clients, Acquire(c) \/ Finish(c)
        PROVE  TypeOK'
    <3>1. CASE Acquire(c)
      BY <3>1 DEF Acquire
    <3>2. CASE Finish(c)
      BY <3>2 DEF Finish
    <3> QED BY <2>2, <3>1, <3>2
  <2>3. ASSUME NEW m \in closed, LoopReturns(m)
        PROVE  TypeOK'
    BY <2>3 DEF LoopReturns
  <2> QED BY <2>1, <2>2, <2>3 DEF ManagerStep
<1> QED BY <1>1, <1>2, Untouched

(* Health reports and the cooldown preserve the invariant. *)
LEMMA EnvironmentInv ==
  ASSUME IInv, Environment
  PROVE  IInv'
<1> USE DEF IInv, TypeOK, Phases, ServingIsOpen, OneOpenManager, ShutdownIsSafe,
            runtimeVars, clientVars, Environment
<1>1. ASSUME NEW c \in Components, NEW fatal \in BOOLEAN, ReportFailure(c, fatal)
      PROVE  IInv'
  BY <1>1 DEF ReportFailure, AfterFailure
<1>2. ASSUME NEW c \in Components, ReportHealthy(c)
      PROVE  IInv'
  BY <1>2 DEF ReportHealthy, AfterRecovery
<1>3. CASE CooldownEnds
  BY <1>3 DEF CooldownEnds
<1> QED BY <1>1, <1>2, <1>3

(* The invariant is inductive. *)
LEMMA NextInv == IInv /\ [Next]_vars => IInv'
<1> SUFFICES ASSUME IInv, [Next]_vars PROVE IInv'
  OBVIOUS
<1>1. CASE UNCHANGED vars
  BY <1>1 DEF vars, IInv, TypeOK, Phases, ServingIsOpen, OneOpenManager, ShutdownIsSafe
<1> QED BY <1>1, OperationInv, RequestInv, ClientInv, ManagerInv, EnvironmentInv DEF Next

(* The inductive invariant holds in every reachable state. *)
THEOREM Inductive == Spec => []IInv
  BY InitInv, NextInv, PTL DEF Spec

(* A runtime that says it serves has an open execution manager. *)
THEOREM ServiceHasManager == Spec => []ServingIsOpen
  BY Inductive, PTL DEF IInv

(* Restarts leave at most one manager open. *)
THEOREM NoTwoManagers == Spec => []OneOpenManager
  BY Inductive, PTL DEF IInv

(* Shutdown closes each manager's channel at most once. *)
THEOREM ShutdownClosesOnce == Spec => []ShutdownIsSafe
  BY Inductive, PTL DEF IInv

-----------------------------------------------------------------------------
(* How one step moves the lifecycle state, and what it does to the reports. *)

(* What a step can do to the lifecycle state and to the reports. *)
LEMMA StateMoves ==
  ASSUME IInv, [Next]_vars
  PROVE  \/ UNCHANGED <<lstate, health>>
         \/ lstate' # "DEGRADED" /\ (lstate' # lstate => lstate' \in Successors(lstate))
         \/ Environment
<1> USE DEF runtimeVars, clientVars, lifecycleVars
<1>1. ASSUME NEW to \in LifecycleStates \ {"DEGRADED"}, Transition(to)
      PROVE  \/ UNCHANGED <<lstate, health>>
             \/ lstate' # "DEGRADED" /\ (lstate' # lstate => lstate' \in Successors(lstate))
  BY <1>1 DEF Transition, Legal
<1>2. CASE Operation
  BY <1>2, <1>1 DEF Operation, Load, Build, BecomeReady, Reboot, RestartClose, ShutdownClose,
                    CloseManager, DrainTick, DrainTimeout, ShutdownEnd
<1>3. CASE Request
  BY <1>3, <1>1 DEF Request, InitializeBegin, RestartBegin, StartCooldown, ShutdownBegin
<1>4. ASSUME NEW c \in Clients, ReadManager(c) \/ ClientStep(c)
      PROVE  \/ UNCHANGED <<lstate, health>>
             \/ lstate' # "DEGRADED" /\ (lstate' # lstate => lstate' \in Successors(lstate))
  BY <1>4, <1>1 DEF ClientStep, ReadManager, CheckReady, Enqueue, PromoteCheck, Promote
<1>5. ManagerStep => UNCHANGED <<lstate, health>>
  BY DEF ManagerStep, Pick, Acquire, Finish, LoopReturns
<1>6. UNCHANGED vars => UNCHANGED <<lstate, health>>
  BY DEF vars
<1> QED BY <1>2, <1>3, <1>4, <1>5, <1>6 DEF Next

(* A step that degrades has a bad report, and one that clears the last recovers. *)
LEMMA ReasonNext == IInv /\ DegradedHasReason /\ [Next]_vars => DegradedHasReason'
<1> SUFFICES ASSUME IInv, DegradedHasReason, [Next]_vars PROVE DegradedHasReason'
  OBVIOUS
<1> USE DEF DegradedHasReason
<1>1. CASE Environment
  BY <1>1 DEF Environment, ReportFailure, ReportHealthy, CooldownEnds, AfterFailure,
              AfterRecovery, IInv, TypeOK
<1> QED BY <1>1, StateMoves

(* DEGRADED is never reported without a component whose report is bad. *)
THEOREM DegradationExplained == Spec => []DegradedHasReason
<1>1. Init => DegradedHasReason
  BY DEF Init, LifecycleInit, DegradedHasReason
<1> QED BY <1>1, Inductive, ReasonNext, PTL DEF Spec

(* Every change of state is an edge of Transition's table, or READY to      *)
(* DEGRADED.                                                                *)
THEOREM MovesAreLegal == Spec => LegalMoves
<1>1. ASSUME IInv, [Next]_vars
      PROVE  [lstate' # lstate =>
                lstate' \in Successors(lstate) \/ (lstate = "READY" /\ lstate' = "DEGRADED")]_vars
  <2>1. CASE Environment
    BY <2>1, <1>1 DEF Environment, ReportFailure, ReportHealthy, CooldownEnds, AfterFailure,
                AfterRecovery, Successors, IInv, TypeOK
  <2> QED BY <2>1, <1>1, StateMoves
<1> QED BY <1>1, Inductive, PTL DEF Spec, LegalMoves
-----------------------------------------------------------------------------
(* The configuration.  The layer that decides a field, from the last to    *)
(* the first.                                                              *)
FromFile(f) == IF fileLayer # Unset /\ fileLayer[f] # Unset THEN fileLayer[f] ELSE Default[f]
FromEnv(f) == IF envLayer[f] # Unset THEN envLayer[f] ELSE FromFile(f)
FromCode(f) == IF codeLayer # Unset /\ codeLayer[f] # Unset THEN codeLayer[f] ELSE FromEnv(f)

Laid == {"limit", "level", "env", "cooldown"}

(* What is laid over so far, at each stage.  The layers keep their types   *)
(* although a secret may be put into the caller's one.                     *)
LayersType ==
  /\ fileLayer \in Layers \cup {Unset}
  /\ envLayer \in Layers /\ envLayer.key = Unset
  /\ codeLayer \in Layers \cup {Unset}
  /\ secret \in Secrets \cup {Unset}
  /\ DOMAIN cfg = DOMAIN Default

OwnKey == codeLayer = Unset \/ codeLayer.key = Unset

StageInv ==
  /\ stage = "file" => cfg = Default
  /\ stage \in {"env", "code", "secrets"} => fileLayer # Unset
  /\ stage = "env" => \A f \in Laid \cup {"key"} : cfg[f] = FromFile(f)
  /\ stage = "code" => \A f \in Laid \cup {"key"} : cfg[f] = FromEnv(f)
  /\ stage = "secrets" => \A f \in Laid \cup {"key"} : cfg[f] = FromCode(f)
  /\ stage \in {"validate", "loaded"} =>
       /\ \A f \in Laid : cfg[f] = FromCode(f)
       /\ OwnKey => cfg.key = IF FromCode("key") = "placeholder" /\ secret # Unset
                                THEN secret ELSE FromCode("key")
  /\ stage = "loaded" => ValidConfig(cfg)

ConfigInv == LayersType /\ StageInv

(* The last layer that sets a field decides it.                            *)
LEMMA DecidedIs ==
  ASSUME LayersType, NEW f \in Laid \cup {"key"}
  PROVE  Decided(f) = FromCode(f)
<1> DEFINE layers == <<fileLayer, envLayer, codeLayer>>
           set == {i \in 1..3 : layers[i] # Unset /\ layers[i][f] # Unset}
           last == CHOOSE i \in set : \A j \in set : j <= i
<1>1. Decided(f) = IF set = {} THEN Default[f] ELSE layers[last][f]
  BY DEF Decided
<1>2. /\ 1 \in set <=> fileLayer # Unset /\ fileLayer[f] # Unset
      /\ 2 \in set <=> envLayer # Unset /\ envLayer[f] # Unset
      /\ 3 \in set <=> codeLayer # Unset /\ codeLayer[f] # Unset
      /\ set \subseteq 1..3
  OBVIOUS
<1>3. envLayer # Unset
  BY ConfigAssumption DEF LayersType
<1>4. layers[1] = fileLayer /\ layers[2] = envLayer /\ layers[3] = codeLayer
  OBVIOUS
<1> HIDE DEF set, layers
<1>5. ASSUME NEW n \in set, \A j \in set : j <= n PROVE last = n
  <2>1. last \in set /\ \A j \in set : j <= last
    BY <1>5
  <2> HIDE DEF last
  <2>2. n \in 1..3 /\ last \in 1..3 /\ n <= last /\ last <= n
    BY <1>2, <1>5, <2>1
  <2> QED BY <2>2
<1> HIDE DEF last
<1>6. CASE 3 \in set
  <2>1. last = 3
    BY <1>2, <1>5, <1>6
  <2> QED BY <1>1, <1>2, <1>4, <1>6, <2>1 DEF FromCode
<1>7. CASE 3 \notin set /\ 2 \in set
  <2>1. last = 2
    BY <1>2, <1>5, <1>7
  <2> QED BY <1>1, <1>2, <1>4, <1>7, <2>1 DEF FromCode, FromEnv
<1>8. CASE 3 \notin set /\ 2 \notin set /\ 1 \in set
  <2>1. last = 1
    BY <1>2, <1>5, <1>8
  <2> QED BY <1>1, <1>2, <1>3, <1>4, <1>8, <2>1 DEF FromCode, FromEnv, FromFile
<1>9. CASE 3 \notin set /\ 2 \notin set /\ 1 \notin set
  <2>1. set = {}
    BY <1>2, <1>9
  <2> QED BY <1>1, <1>2, <1>3, <1>9, <2>1 DEF FromCode, FromEnv, FromFile
<1> QED BY <1>6, <1>7, <1>8, <1>9

(* Nothing is laid over at first.                                          *)
LEMMA InitConfig == ConfigInit => ConfigInv
BY ConfigAssumption DEF ConfigInit, ConfigInv, LayersType, StageInv

(* Each stage lays its layer over what the stages before have made.        *)
LEMMA NextConfig == ConfigInv /\ [ConfigNext]_configVars => ConfigInv'
<1> SUFFICES ASSUME ConfigInv, [ConfigNext]_configVars PROVE ConfigInv'
  OBVIOUS
<1>0. LayersType /\ StageInv /\ Laid \cup {"key"} \subseteq DOMAIN cfg
  BY DEF ConfigInv, LayersType, Default, Laid
<1>1. CASE SetSecret
  BY <1>0, <1>1 DEF SetSecret, ConfigInv, LayersType, StageInv
<1>2. CASE StartLoad
  BY <1>0, <1>2 DEF StartLoad, ConfigInv, LayersType, StageInv
<1>3. CASE FileFails
  BY <1>0, <1>3 DEF FileFails, ConfigInv, LayersType, StageInv
<1>4. CASE ApplyFile
  <2>1. /\ stage = "file" /\ stage' = "env" /\ fileLayer # Unset /\ cfg = Default
        /\ cfg' = [f \in DOMAIN cfg |-> Over(fileLayer, f)]
        /\ UNCHANGED <<fileLayer, envLayer, codeLayer, secret>>
    BY <1>0, <1>4 DEF ApplyFile, StageInv
  <2>2. \A f \in Laid \cup {"key"} : cfg'[f] = FromFile(f)'
    BY <1>0, <2>1 DEF Over, FromFile
  <2> QED BY <1>0, <2>1, <2>2 DEF ConfigInv, LayersType, StageInv
<1>5. CASE ApplyEnv
  <2>1. /\ stage = "env" /\ stage' = "code" /\ fileLayer # Unset
        /\ \A f \in Laid \cup {"key"} : cfg[f] = FromFile(f)
        /\ cfg' = [f \in DOMAIN cfg |-> IF f = "key" THEN cfg.key ELSE Over(envLayer, f)]
        /\ UNCHANGED <<fileLayer, envLayer, codeLayer, secret>>
    BY <1>0, <1>5 DEF ApplyEnv, StageInv
  <2>2. \A f \in Laid \cup {"key"} : FromEnv(f)' = FromEnv(f)
    BY <2>1 DEF FromEnv, FromFile
  <2>3. \A f \in Laid : cfg'[f] = FromEnv(f)
    BY <1>0, <2>1 DEF Over, FromEnv, Laid
  <2>4. cfg'["key"] = FromEnv("key")
    BY <1>0, <2>1 DEF FromEnv, LayersType
  <2>5. \A f \in Laid \cup {"key"} : cfg'[f] = FromEnv(f)'
    BY <2>2, <2>3, <2>4
  <2> QED BY <1>0, <2>1, <2>5 DEF ConfigInv, LayersType, StageInv
<1>6. CASE ApplyCode
  <2>1. /\ stage = "code" /\ stage' = "secrets" /\ fileLayer # Unset
        /\ \A f \in Laid \cup {"key"} : cfg[f] = FromEnv(f)
        /\ UNCHANGED <<fileLayer, envLayer, codeLayer, secret>>
    BY <1>0, <1>6 DEF ApplyCode, StageInv
  <2>2. \A f \in Laid \cup {"key"} : FromCode(f)' = FromCode(f)
    BY <2>1 DEF FromCode, FromEnv, FromFile
  <2>3. DOMAIN cfg' = DOMAIN cfg /\ \A f \in Laid \cup {"key"} : cfg'[f] = FromCode(f)
    <3>1. CASE codeLayer = Unset
      BY <1>6, <2>1, <3>1 DEF ApplyCode, FromCode
    <3>2. CASE codeLayer # Unset
      <4> DEFINE Built(f) ==
            CASE f \in {"debug", "ack"} -> codeLayer[f]
              [] f \in {"accept", "expose"} ->
                   IF codeLayer.cooldown # Unset \/ codeLayer.accept \/ codeLayer.expose
                     THEN codeLayer[f] ELSE cfg[f]
              [] OTHER -> Over(codeLayer, f)
      <4>1. cfg' = [f \in DOMAIN cfg |-> Built(f)]
        BY <1>6, <3>2 DEF ApplyCode
      <4>2. \A f \in Laid \cup {"key"} : Built(f) = Over(codeLayer, f)
        BY DEF Laid
      <4> HIDE DEF Built
      <4>3. \A f \in Laid \cup {"key"} : cfg'[f] = Over(codeLayer, f)
        BY <1>0, <4>1, <4>2
      <4> QED BY <2>1, <3>2, <4>1, <4>3 DEF Over, FromCode
    <3> QED BY <3>1, <3>2
  <2> QED BY <1>0, <2>1, <2>2, <2>3 DEF ConfigInv, LayersType, StageInv
<1>7. CASE Interpolate
  <2> DEFINE found == cfg.key = "placeholder" /\ secret # Unset
             shared == codeLayer # Unset /\ codeLayer.key # Unset
  <2>1. /\ stage = "secrets" /\ stage' = "validate"
        /\ \A f \in Laid \cup {"key"} : cfg[f] = FromCode(f)
        /\ cfg' = IF found THEN [cfg EXCEPT !.key = secret] ELSE cfg
        /\ codeLayer' = IF found /\ shared THEN [codeLayer EXCEPT !.key = secret] ELSE codeLayer
        /\ UNCHANGED <<fileLayer, envLayer, secret>>
    BY <1>0, <1>7 DEF Interpolate, StageInv
  <2>2. /\ codeLayer' \in Layers \cup {Unset} /\ (codeLayer' = Unset <=> codeLayer = Unset)
        /\ codeLayer # Unset => \A f \in Laid : codeLayer'[f] = codeLayer[f]
        /\ OwnKey' => OwnKey /\ codeLayer' = codeLayer
    <3>1. CASE found /\ shared
      <4>1. codeLayer \in Layers /\ secret \in Secrets /\ secret # Unset
        BY <1>0, <3>1 DEF LayersType
      <4>2. codeLayer' = [codeLayer EXCEPT !.key = secret]
        BY <2>1, <3>1
      <4>3. codeLayer' \in Layers /\ codeLayer'.key = secret
            /\ \A f \in Laid : codeLayer'[f] = codeLayer[f]
        BY <4>1, <4>2 DEF Layers, Mentioned, Laid
      <4>4. codeLayer' # Unset
        BY <4>3, ConfigAssumption
      <4> QED BY <3>1, <4>1, <4>3, <4>4 DEF OwnKey
    <3>2. CASE ~(found /\ shared)
      BY <1>0, <2>1, <3>2 DEF LayersType, OwnKey
    <3> QED BY <3>1, <3>2
  <2>3. \A f \in Laid : cfg'[f] = FromCode(f)'
    <3>1. \A f \in Laid : cfg'[f] = cfg[f]
      BY <1>0, <2>1 DEF Laid
    <3>2. \A f \in Laid : FromCode(f)' = FromCode(f)
      BY <2>1, <2>2 DEF FromCode, FromEnv, FromFile
    <3> QED BY <2>1, <3>1, <3>2
  <2>4. OwnKey' => cfg'.key = IF FromCode("key")' = "placeholder" /\ secret' # Unset
                                THEN secret' ELSE FromCode("key")'
    <3> SUFFICES ASSUME OwnKey'
                 PROVE  cfg'.key = IF FromCode("key")' = "placeholder" /\ secret' # Unset
                                     THEN secret' ELSE FromCode("key")'
      OBVIOUS
    <3>1. FromCode("key")' = FromCode("key")
      BY <2>1, <2>2 DEF FromCode, FromEnv, FromFile
    <3>2. cfg.key = FromCode("key")
      BY <2>1
    <3> QED BY <1>0, <2>1, <3>1, <3>2
  <2>5. DOMAIN cfg' = DOMAIN cfg
    BY <2>1
  <2> QED BY <1>0, <2>1, <2>2, <2>3, <2>4, <2>5 DEF ConfigInv, LayersType, StageInv
<1>8. CASE Validate
  BY <1>0, <1>8 DEF Validate, ConfigInv, LayersType, StageInv, FromCode, FromEnv, FromFile, OwnKey
<1>9. CASE UNCHANGED configVars
  BY <1>0, <1>9 DEF configVars, ConfigInv, LayersType, StageInv, FromCode, FromEnv, FromFile, OwnKey
<1> QED BY <1>1, <1>2, <1>3, <1>4, <1>5, <1>6, <1>7, <1>8, <1>9 DEF ConfigNext

(* What is accepted is what the layers say and what validation demands.    *)
LEMMA Accepted == ConfigInv => LoadIsRight
<1> SUFFICES ASSUME ConfigInv, stage = "loaded" PROVE LoadIsRight
  BY DEF LoadIsRight
<1>1. /\ LayersType /\ ValidConfig(cfg)
      /\ \A f \in Laid : cfg[f] = FromCode(f)
      /\ OwnKey => cfg.key = IF FromCode("key") = "placeholder" /\ secret # Unset
                               THEN secret ELSE FromCode("key")
  BY DEF ConfigInv, StageInv
<1>2. \A f \in Laid \cup {"key"} : Decided(f) = FromCode(f)
  BY <1>1, DecidedIs
<1>3. \A f \in {"limit", "cooldown"} : FromCode(f) \in Int
  BY <1>1 DEF LayersType, Layers, Mentioned, FromCode, FromEnv, FromFile, Default
<1>4. cfg.limit >= 1 /\ cfg.cooldown >= 1
  BY <1>1, <1>3 DEF ValidConfig, Laid
<1>5. OwnKey => cfg.key = IF Decided("key") = "placeholder" THEN secret ELSE Decided("key")
  BY <1>1, <1>2 DEF ValidConfig
<1> QED BY <1>1, <1>2, <1>4, <1>5 DEF LoadIsRight, ValidConfig, OwnKey, Laid

(* Whatever the layers set and however often the configuration is loaded,  *)
(* the caller's overrides changing under it, what LoadConfig accepts is    *)
(* right.                                                                  *)
THEOREM ConfigurationsAreRight == ConfigSpec => []LoadIsRight
  BY InitConfig, NextConfig, Accepted, PTL DEF ConfigSpec

-----------------------------------------------------------------------------
(* Types.                                                                  *)
Ops == {"root", "execution", "child", "attempt", "metadata", "budget", "user", "sensitive",
        "merged", "wire"}

Layer == [layer : BOOLEAN, exec : Nat, parentExec : Nat, trace : Nat, recorded : Nat,
          priority : Priorities \cup {""}, budget : Nat, attempt : Nat, meta : SUBSET MetaKeys]

Context == [op : Ops, parent : Nat, runtime : {"local", "remote"}, request : Layer,
            effective : Nat, user : Nat, marked : SUBSET MetaKeys]

ContextsType ==
  /\ clock \in Nat
  /\ ctxs \in Seq(Context)
  /\ spent \in Seq(Nat)
  /\ \A c \in DOMAIN ctxs : ctxs[c].request.budget <= Len(spent)
  /\ \A c \in DOMAIN ctxs : ctxs[c].op # "root" => ctxs[c].parent \in 1..(c - 1)
  /\ wire # NoProto =>
       /\ wire.sender \in DOMAIN ctxs /\ wire.deadline \in Nat
       /\ wire.priority \in Priorities /\ wire.spent \in Nat

(* What the assumption says of times and priorities. *)
LEMMA TimeTypes == Never \in Nat /\ Timeouts \subseteq Nat /\ "NORMAL" \in Priorities
  BY ContextAssumption

(* What LineageKept says of one context and the one it comes from. *)
Kin(d, p) ==
  d.op \notin {"root", "wire", "merged"} =>
    /\ d.effective <= p.effective
    /\ d.op \in {"execution", "child"} =>
         d.effective <= d.request.recorded /\ d.request.parentExec = p.request.exec
    /\ p.request.trace # 0 => d.request.trace = p.request.trace
    /\ p.request.budget # 0 /\ d.op # "budget" => d.request.budget = p.request.budget
    /\ p.request.meta \subseteq d.request.meta /\ p.marked \subseteq d.marked

(* LineageKept is Kin for every context and its parent. *)
LEMMA LineageByKin ==
  LineageKept <=> \A c \in DOMAIN ctxs : Kin(ctxs[c], ctxs[ctxs[c].parent])
  BY DEF LineageKept, Kin

ContextsInv == ContextsType /\ \A c \in DOMAIN ctxs : Kin(ctxs[c], ctxs[ctxs[c].parent])

(* Initially there is only the root. *)
LEMMA InitContexts == ContextsInit => ContextsInv
<1> SUFFICES ASSUME ContextsInit PROVE ContextsInv
  OBVIOUS
<1>1. NoLayer \in Layer
  BY ContextAssumption DEF NoLayer, Layer
<1>2. RootContext \in Context
  BY <1>1, ContextAssumption DEF RootContext, Context, Ops
<1>3. /\ ctxs \in Seq(Context) /\ DOMAIN ctxs = {1} /\ ctxs[1].op = "root"
      /\ ctxs[1].request.budget = 0
  <2>1. RootContext.op = "root" /\ RootContext.request.budget = 0
    BY DEF RootContext, NoLayer
  <2>2. ctxs = <<RootContext>>
    BY DEF ContextsInit
  <2> HIDE DEF Context
  <2> QED BY <1>2, <2>1, <2>2
<1>4. spent \in Seq(Nat) /\ Len(spent) = 0 /\ clock \in Nat /\ wire = NoProto
  BY DEF ContextsInit
<1>5. \A c \in DOMAIN ctxs : Kin(ctxs[c], ctxs[ctxs[c].parent])
  BY <1>3 DEF Kin
<1> QED BY <1>3, <1>4, <1>5 DEF ContextsInv, ContextsType

-----------------------------------------------------------------------------
(* A new context is the only change, so what holds of the others and their *)
(* origins stays.                                                          *)
LEMMA NewContext ==
  ASSUME ContextsInv, NEW d \in Context, ctxs' = Append(ctxs, d), d.op # "root",
         d.parent \in DOMAIN ctxs, Kin(d, ctxs[d.parent]),
         spent' \in Seq(Nat), Len(spent) <= Len(spent'), d.request.budget <= Len(spent'),
         clock' = clock, wire' = wire \/ wire' = NoProto
  PROVE  ContextsInv'
<1>1. /\ ctxs \in Seq(Context) /\ Len(ctxs) \in Nat /\ DOMAIN ctxs = 1..Len(ctxs)
      /\ Len(spent) \in Nat /\ Len(spent') \in Nat
  BY DEF ContextsInv, ContextsType
<1>2. /\ ctxs' \in Seq(Context) /\ DOMAIN ctxs' = 1..(Len(ctxs) + 1)
      /\ ctxs'[Len(ctxs) + 1] = d /\ \A c \in 1..Len(ctxs) : ctxs'[c] = ctxs[c]
  BY <1>1
<1>3. ASSUME NEW c \in DOMAIN ctxs'
      PROVE  /\ ctxs'[c].request.budget <= Len(spent')
             /\ ctxs'[c].op # "root" => ctxs'[c].parent \in 1..(c - 1)
             /\ Kin(ctxs'[c], ctxs'[ctxs'[c].parent])
  <2>1. CASE c = Len(ctxs) + 1
    <3>1. /\ ctxs'[c] = d /\ d.parent \in 1..Len(ctxs) /\ ctxs'[d.parent] = ctxs[d.parent]
          /\ c - 1 = Len(ctxs)
      BY <1>1, <1>2, <2>1
    <3> QED BY <3>1
  <2>2. CASE c \in 1..Len(ctxs)
    <3>1. ctxs'[c] = ctxs[c] /\ ctxs[c] \in Context /\ c \in DOMAIN ctxs
      BY <1>1, <1>2, <2>2
    <3>2. /\ ctxs[c].request.budget <= Len(spent)
          /\ ctxs[c].op # "root" => ctxs[c].parent \in 1..(c - 1)
          /\ Kin(ctxs[c], ctxs[ctxs[c].parent])
      BY <3>1 DEF ContextsInv, ContextsType
    <3>3. ctxs[c].request.budget \in Nat
      BY <3>1 DEF Context, Layer
    <3>4. CASE ctxs[c].op = "root"
      BY <1>1, <3>1, <3>2, <3>3, <3>4 DEF Kin
    <3>5. CASE ctxs[c].op # "root"
      <4>1. ctxs[c].parent \in 1..Len(ctxs)
        BY <2>2, <3>2, <3>5
      <4>2. ctxs'[ctxs[c].parent] = ctxs[ctxs[c].parent]
        BY <1>2, <4>1
      <4> QED BY <1>1, <3>1, <3>2, <3>3, <4>2
    <3> QED BY <3>4, <3>5
  <2>3. c = Len(ctxs) + 1 \/ c \in 1..Len(ctxs)
    BY <1>1, <1>2
  <2> QED BY <2>1, <2>2, <2>3
<1>4. wire' # NoProto =>
        /\ wire'.sender \in DOMAIN ctxs' /\ wire'.deadline \in Nat
        /\ wire'.priority \in Priorities /\ wire'.spent \in Nat
  BY <1>1, <1>2 DEF ContextsInv, ContextsType
<1> QED BY <1>2, <1>3, <1>4 DEF ContextsInv, ContextsType

(* The step adds a context that was not sent by a wire, and nothing else   *)
(* that a message is compared with.                                        *)
Extension ==
  \E d \in Context : /\ ctxs' = Append(ctxs, d) /\ d.op # "wire" /\ d.parent \in DOMAIN ctxs
                     /\ UNCHANGED <<clock, wire>>

(* The same for a derived context, whose record is given.                  *)
LEMMA Derived ==
  ASSUME ContextsInv, NEW p \in DOMAIN ctxs, NEW name \in Ops \ {"root", "wire"}, NEW c \in Context,
         Derive(p, name, c),
         Kin([c EXCEPT !.op = name, !.parent = p], ctxs[p]),
         spent' \in Seq(Nat), Len(spent) <= Len(spent'), c.request.budget <= Len(spent')
  PROVE  ContextsInv' /\ Extension
<1> DEFINE d == [c EXCEPT !.op = name, !.parent = p]
<1>1. p \in Nat
  BY DEF ContextsInv, ContextsType
<1>2. d \in Context /\ d.op = name /\ d.parent = p /\ d.request = c.request
  BY <1>1 DEF Context
<1>3. ctxs' = Append(ctxs, d) /\ clock' = clock /\ wire' = wire
  BY DEF Derive
<1> HIDE DEF d
<1>4. Extension
  BY <1>2, <1>3 DEF Extension
<1> QED BY <1>2, <1>3, <1>4, NewContext DEF d

(* What is known of the context another is derived from. *)
LEMMA Origin ==
  ASSUME ContextsInv, NEW p \in DOMAIN ctxs
  PROVE  /\ ctxs[p] \in Context /\ ctxs[p].request \in Layer
         /\ ctxs[p].request.budget <= Len(spent)
         /\ spent \in Seq(Nat) /\ Len(spent) \in Nat /\ New \in Nat /\ clock \in Nat
<1>1. ctxs \in Seq(Context) /\ spent \in Seq(Nat) /\ clock \in Nat
  BY DEF ContextsInv, ContextsType
<1>2. ctxs[p] \in Context /\ New \in Nat /\ Len(spent) \in Nat
  BY <1>1 DEF New
<1>3. ctxs[p].request.budget <= Len(spent)
  BY DEF ContextsInv, ContextsType
<1> QED BY <1>1, <1>2, <1>3 DEF Context

(* The same when no budget is made. *)
LEMMA DerivedAlike ==
  ASSUME ContextsInv, NEW p \in DOMAIN ctxs, NEW name \in Ops \ {"root", "wire"}, NEW c \in Context,
         Derive(p, name, c), spent' = spent, c.request.budget <= Len(spent),
         Kin([c EXCEPT !.op = name, !.parent = p], ctxs[p])
  PROVE  ContextsInv' /\ Extension
<1>1. spent' \in Seq(Nat) /\ Len(spent) <= Len(spent') /\ c.request.budget <= Len(spent')
  BY DEF ContextsInv, ContextsType
<1> QED BY <1>1, Derived

(* A layered copy of a context has its metadata and more. *)
LEMMA LayeredKeeps ==
  ASSUME NEW c \in Context, NEW keys \in SUBSET MetaKeys
  PROVE  /\ Layered(c, keys) \in Context
         /\ Layered(c, keys).request.meta = c.request.meta \cup keys
         /\ Layered(c, keys).request.trace = c.request.trace
         /\ Layered(c, keys).request.budget = c.request.budget
         /\ Layered(c, keys).effective = c.effective /\ Layered(c, keys).marked = c.marked
  BY DEF Layered, Context, Layer

(* WithExecution and WithChildExecution: the deadline in force is the      *)
(* sooner of the one asked for and the parent's.                           *)
LEMMA ExecutionKept ==
  ASSUME ContextsInv, NEW p \in DOMAIN ctxs, NEW timeout \in Timeouts \cup {0},
         NEW priority \in Priorities, WithExecution(p, timeout, priority)
  PROVE  ContextsInv' /\ Extension
<1> DEFINE deadline == IF timeout = 0 THEN Never ELSE clock + timeout
           e == Earlier(ctxs[p].effective, deadline)
           r == [ctxs[p].request EXCEPT !.layer = TRUE, !.exec = New,
                   !.parentExec = ctxs[p].request.exec,
                   !.trace = Preferred(@, 0, New),
                   !.recorded = deadline, !.priority = priority, !.attempt = 1]
           c == [ctxs[p] EXCEPT !.effective = Earlier(@, deadline), !.request = r]
<1>1. /\ ctxs[p] \in Context /\ ctxs[p].request \in Layer /\ ctxs[p].request.budget <= Len(spent)
      /\ New \in Nat /\ clock \in Nat
  BY Origin
<1>2. deadline \in Nat
  BY <1>1, TimeTypes
<1>3. Derive(p, "execution", c) /\ spent' = spent
  BY DEF WithExecution
<1> HIDE DEF deadline
<1>4. e \in Nat /\ e <= ctxs[p].effective /\ e <= deadline
  BY <1>1, <1>2 DEF Earlier, Context
<1>5. /\ c \in Context /\ c.effective = e /\ c.marked = ctxs[p].marked
      /\ c.request.recorded = deadline /\ c.request.parentExec = ctxs[p].request.exec
      /\ c.request.budget = ctxs[p].request.budget /\ c.request.meta = ctxs[p].request.meta
      /\ ctxs[p].request.trace # 0 => c.request.trace = ctxs[p].request.trace
  <2> HIDE DEF e
  <2>1. Earlier(ctxs[p].effective, deadline) \in Nat
    BY <1>4 DEF e
  <2>2. ctxs[p].request.exec \in Nat /\ ctxs[p].request.trace \in Nat
    BY <1>1 DEF Layer
  <2>3. /\ Preferred(ctxs[p].request.trace, 0, New) \in Nat
        /\ ctxs[p].request.trace # 0 =>
             Preferred(ctxs[p].request.trace, 0, New) = ctxs[p].request.trace
    BY <1>1, <2>2 DEF Preferred
  <2>4. /\ r \in Layer /\ r.recorded = deadline /\ r.parentExec = ctxs[p].request.exec
        /\ r.budget = ctxs[p].request.budget /\ r.meta = ctxs[p].request.meta
        /\ r.trace = Preferred(ctxs[p].request.trace, 0, New)
    BY <1>1, <1>2, <2>2, <2>3 DEF Layer
  <2> HIDE DEF r
  <2>5. /\ c \in Context /\ c.effective = Earlier(ctxs[p].effective, deadline)
        /\ c.marked = ctxs[p].marked /\ c.request = r
    BY <1>1, <2>1, <2>4 DEF Context
  <2> HIDE DEF c
  <2> QED BY <2>3, <2>4, <2>5 DEF e
<1> HIDE DEF c, e
<1>6. Kin([c EXCEPT !.op = "execution", !.parent = p], ctxs[p])
  BY <1>4, <1>5 DEF Kin, Context
<1>7. "execution" \in Ops \ {"root", "wire"}
  BY DEF Ops
<1> QED BY <1>1, <1>3, <1>5, <1>6, <1>7, DerivedAlike

(* WithChildExecution keeps the invariant: its deadline is at most the     *)
(* parent's.                                                               *)
LEMMA ChildKept ==
  ASSUME ContextsInv, NEW p \in DOMAIN ctxs, NEW timeout \in Timeouts \cup {0},
         WithChildExecution(p, timeout)
  PROVE  ContextsInv' /\ Extension
<1> DEFINE e == IF timeout = 0 THEN ctxs[p].effective
                ELSE Earlier(clock + timeout, ctxs[p].effective)
           c == [ctxs[p] EXCEPT !.effective = e,
                   !.request = [@ EXCEPT !.layer = TRUE, !.exec = New,
                      !.parentExec = ctxs[p].request.exec, !.recorded = e, !.attempt = 1]]
<1>1. /\ ctxs[p] \in Context /\ ctxs[p].request \in Layer /\ ctxs[p].request.budget <= Len(spent)
      /\ New \in Nat /\ clock \in Nat
  BY Origin
<1>2. ctxs[p].effective \in Nat /\ ctxs[p].request.exec \in Nat
  BY <1>1 DEF Context, Layer
<1>3. e \in Nat /\ e <= ctxs[p].effective
  BY <1>1, <1>2, TimeTypes DEF Earlier
<1>4. Derive(p, "child", c) /\ spent' = spent
  BY DEF WithChildExecution, Child
<1> HIDE DEF e
<1>5. /\ c \in Context /\ c.effective = e /\ c.marked = ctxs[p].marked
      /\ c.request.recorded = e /\ c.request.parentExec = ctxs[p].request.exec
      /\ c.request.budget = ctxs[p].request.budget /\ c.request.meta = ctxs[p].request.meta
      /\ c.request.trace = ctxs[p].request.trace
  BY <1>1, <1>2, <1>3 DEF Context, Layer
<1> HIDE DEF c
<1>6. Kin([c EXCEPT !.op = "child", !.parent = p], ctxs[p])
  BY <1>3, <1>5 DEF Kin, Context
<1>7. "child" \in Ops \ {"root", "wire"}
  BY DEF Ops
<1> QED BY <1>1, <1>4, <1>5, <1>6, <1>7, DerivedAlike

(* The other With functions leave the deadline alone. *)
LEMMA PlainKept ==
  ASSUME ContextsInv, NEW p \in DOMAIN ctxs, NEW name \in {"attempt", "metadata", "user", "sensitive"},
         NEW c \in Context, Derive(p, name, c), spent' = spent,
         c.effective = ctxs[p].effective, c.request.trace = ctxs[p].request.trace,
         c.request.budget = ctxs[p].request.budget,
         ctxs[p].request.meta \subseteq c.request.meta, ctxs[p].marked \subseteq c.marked
  PROVE  ContextsInv' /\ Extension
<1>1. ctxs[p].effective \in Nat
  BY Origin DEF Context
<1>2. Kin([c EXCEPT !.op = name, !.parent = p], ctxs[p])
  BY <1>1 DEF Kin, Context
<1>3. c.request.budget <= Len(spent) /\ name \in Ops \ {"root", "wire"}
  BY Origin DEF Ops
<1> QED BY <1>2, <1>3, DerivedAlike

(* The With functions that leave the deadline alone. *)
LEMMA LayersKept ==
  ASSUME ContextsInv, NEW p \in DOMAIN ctxs,
         \/ WithAttempt(p) \/ WithUser(p)
         \/ \E k \in MetaKeys : WithMetadata(p, k) \/ WithSensitiveVariable(p, k)
  PROVE  ContextsInv' /\ Extension
<1> DEFINE o == ctxs[p]
<1>0. o \in Context /\ o.request \in Layer /\ New \in Nat
  BY Origin
<1>1. CASE WithAttempt(p)
  <2> DEFINE c == [o EXCEPT !.request.attempt = 2]
  <2>1. /\ c \in Context /\ c.effective = o.effective /\ c.request.trace = o.request.trace
        /\ c.request.budget = o.request.budget /\ c.request.meta = o.request.meta
        /\ c.marked = o.marked
    BY <1>0 DEF Context, Layer
  <2>2. Derive(p, "attempt", c) /\ spent' = spent
    BY <1>1 DEF WithAttempt
  <2> HIDE DEF c
  <2> QED BY <2>1, <2>2, PlainKept
<1>2. CASE WithUser(p)
  <2> DEFINE c == [o EXCEPT !.user = New]
  <2>1. /\ c \in Context /\ c.effective = o.effective /\ c.request = o.request
        /\ c.marked = o.marked
    BY <1>0 DEF Context
  <2>2. Derive(p, "user", c) /\ spent' = spent
    BY <1>2 DEF WithUser
  <2> HIDE DEF c
  <2> QED BY <2>1, <2>2, PlainKept
<1>3. ASSUME NEW k \in MetaKeys, WithMetadata(p, k) PROVE ContextsInv' /\ Extension
  <2> DEFINE c == Layered(o, {k})
  <2>1. /\ c \in Context /\ c.effective = o.effective /\ c.request.trace = o.request.trace
        /\ c.request.budget = o.request.budget /\ o.request.meta \subseteq c.request.meta
        /\ c.marked = o.marked
    BY <1>0, LayeredKeeps
  <2>2. Derive(p, "metadata", c) /\ spent' = spent
    BY <1>3 DEF WithMetadata
  <2> HIDE DEF c
  <2> QED BY <2>1, <2>2, PlainKept
<1>4. ASSUME NEW k \in MetaKeys, WithSensitiveVariable(p, k) PROVE ContextsInv' /\ Extension
  <2> DEFINE m == [o EXCEPT !.marked = @ \cup {k}]
             c == IF Fits(m.request.meta \cup {k}) THEN Layered(m, {k}) ELSE m
  <2>1. /\ m \in Context /\ m.effective = o.effective /\ m.request = o.request
        /\ o.marked \subseteq m.marked
    BY <1>0 DEF Context
  <2>2. /\ c \in Context /\ c.effective = o.effective /\ c.request.trace = o.request.trace
        /\ c.request.budget = o.request.budget /\ o.request.meta \subseteq c.request.meta
        /\ o.marked \subseteq c.marked
    <3> HIDE DEF m
    <3> QED BY <2>1, LayeredKeeps
  <2>3. Derive(p, "sensitive", c) /\ spent' = spent
    BY <1>4 DEF WithSensitiveVariable
  <2> HIDE DEF c
  <2> QED BY <2>2, <2>3, PlainKept
<1> QED BY <1>1, <1>2, <1>3, <1>4

(* WithCostBudget makes a new budget. *)
LEMMA BudgetKept ==
  ASSUME ContextsInv, NEW p \in DOMAIN ctxs, WithCostBudget(p)
  PROVE  ContextsInv' /\ Extension
<1> DEFINE o == ctxs[p]
           l == Layered(o, {})
           c == [l EXCEPT !.request.budget = Len(spent) + 1]
<1>1. o \in Context /\ {} \in SUBSET MetaKeys /\ Len(spent) \in Nat /\ spent \in Seq(Nat)
  BY Origin
<1>2. /\ l \in Context /\ l.effective = o.effective /\ l.request.trace = o.request.trace
      /\ l.request.meta = o.request.meta /\ l.marked = o.marked
  <2>1. /\ l \in Context /\ l.request.meta = o.request.meta \cup {}
        /\ l.request.trace = o.request.trace
        /\ l.effective = o.effective /\ l.marked = o.marked
    BY <1>1, LayeredKeeps
  <2> HIDE DEF l
  <2> QED BY <2>1
<1>3. Derive(p, "budget", c) /\ spent' = Append(spent, 0)
  BY DEF WithCostBudget
<1>4. /\ spent' \in Seq(Nat) /\ Len(spent) <= Len(spent') /\ Len(spent') = Len(spent) + 1
      /\ o.effective \in Nat
  BY <1>1, <1>3 DEF Context
<1> HIDE DEF l
<1>5. l.request \in Layer /\ Len(spent) + 1 \in Nat
  BY <1>1, <1>2 DEF Context
<1>6. /\ c \in Context /\ c.effective = l.effective /\ c.request.trace = l.request.trace
      /\ c.request.meta = l.request.meta /\ c.marked = l.marked
      /\ c.request.budget = Len(spent) + 1
  BY <1>2, <1>5 DEF Context, Layer
<1> HIDE DEF c
<1>7. Kin([c EXCEPT !.op = "budget", !.parent = p], o)
  BY <1>2, <1>4, <1>6 DEF Kin, Context
<1>8. "budget" \in Ops \ {"root", "wire"} /\ c.request.budget <= Len(spent')
  BY <1>1, <1>4, <1>6 DEF Ops
<1> QED BY <1>3, <1>4, <1>6, <1>7, <1>8, Derived

(* Merge and the wire keep the types; what they keep of the lineage is not *)
(* claimed here.                                                           *)
LEMMA MergeKept ==
  ASSUME ContextsInv, NEW p \in DOMAIN ctxs, NEW q \in DOMAIN ctxs, NEW how, Merge(p, q, how)
  PROVE  ContextsInv' /\ Extension
<1> DEFINE b == ctxs[p]
           o == ctxs[q]
           r == MergedRequest(b.request, o.request, how)
           u == MergedUser(b, o, how)
           c == [b EXCEPT !.user = u, !.request = r]
<1>1. /\ b \in Context /\ b.request \in Layer /\ b.request.budget <= Len(spent)
      /\ o \in Context /\ o.request \in Layer /\ o.request.budget <= Len(spent)
      /\ spent \in Seq(Nat) /\ Len(spent) \in Nat
  BY Origin
<1>2. u \in Nat
  BY <1>1 DEF MergedUser, Context
<1>3. /\ Overlaid(b.request, o.request) \in Layer
      /\ Overlaid(b.request, o.request).budget \in {b.request.budget, o.request.budget}
  <2>1. /\ Preferred(o.request.exec, 0, b.request.exec) \in Nat
        /\ Preferred(o.request.parentExec, 0, b.request.parentExec) \in Nat
        /\ Preferred(o.request.trace, 0, b.request.trace) \in Nat
        /\ Preferred(o.request.recorded, Never, b.request.recorded) \in Nat
        /\ Preferred(o.request.priority, "", b.request.priority) \in Priorities \cup {""}
        /\ Preferred(o.request.budget, 0, b.request.budget)
             \in Nat \cap {b.request.budget, o.request.budget}
        /\ Preferred(o.request.attempt, 0, b.request.attempt) \in Nat
    BY <1>1 DEF Preferred, Layer
  <2> QED BY <1>1, <2>1 DEF Overlaid, Layer
<1>4. r \in Layer /\ r.budget \in {b.request.budget, o.request.budget}
  BY <1>1, <1>3 DEF MergedRequest, Layer
<1>5. Derive(p, "merged", c) /\ spent' = spent
  BY DEF Merge
<1> HIDE DEF r, u
<1>6. c \in Context /\ c.request = r
  BY <1>1, <1>2, <1>4 DEF Context
<1> HIDE DEF c
<1>7. Kin([c EXCEPT !.op = "merged", !.parent = p], b)
  BY <1>6 DEF Kin, Context
<1>8. c.request.budget <= Len(spent)
  BY <1>1, <1>4, <1>6
<1>9. "merged" \in Ops \ {"root", "wire"}
  BY DEF Ops
<1> QED BY <1>5, <1>6, <1>7, <1>8, <1>9, DerivedAlike

(* FromProto makes a well-typed context; Kin asks nothing of it. *)
LEMMA WireKeepsTypes ==
  ASSUME ContextsInv, FromProto
  PROVE  ContextsInv'
<1>1. /\ wire.sender \in DOMAIN ctxs /\ wire.deadline \in Nat /\ wire.priority \in Priorities
      /\ wire.spent \in Nat /\ wire.sender \in Nat
  <2>1. wire # NoProto /\ ctxs \in Seq(Context)
    BY DEF FromProto, ContextsInv, ContextsType
  <2>2. /\ wire.sender \in DOMAIN ctxs /\ wire.deadline \in Nat /\ wire.priority \in Priorities
        /\ wire.spent \in Nat
    BY <2>1 DEF ContextsInv, ContextsType
  <2> QED BY <2>1, <2>2
<1> DEFINE p == wire.sender
           sent == ctxs[p].request
           known == sent.exec # 0
           deadline == IF known THEN Remaining ELSE Never
           r(kept) == [layer |-> known \/ sent.budget # 0 \/ kept # {},
                       exec |-> sent.exec,
                       parentExec |-> IF known THEN sent.parentExec ELSE 0,
                       trace |-> IF ~known THEN 0 ELSE IF sent.trace = 0 THEN sent.exec ELSE sent.trace,
                       recorded |-> deadline,
                       priority |-> IF known THEN wire.priority ELSE "",
                       budget |-> IF sent.budget = 0 THEN 0 ELSE Len(spent) + 1,
                       attempt |-> IF known THEN 1 ELSE 0,
                       meta |-> kept]
           d(kept) == [op |-> "wire", parent |-> p, runtime |-> "remote", user |-> ctxs[p].user,
                       marked |-> {}, effective |-> deadline, request |-> r(kept)]
<1>2. PICK kept \in Readable(sent.meta) : ctxs' = Append(ctxs, d(kept))
  BY DEF FromProto
<1>3. /\ ctxs[p] \in Context /\ sent \in Layer /\ spent \in Seq(Nat) /\ Len(spent) \in Nat
      /\ clock \in Nat
  BY <1>1, Origin
<1>4. deadline \in Nat /\ kept \in SUBSET MetaKeys
  BY <1>1, <1>3, ContextAssumption DEF Remaining, Readable, Layer
<1>5. /\ spent' = (IF sent.budget = 0 THEN spent ELSE Append(spent, wire.spent))
      /\ wire' = NoProto /\ clock' = clock
  BY DEF FromProto
<1>6. /\ spent' \in Seq(Nat) /\ Len(spent) <= Len(spent')
      /\ sent.budget # 0 => Len(spent') = Len(spent) + 1
  BY <1>1, <1>3, <1>5
<1> HIDE DEF deadline
<1>7. r(kept) \in Layer /\ r(kept).budget = IF sent.budget = 0 THEN 0 ELSE Len(spent) + 1
  <2> DEFINE layer == known \/ sent.budget # 0 \/ kept # {}
             parentExec == IF known THEN sent.parentExec ELSE 0
             trace == IF ~known THEN 0 ELSE IF sent.trace = 0 THEN sent.exec ELSE sent.trace
             priority == IF known THEN wire.priority ELSE ""
             budget == IF sent.budget = 0 THEN 0 ELSE Len(spent) + 1
             attempt == IF known THEN 1 ELSE 0
  <2>1. layer \in BOOLEAN
    OBVIOUS
  <2>2. sent.exec \in Nat /\ parentExec \in Nat /\ trace \in Nat
    BY <1>3 DEF Layer
  <2>3. priority \in Priorities \cup {""}
    BY <1>1
  <2>4. budget \in Nat
    BY <1>3
  <2>5. attempt \in Nat
    OBVIOUS
  <2> HIDE DEF layer, parentExec, trace, priority, budget, attempt
  <2>6. [layer |-> layer, exec |-> sent.exec, parentExec |-> parentExec, trace |-> trace,
         recorded |-> deadline, priority |-> priority, budget |-> budget, attempt |-> attempt,
         meta |-> kept] \in Layer
    BY <1>4, <2>1, <2>2, <2>3, <2>4, <2>5 DEF Layer
  <2> QED BY <2>6 DEF layer, parentExec, trace, priority, budget, attempt
<1> HIDE DEF r
<1>8. /\ d(kept) \in Context /\ d(kept).op = "wire" /\ d(kept).parent = p
      /\ d(kept).request = r(kept)
  BY <1>1, <1>3, <1>4, <1>7 DEF Context, Ops
<1> HIDE DEF d
<1>9. Kin(d(kept), ctxs[p])
  BY <1>8 DEF Kin
<1>10. d(kept).request.budget <= Len(spent')
  BY <1>3, <1>6, <1>7, <1>8
<1> QED BY <1>1, <1>2, <1>5, <1>6, <1>8, <1>9, <1>10, NewContext

(* ToProto, Charge and time change no context. *)
LEMMA OthersKept ==
  ASSUME ContextsInv, NEW p \in DOMAIN ctxs, ToProto(p) \/ Charge(p)
  PROVE  ContextsInv'
<1>1. ctxs[p] \in Context /\ spent \in Seq(Nat) /\ ctxs[p].request \in Layer
  BY Origin
<1>2. ctxs[p].request.budget \in Nat /\ ctxs[p].request.budget <= Len(spent)
  BY <1>1, Origin DEF Layer
<1>3. CASE ToProto(p)
  <2>1. /\ wire'.sender = p /\ wire'.deadline = ctxs[p].effective
        /\ wire'.priority = (IF ctxs[p].request.priority = "" THEN "NORMAL"
                             ELSE ctxs[p].request.priority)
        /\ wire'.spent = (IF ctxs[p].request.budget = 0 THEN 0
                          ELSE spent[ctxs[p].request.budget])
        /\ UNCHANGED <<ctxs, clock, spent>>
    BY <1>3 DEF ToProto
  <2>2. /\ wire'.sender \in DOMAIN ctxs /\ wire'.deadline \in Nat
        /\ wire'.priority \in Priorities /\ wire'.spent \in Nat
    <3>1. ctxs[p].effective \in Nat /\ ctxs[p].request.priority \in Priorities \cup {""}
      BY <1>1 DEF Context, Layer
    <3>2. ctxs[p].request.budget # 0 => spent[ctxs[p].request.budget] \in Nat
      BY <1>1, <1>2
    <3>3. wire'.priority \in Priorities
      BY <2>1, <3>1, TimeTypes
    <3>4. wire'.spent \in Nat
      <4>0. wire'.spent = (IF ctxs[p].request.budget = 0 THEN 0
                           ELSE spent[ctxs[p].request.budget])
        BY <2>1
      <4>1. CASE ctxs[p].request.budget = 0
        <5>1. wire'.spent = 0
          BY <4>0, <4>1
        <5> QED BY <5>1
      <4>2. CASE ctxs[p].request.budget # 0
        BY <4>0, <3>2, <4>2
      <4> QED BY <4>1, <4>2
    <3> QED BY <2>1, <3>1, <3>3, <3>4
  <2> QED BY <2>1, <2>2 DEF ContextsInv, ContextsType
<1>4. CASE Charge(p)
  <2>1. spent' \in Seq(Nat) /\ Len(spent') = Len(spent) /\ UNCHANGED <<ctxs, clock, wire>>
    BY <1>1, <1>2, <1>4 DEF Charge
  <2> QED BY <2>1 DEF ContextsInv, ContextsType
<1> QED BY <1>3, <1>4

(* Every step keeps the invariant. *)
LEMMA NextContexts == ContextsInv /\ [ContextsNext]_contextVars => ContextsInv'
<1> SUFFICES ASSUME ContextsInv, [ContextsNext]_contextVars PROVE ContextsInv'
  OBVIOUS
<1>1. CASE FromProto
  BY <1>1, WireKeepsTypes
<1>2. CASE Pass
  BY <1>2 DEF Pass, ContextsInv, ContextsType
<1>3. CASE UNCHANGED contextVars
  BY <1>3 DEF contextVars, ContextsInv, ContextsType
<1>4. ASSUME NEW p \in DOMAIN ctxs,
             \/ \E t \in Timeouts \cup {0}, priority \in Priorities : WithExecution(p, t, priority)
             \/ \E t \in Timeouts \cup {0} : WithChildExecution(p, t)
             \/ WithCostBudget(p) \/ Charge(p) \/ ToProto(p)
      PROVE  ContextsInv'
  BY <1>4, ExecutionKept, ChildKept, BudgetKept, OthersKept
<1>5. ASSUME NEW p \in DOMAIN ctxs,
             \/ \E k \in MetaKeys : WithMetadata(p, k) \/ WithSensitiveVariable(p, k)
             \/ WithAttempt(p) \/ WithUser(p)
      PROVE  ContextsInv'
  BY <1>5, LayersKept
<1>6. ASSUME NEW p \in DOMAIN ctxs, NEW q \in DOMAIN ctxs,
             NEW how \in {"overlay", "base", "error"}, Merge(p, q, how)
      PROVE  ContextsInv'
  BY <1>6, MergeKept
<1> QED BY <1>1, <1>2, <1>3, <1>4, <1>5, <1>6 DEF ContextsNext

(* Along any chain of derivations no context outlives the one it comes     *)
(* from, and trace, budget, metadata and marks of sensitive keys are never *)
(* lost, whatever the deadlines asked for and the order of the calls.      *)
THEOREM LineageIsKept == ContextsSpec => []LineageKept
  BY InitContexts, NextContexts, LineageByKin, PTL DEF ContextsSpec, ContextsInv

(* A chain of n derivations, from context path[0] to context path[n],       *)
(* without a merge or a message.                                            *)
Chain(path, n) ==
  /\ path \in [0..n -> DOMAIN ctxs]
  /\ \A i \in 1..n : /\ ctxs[path[i]].op \notin {"root", "wire", "merged"}
                     /\ ctxs[path[i]].parent = path[i - 1]

(* What a context has from one further up.                                  *)
Inherits(d, a) ==
  /\ d.effective <= a.effective
  /\ a.request.trace # 0 => d.request.trace = a.request.trace
  /\ a.request.meta \subseteq d.request.meta /\ a.marked \subseteq d.marked

(* One more derivation hands on what the chain has handed on so far.        *)
LEMMA InheritsOn ==
  ASSUME ContextsInv, NEW a \in DOMAIN ctxs, NEW p \in DOMAIN ctxs, NEW d \in DOMAIN ctxs,
         ctxs[d].parent = p, ctxs[d].op \notin {"root", "wire", "merged"},
         Inherits(ctxs[p], ctxs[a])
  PROVE  Inherits(ctxs[d], ctxs[a])
<1>1. \A c \in DOMAIN ctxs : ctxs[c].effective \in Nat
  <2>1. \A c \in DOMAIN ctxs : ctxs[c] \in Context
    BY Origin
  <2> QED BY <2>1 DEF Context
<1>2. Kin(ctxs[d], ctxs[p])
  BY DEF ContextsInv
<1>3. ctxs[d].effective <= ctxs[a].effective
  BY <1>1, <1>2 DEF Kin, Inherits
<1>4. ctxs[a].request.trace # 0 => ctxs[d].request.trace = ctxs[a].request.trace
  BY <1>2 DEF Kin, Inherits
<1>5. /\ ctxs[a].request.meta \subseteq ctxs[d].request.meta
      /\ ctxs[a].marked \subseteq ctxs[d].marked
  BY <1>2 DEF Kin, Inherits
<1> QED BY <1>3, <1>4, <1>5 DEF Inherits

(* However long a chain of derivations is, its last context ends no later   *)
(* than its first, is part of the same trace, and has all its metadata and  *)
(* all its marks of what is sensitive.                                      *)
LineageIsHandedOn ==
  \A n \in Nat : \A path : Chain(path, n) => Inherits(ctxs[path[n]], ctxs[path[0]])

(* The shortest chain that loses something would lose it in its last step.  *)
LEMMA ChainInherits == ContextsInv => LineageIsHandedOn
<1> SUFFICES ASSUME ContextsInv, NEW n \in Nat, NEW path, Chain(path, n)
             PROVE  Inherits(ctxs[path[n]], ctxs[path[0]])
  BY DEF LineageIsHandedOn
<1> DEFINE lost == {k \in 0..n : ~Inherits(ctxs[path[k]], ctxs[path[0]])}
<1> SUFFICES ASSUME lost # {} PROVE FALSE
  OBVIOUS
<1>1. PICK k \in lost : \A j \in lost : k <= j
  <2>1. lost \subseteq Nat
    OBVIOUS
  <2> HIDE DEF lost
  <2> QED BY <2>1, LeastNatural
<1>2. k \in 0..n /\ path[0] \in DOMAIN ctxs /\ \A j \in 0..n : path[j] \in DOMAIN ctxs
  BY <1>1 DEF Chain
<1>3. k # 0
  <2>1. ctxs[path[0]].effective \in Nat
    <3>1. ctxs[path[0]] \in Context
      BY <1>2, Origin
    <3> QED BY <3>1 DEF Context
  <2>2. Inherits(ctxs[path[0]], ctxs[path[0]])
    BY <2>1 DEF Inherits
  <2> QED BY <1>1, <2>2
<1>4. k - 1 \in 0..n /\ k \in 1..n /\ ~(k <= k - 1)
  BY <1>2, <1>3
<1>5. Inherits(ctxs[path[k - 1]], ctxs[path[0]])
  BY <1>1, <1>4
<1>6. ctxs[path[k]].parent = path[k - 1] /\ ctxs[path[k]].op \notin {"root", "wire", "merged"}
  BY <1>4 DEF Chain
<1>7. Inherits(ctxs[path[k]], ctxs[path[0]])
  BY <1>2, <1>4, <1>5, <1>6, InheritsOn
<1> QED BY <1>1, <1>7

(* What a context has from an ancestor at any distance.                     *)
THEOREM AncestorsAreKept == ContextsSpec => []LineageIsHandedOn
  BY InitContexts, NextContexts, ChainInherits, PTL DEF ContextsSpec

(* A part of metadata that fits the limit fits it too.                     *)
LEMMA FitsPart ==
  ASSUME NEW keys \in SUBSET MetaKeys, Fits(keys), NEW part \in SUBSET keys
  PROVE  Fits(part)
<1>1. IsFiniteSet(keys) /\ \A k \in keys : SizeOf[k] \in Nat
  BY ContextAssumption, FS_Subset
<1>2. IsFiniteSet(part) /\ \A k \in part : SizeOf[k] \in Nat
  BY <1>1, FS_Subset
<1>3. /\ SumFunctionOnSet(SizeOf, part) <= SumFunctionOnSet(SizeOf, keys)
      /\ SumFunctionOnSet(SizeOf, part) \in Nat /\ SumFunctionOnSet(SizeOf, keys) \in Nat
  BY <1>1, <1>2, SumPart, SumNat
<1>4. MetaLimit \in Nat
  BY ContextAssumption
<1>5. SumFunctionOnSet(SizeOf, keys) <= MetaLimit
  BY DEF Fits, SizeOfMeta
<1>6. SumFunctionOnSet(SizeOf, part) <= MetaLimit
  BY <1>3, <1>4, <1>5
<1> QED BY <1>6 DEF Fits, SizeOfMeta

(* So of metadata that fits the receiver keeps all, in whatever order it   *)
(* adds the entries.                                                       *)
LEMMA AllReadable ==
  ASSUME NEW keys \in SUBSET MetaKeys, Fits(keys), NEW kept \in Readable(keys)
  PROVE  kept = keys
<1> SUFFICES ASSUME NEW k \in keys \ kept PROVE FALSE
  BY DEF Readable
<1>1. kept \cup {k} \in SUBSET keys /\ ~Fits(kept \cup {k})
  BY DEF Readable
<1> QED BY <1>1, FitsPart

(* What WireKept says of one context and its sender at a time.             *)
Carried(d, p, t) ==
  d.op = "wire" =>
    /\ d.request.exec = p.request.exec
    /\ p.request.exec # 0 =>
         /\ p.request.trace # 0 => d.request.trace = p.request.trace
         /\ p.effective > t => d.effective = p.effective
         /\ d.effective \in {p.effective, Never}
    /\ Fits(p.request.meta) => d.request.meta = p.request.meta
    /\ p.request.budget = 0 => d.request.budget = 0
    /\ p.request.budget # 0 => d.request.budget \notin {0, p.request.budget}

(* A message has the deadline of its sender, which no later step changes.  *)
WireInv ==
  /\ wire # NoProto => wire.deadline = ctxs[wire.sender].effective
  /\ \A c \in DOMAIN ctxs : Carried(ctxs[c], ctxs[ctxs[c].parent], clock)

(* The invariant says what WireKept does.                                  *)
LEMMA WireDone == WireInv => WireKept
  BY DEF WireInv, WireKept, Carried

(* A new context is compared with a sender that is there already, and      *)
(* leaves the others and the message as they are.                          *)
LEMMA NewCarried ==
  ASSUME ContextsInv, WireInv, NEW d \in Context, ctxs' = Append(ctxs, d),
         d.parent \in DOMAIN ctxs, Carried(d, ctxs[d.parent], clock),
         clock' = clock, wire' = wire \/ wire' = NoProto
  PROVE  WireInv'
<1>1. ctxs \in Seq(Context) /\ Len(ctxs) \in Nat /\ DOMAIN ctxs = 1..Len(ctxs)
  BY DEF ContextsInv, ContextsType
<1>2. /\ DOMAIN ctxs' = 1..(Len(ctxs) + 1) /\ ctxs'[Len(ctxs) + 1] = d
      /\ \A c \in 1..Len(ctxs) : ctxs'[c] = ctxs[c]
  BY <1>1
<1>3. ASSUME NEW c \in DOMAIN ctxs' PROVE Carried(ctxs'[c], ctxs'[ctxs'[c].parent], clock')
  <2>1. CASE c = Len(ctxs) + 1
    BY <1>1, <1>2, <2>1
  <2>2. CASE c \in 1..Len(ctxs)
    <3>1. ctxs'[c] = ctxs[c] /\ Carried(ctxs[c], ctxs[ctxs[c].parent], clock)
      BY <1>1, <1>2, <2>2 DEF WireInv
    <3>2. CASE ctxs[c].op = "root"
      BY <3>1, <3>2 DEF Carried
    <3>3. CASE ctxs[c].op # "root"
      <4>1. ctxs[c].parent \in 1..(c - 1)
        BY <1>1, <2>2, <3>3 DEF ContextsInv, ContextsType
      <4>2. ctxs[c].parent \in 1..Len(ctxs)
        BY <1>1, <2>2, <4>1
      <4> QED BY <1>2, <3>1, <4>2
    <3> QED BY <3>2, <3>3
  <2>3. c = Len(ctxs) + 1 \/ c \in 1..Len(ctxs)
    BY <1>1, <1>2
  <2> QED BY <2>1, <2>2, <2>3
<1>4. wire' # NoProto => wire'.deadline = ctxs'[wire'.sender].effective
  BY <1>1, <1>2 DEF WireInv, ContextsInv, ContextsType
<1> QED BY <1>3, <1>4 DEF WireInv

(* FromProto makes such a context of the message.                          *)
LEMMA ReceivedCarried ==
  ASSUME ContextsInv, WireInv, FromProto
  PROVE  WireInv'
<1> DEFINE p == ctxs[wire.sender]
<1>1. wire # NoProto /\ wire.sender \in DOMAIN ctxs /\ wire.deadline = p.effective
  BY DEF FromProto, WireInv, ContextsInv, ContextsType
<1>2. /\ p \in Context /\ p.request \in Layer /\ p.request.budget <= Len(spent)
      /\ Len(spent) \in Nat /\ clock \in Nat
  BY <1>1, Origin
<1> DEFINE known == p.request.exec # 0
           deadline == IF known THEN Remaining ELSE Never
           Sent(d) ==
             /\ d.op = "wire" /\ d.parent = wire.sender
             /\ d.request.exec = p.request.exec /\ d.effective = deadline
             /\ d.request.trace = IF ~known THEN 0 ELSE
                  IF p.request.trace = 0 THEN p.request.exec ELSE p.request.trace
             /\ d.request.budget = IF p.request.budget = 0 THEN 0 ELSE Len(spent) + 1
             /\ d.request.meta \in Readable(p.request.meta)
<1>3. PICK d \in Context : ctxs' = Append(ctxs, d) /\ Sent(d)
  <2> DEFINE sent == ctxs[wire.sender].request
             build(kept) ==
               [op |-> "wire", parent |-> wire.sender, runtime |-> "remote",
                user |-> ctxs[wire.sender].user, marked |-> {}, effective |-> deadline,
                request |->
                  [layer |-> known \/ sent.budget # 0 \/ kept # {},
                   exec |-> sent.exec,
                   parentExec |-> IF known THEN sent.parentExec ELSE 0,
                   trace |-> IF ~known THEN 0 ELSE IF sent.trace = 0 THEN sent.exec ELSE sent.trace,
                   recorded |-> deadline,
                   priority |-> IF known THEN wire.priority ELSE "",
                   budget |-> IF sent.budget = 0 THEN 0 ELSE Len(spent) + 1,
                   attempt |-> IF known THEN 1 ELSE 0,
                   meta |-> kept]]
  <2>0. PICK kept \in Readable(sent.meta) : ctxs' = Append(ctxs, build(kept))
    BY DEF FromProto
  <2>4. Sent(build(kept))
    <3> HIDE DEF deadline
    <3> QED OBVIOUS
  <2>1. PICK d : ctxs' = Append(ctxs, d) /\ Sent(d)
    <3> HIDE DEF build, Sent
    <3> QED BY <2>0, <2>4
  <2>2. ctxs' \in Seq(Context) /\ ctxs \in Seq(Context)
    BY WireKeepsTypes DEF ContextsInv, ContextsType
  <2>3. ctxs'[Len(ctxs) + 1] = d /\ Len(ctxs) + 1 \in DOMAIN ctxs'
    BY <2>1, <2>2
  <2>5. d \in Context
    BY <2>2, <2>3
  <2> QED BY <2>1, <2>5
<1>4. p.effective > clock => Remaining = p.effective
  BY <1>1, <1>2 DEF Remaining, Context
<1>5. Remaining \in {p.effective, Never}
  BY <1>1 DEF Remaining
<1>6. p.request.meta \in SUBSET MetaKeys
  BY <1>2 DEF Layer
<1>7. Fits(p.request.meta) => d.request.meta = p.request.meta
  BY <1>3, <1>6, AllReadable
<1>8. Len(spent) + 1 \notin {0, p.request.budget}
  <2>1. p.request.budget \in Nat
    BY <1>2 DEF Layer
  <2>2. p.request.budget <= Len(spent) /\ Len(spent) \in Nat
    BY <1>2
  <2> HIDE DEF p
  <2> QED BY <2>1, <2>2
<1>9. Carried(d, p, clock)
  BY <1>3, <1>4, <1>5, <1>7, <1>8 DEF Carried
<1>10. clock' = clock /\ wire' = NoProto
  BY DEF FromProto
<1> QED BY <1>1, <1>3, <1>9, <1>10, NewCarried

(* Every step keeps what messages and received contexts have of a sender.  *)
LEMMA NextWire == ContextsInv /\ WireInv /\ [ContextsNext]_contextVars => WireInv'
<1> SUFFICES ASSUME ContextsInv, WireInv, [ContextsNext]_contextVars PROVE WireInv'
  OBVIOUS
<1>1. CASE FromProto
  BY <1>1, ReceivedCarried
<1>2. CASE Pass
  <2>1. clock' = clock + 1 /\ UNCHANGED <<ctxs, wire>> /\ clock \in Nat
    BY <1>2 DEF Pass, ContextsInv, ContextsType
  <2>2. ASSUME NEW c \in DOMAIN ctxs
        PROVE  Carried(ctxs[c], ctxs[ctxs[c].parent], clock + 1)
    <3>1. Carried(ctxs[c], ctxs[ctxs[c].parent], clock)
      BY DEF WireInv
    <3>2. CASE ctxs[c].op # "wire"
      BY <3>2 DEF Carried
    <3>3. CASE ctxs[c].op = "wire"
      <4>1. ctxs \in Seq(Context) /\ c \in 1..Len(ctxs) /\ ctxs[c].parent \in 1..(c - 1)
        BY <3>3 DEF ContextsInv, ContextsType
      <4>2. ctxs[c].parent \in DOMAIN ctxs
        BY <4>1
      <4>3. ctxs[ctxs[c].parent].effective \in Nat
        BY <4>2, Origin DEF Context
      <4> QED BY <2>1, <3>1, <4>3 DEF Carried
    <3> QED BY <3>2, <3>3
  <2> QED BY <2>1, <2>2 DEF WireInv
<1>3. CASE UNCHANGED contextVars
  BY <1>3 DEF contextVars, WireInv
<1>4. ASSUME NEW p \in DOMAIN ctxs, ToProto(p) \/ Charge(p) PROVE WireInv'
  <2>1. /\ UNCHANGED <<ctxs, clock>>
        /\ wire' = wire \/ (wire'.sender = p /\ wire'.deadline = ctxs[p].effective)
    <3>1. CASE ToProto(p)
      BY <3>1 DEF ToProto
    <3>2. CASE Charge(p)
      BY <3>2 DEF Charge
    <3> QED BY <1>4, <3>1, <3>2
  <2> QED BY <2>1 DEF WireInv
<1>5. ASSUME Extension PROVE WireInv'
  <2>1. PICK d \in Context : /\ ctxs' = Append(ctxs, d) /\ d.op # "wire" /\ d.parent \in DOMAIN ctxs
                             /\ UNCHANGED <<clock, wire>>
    BY <1>5 DEF Extension
  <2>2. Carried(d, ctxs[d.parent], clock)
    BY <2>1 DEF Carried
  <2> QED BY <2>1, <2>2, NewCarried
<1>6. ASSUME NEW p \in DOMAIN ctxs,
             \/ \E t \in Timeouts \cup {0}, priority \in Priorities : WithExecution(p, t, priority)
             \/ \E t \in Timeouts \cup {0} : WithChildExecution(p, t)
             \/ \E k \in MetaKeys : WithMetadata(p, k) \/ WithSensitiveVariable(p, k)
             \/ WithAttempt(p) \/ WithUser(p) \/ WithCostBudget(p)
             \/ \E q \in DOMAIN ctxs, how \in {"overlay", "base", "error"} : Merge(p, q, how)
      PROVE  Extension
  BY <1>6, ExecutionKept, ChildKept, LayersKept, BudgetKept, MergeKept
<1> QED BY <1>1, <1>2, <1>3, <1>4, <1>5, <1>6 DEF ContextsNext

(* What another process reads from a message is what the sender had: the   *)
(* execution, the trace, the deadline until it passes, all metadata that   *)
(* fits, and a budget of its own, however late it reads it and whatever    *)
(* the sender derives, charges or merges meanwhile.                        *)
THEOREM WireIsFaithful == ContextsSpec => []WireKept
<1>1. ASSUME ContextsInit PROVE WireInv
  <2>1. RootContext.op # "wire"
    BY DEF RootContext
  <2>2. ctxs = <<RootContext>> /\ wire = NoProto
    BY <1>1 DEF ContextsInit
  <2>3. DOMAIN ctxs = {1} /\ ctxs[1] = RootContext
    BY <2>2
  <2>4. \A c \in DOMAIN ctxs : Carried(ctxs[c], ctxs[ctxs[c].parent], clock)
    BY <2>1, <2>3 DEF Carried
  <2> QED BY <2>2, <2>4 DEF WireInv
<1> QED BY <1>1, InitContexts, NextContexts, NextWire, WireDone, PTL DEF ContextsSpec

-----------------------------------------------------------------------------
StoreType ==
  /\ now \in Nat
  /\ expiry \in Nat /\ least \in Nat /\ least <= expiry
  /\ entry \in [SessionIDs -> [state : Nat, last : Nat]]
  /\ held \in [Holders -> [session : SessionIDs \cup {Absent}, state : Nat, since : Nat]]
  /\ \A s \in SessionIDs : entry[s] # NoEntry => entry[s].state > 0

(* A context holds the state its session has now, and was not noted later  *)
(* than the session's last access; or it is further in the past than any   *)
(* expiry there has been.                                                  *)
Current(h) ==
  /\ entry[held[h].session] # NoEntry
  /\ entry[held[h].session].state = held[h].state
  /\ held[h].since <= entry[held[h].session].last

Outlived(h) == now - held[h].since > least

HeldInv ==
  \A h \in Holders : held[h] # NotYet =>
    /\ held[h].session \in SessionIDs /\ held[h].since <= now
    /\ Current(h) \/ Outlived(h)

StoreInv == StoreType /\ HeldInv /\ SharedWhileFresh

(* Every state that the store or a context has is one that was made, and a *)
(* merge works on two of them.                                             *)
Held == [Keys -> Values \cup {Nil, Absent}]
Steps == {"none", "next", "read", "set", "merged", "failed"}

ContentType ==
  /\ content \in Seq(Held)
  /\ \A s \in SessionIDs : entry[s] # NoEntry => entry[s].state \in 1..Len(content)
  /\ \A h \in Holders : held[h] # NotYet => held[h].state \in 1..Len(content)
  /\ merge \in Steps /\ left \subseteq Keys
  /\ merge # "none" => base \in 1..Len(content) /\ overlay \in 1..Len(content)
  /\ merge \in {"read", "set"} =>
       key \in Keys \ left /\ value \in Values \cup {Nil, Absent}

(* Initially no context holds a session. *)
LEMMA InitStore == SessionsInit => StoreInv
<1> SUFFICES ASSUME SessionsInit PROVE StoreInv
  OBVIOUS
<1>1. StoreType
  <2>1. expiry \in Nat /\ least \in Nat /\ least <= expiry
    BY SessionAssumption DEF SessionsInit
  <2> QED BY <2>1 DEF SessionsInit, StoreType, NoEntry, NotYet
<1>2. HeldInv /\ SharedWhileFresh
  BY DEF SessionsInit, HeldInv, SharedWhileFresh
<1> QED BY <1>1, <1>2 DEF StoreInv

(* Dropping what has expired leaves the other sessions as they are, and a  *)
(* context whose session was dropped is outlived.                          *)
LEMMA KeptSessions ==
  ASSUME StoreType, HeldInv
  PROVE  /\ Kept \in [SessionIDs -> [state : Nat, last : Nat]]
         /\ \A s \in SessionIDs : Kept[s] = entry[s] \/ (Kept[s] = NoEntry /\ Expired(s))
         /\ \A h \in Holders :
              held[h] # NotYet /\ Expired(held[h].session) => Outlived(h)
<1>1. Kept \in [SessionIDs -> [state : Nat, last : Nat]]
  BY DEF Kept, StoreType, NoEntry
<1>2. \A s \in SessionIDs : Kept[s] = entry[s] \/ (Kept[s] = NoEntry /\ Expired(s))
  BY DEF Kept
<1>3. ASSUME NEW h \in Holders, held[h] # NotYet, Expired(held[h].session) PROVE Outlived(h)
  <2>1. PICK s \in SessionIDs : s = held[h].session
    BY <1>3 DEF HeldInv
  <2>2. now - entry[s].last > expiry /\ entry[s].last \in Nat /\ held[h].since \in Nat
    BY <1>3, <2>1 DEF Expired, StoreType
  <2>3. CASE Current(h)
    BY <2>1, <2>2, <2>3 DEF Current, Outlived, StoreType
  <2> QED BY <1>3, <2>3 DEF HeldInv
<1> QED BY <1>1, <1>2, <1>3

(* Contexts stay as they are while the store is: time, a new expiry and    *)
(* the collection of garbage only outlive them.                            *)
LEMMA Aging ==
  ASSUME StoreInv, now' \in Nat, now <= now', expiry' \in Nat, least' \in Nat,
         least' <= expiry', least' <= least, held' = held,
         entry' = entry \/ (entry' = Kept /\ now' = now /\ least' = least)
  PROVE  StoreInv'
<1>1. StoreType'
  <2>1. entry' \in [SessionIDs -> [state : Nat, last : Nat]]
    BY KeptSessions DEF StoreInv, StoreType
  <2>2. \A s \in SessionIDs : entry'[s] # NoEntry => entry'[s].state > 0
    BY KeptSessions DEF StoreInv, StoreType
  <2> QED BY <2>1, <2>2 DEF StoreInv, StoreType
<1>2. ASSUME NEW h \in Holders, held[h] # NotYet
      PROVE  /\ held[h].session \in SessionIDs /\ held[h].since <= now'
             /\ Current(h)' \/ Outlived(h)'
  <2>1. held[h].session \in SessionIDs /\ held[h].since <= now /\ held[h].since \in Nat
    BY <1>2 DEF StoreInv, HeldInv, StoreType
  <2>2. CASE Outlived(h)
    <3>1. now \in Nat /\ least \in Nat
      BY DEF StoreInv, StoreType
    <3> QED BY <2>1, <2>2, <3>1 DEF Outlived
  <2>3. CASE Current(h) /\ ~Outlived(h)
    <3>1. entry'[held[h].session] = entry[held[h].session]
      BY <1>2, <2>1, <2>3, KeptSessions DEF StoreInv
    <3> QED BY <2>1, <2>3, <3>1 DEF Current, StoreInv, StoreType
  <2>4. held[h].since <= now'
    BY <2>1 DEF StoreInv, StoreType
  <2> QED BY <1>2, <2>1, <2>2, <2>3, <2>4 DEF StoreInv, HeldInv
<1>3. SharedWhileFresh'
  <2>1. \A g, h \in Holders : held[h].since - held[g].since <= least'
                                => held[h].since - held[g].since <= least
    BY DEF StoreInv, StoreType
  <2> QED BY <2>1 DEF StoreInv, SharedWhileFresh
<1> QED BY <1>1, <1>2, <1>3 DEF StoreInv, HeldInv

(* Opening a session gives the state of every context that holds it and is *)
(* not outlived.                                                           *)
LEMMA Opening ==
  ASSUME StoreInv, ContentType, NEW o \in Holders, NEW s \in SessionIDs, Open(o, s)
  PROVE  StoreInv'
<1> DEFINE known == Kept[s] # NoEntry
           state == IF known THEN Kept[s].state ELSE Len(content) + 1
<1>1. /\ entry' = [Kept EXCEPT ![s] = [state |-> state, last |-> now]]
      /\ held' = [held EXCEPT ![o] = [session |-> s, state |-> state, since |-> now]]
      /\ now' = now /\ expiry' = expiry /\ least' = least
  BY DEF Open, StoreInv, StoreType
<1>2. Kept[s] \in [state : Nat, last : Nat] /\ (known => Kept[s].state > 0)
  BY KeptSessions DEF StoreInv, StoreType
<1>3. state \in Nat /\ state > 0
  BY <1>2 DEF ContentType
<1> HIDE DEF state
<1>4. /\ entry'[s] = [state |-> state, last |-> now]
      /\ \A t \in SessionIDs \ {s} : entry'[t] = Kept[t]
      /\ held'[o] = [session |-> s, state |-> state, since |-> now]
      /\ \A h \in Holders \ {o} : held'[h] = held[h]
  BY <1>1, KeptSessions DEF StoreInv, StoreType
<1>5. StoreType'
  <2>1. entry' \in [SessionIDs -> [state : Nat, last : Nat]]
    BY <1>1, <1>3, KeptSessions DEF StoreInv, StoreType
  <2>2. \A t \in SessionIDs : entry'[t] # NoEntry => entry'[t].state > 0
    BY <1>3, <1>4, KeptSessions DEF StoreInv, StoreType
  <2>3. held' \in [Holders -> [session : SessionIDs \cup {Absent}, state : Nat, since : Nat]]
    BY <1>1, <1>3 DEF StoreInv, StoreType
  <2> QED BY <1>1, <2>1, <2>2, <2>3 DEF StoreInv, StoreType
<1>6. entry'[s] # NoEntry
  BY <1>3, <1>4 DEF NoEntry
<1>7. ASSUME NEW h \in Holders \ {o}, held[h] # NotYet, held[h].session = s, ~Outlived(h)
      PROVE  held[h].state = state /\ held[h].since <= now
  <2>1. Current(h) /\ ~Expired(s) /\ held[h].since <= now
    BY <1>7, KeptSessions DEF StoreInv, HeldInv
  <2>2. Kept[s] = entry[s]
    BY <2>1, KeptSessions DEF StoreInv
  <2> QED BY <1>7, <2>1, <2>2 DEF Current, state
<1>8. ASSUME NEW h \in Holders, held'[h] # NotYet
      PROVE  /\ held'[h].session \in SessionIDs /\ held'[h].since <= now
             /\ Current(h)' \/ Outlived(h)'
  <2>1. CASE h = o
    <3>1. held'[h].session = s /\ held'[h].since = now /\ held'[h].state = state /\ now \in Nat
      BY <1>4, <2>1 DEF StoreInv, StoreType
    <3> QED BY <1>4, <1>6, <3>1 DEF Current
  <2>2. CASE h # o
    <3>1. /\ held'[h] = held[h] /\ held[h].session \in SessionIDs /\ held[h].since <= now
          /\ Current(h) \/ Outlived(h)
      BY <1>4, <1>8, <2>2 DEF StoreInv, HeldInv
    <3>2. CASE Outlived(h)
      BY <1>1, <3>1, <3>2 DEF Outlived
    <3>3. CASE ~Outlived(h) /\ held[h].session = s
      <4>1. held[h].state = state
        BY <1>7, <1>8, <2>2, <3>1, <3>3
      <4> QED BY <1>4, <1>6, <3>1, <3>3, <4>1 DEF Current
    <3>4. CASE ~Outlived(h) /\ held[h].session # s
      <4>1. Kept[held[h].session] = entry[held[h].session]
        BY <1>8, <3>1, <3>4, KeptSessions DEF StoreInv
      <4> QED BY <1>4, <3>1, <3>4, <4>1 DEF Current
    <3> QED BY <3>2, <3>3, <3>4
  <2> QED BY <2>1, <2>2
<1>9. ASSUME NEW g \in Holders, NEW h \in Holders,
             held'[g] # NotYet, held'[h] # NotYet, held'[g].session = held'[h].session,
             held'[g].since <= held'[h].since, held'[h].since - held'[g].since <= least
      PROVE  held'[g].state = held'[h].state
  <2>0. now \in Nat /\ least \in Nat /\ \A q \in Holders : held[q].since \in Nat
    BY DEF StoreInv, StoreType
  <2>1. CASE g # o /\ h # o
    BY <1>4, <1>9, <2>1 DEF StoreInv, SharedWhileFresh
  <2>2. CASE g = o /\ h # o
    <3>1. /\ held'[h] = held[h] /\ held[h].since \in Nat /\ now <= held[h].since
          /\ held[h].session = s /\ held'[g].state = state
      BY <1>4, <1>9, <2>0, <2>2
    <3>2. ~Outlived(h)
      BY <1>9, <2>0, <2>2, <3>1 DEF Outlived, StoreInv, HeldInv
    <3> QED BY <1>7, <1>9, <2>2, <3>1, <3>2
  <2>3. CASE g # o /\ h = o
    <3>1. /\ held'[g] = held[g] /\ held[g].since \in Nat /\ now - held[g].since <= least
          /\ held[g].session = s /\ held'[h].state = state
      BY <1>4, <1>9, <2>0, <2>3
    <3>2. ~Outlived(g)
      BY <2>0, <3>1 DEF Outlived
    <3> QED BY <1>7, <1>9, <2>3, <3>1, <3>2
  <2> QED BY <2>1, <2>2, <2>3
<1>10. HeldInv' /\ SharedWhileFresh'
  BY <1>1, <1>8, <1>9 DEF HeldInv, SharedWhileFresh
<1> QED BY <1>5, <1>10 DEF StoreInv

-----------------------------------------------------------------------------
(* No state has been made yet. *)
LEMMA InitContent == SessionsInit => ContentType
<1> SUFFICES ASSUME SessionsInit PROVE ContentType
  OBVIOUS
<1>1. content \in Seq(Held) /\ merge \in Steps /\ left \subseteq Keys
  BY DEF SessionsInit, Steps
<1> QED BY <1>1 DEF SessionsInit, ContentType

(* A new state is appended; the others stay, and stay in range.            *)
LEMMA OpenContent ==
  ASSUME StoreInv, ContentType, NEW o \in Holders, NEW s \in SessionIDs, Open(o, s)
  PROVE  /\ ContentType'
         /\ Len(content) \in Nat /\ Len(content) <= Len(content')
         /\ \A n \in 1..Len(content) : content'[n] = content[n]
<1> DEFINE known == Kept[s] # NoEntry
           state == IF known THEN Kept[s].state ELSE Len(content) + 1
<1>1. /\ content \in Seq(Held) /\ Len(content) \in Nat
      /\ entry' = [Kept EXCEPT ![s] = [state |-> state, last |-> now]]
      /\ held' = [held EXCEPT ![o] = [session |-> s, state |-> state, since |-> now]]
      /\ content' = IF known THEN content ELSE Append(content, Empty)
      /\ UNCHANGED mergeVars
  BY DEF Open, ContentType
<1>2. Empty \in Held
  BY DEF Empty, Held
<1>3. /\ content' \in Seq(Held)
      /\ Len(content') = IF known THEN Len(content) ELSE Len(content) + 1
      /\ \A n \in 1..Len(content) : content'[n] = content[n]
  BY <1>1, <1>2
<1>4. \A t \in SessionIDs : Kept[t] # NoEntry => Kept[t].state \in 1..Len(content)
  BY KeptSessions DEF StoreInv, ContentType
<1>5. state \in 1..Len(content')
  BY <1>1, <1>3, <1>4
<1> HIDE DEF known, state
<1>6. Len(content) <= Len(content')
  BY <1>1, <1>3
<1>7. \A t \in SessionIDs : entry'[t] # NoEntry => entry'[t].state \in 1..Len(content')
  <2> SUFFICES ASSUME NEW t \in SessionIDs, entry'[t] # NoEntry
               PROVE  entry'[t].state \in 1..Len(content')
    OBVIOUS
  <2>1. CASE t = s
    BY <1>1, <1>5, <2>1, KeptSessions DEF StoreInv
  <2>2. CASE t # s
    <3>1. entry'[t] = Kept[t]
      BY <1>1, <2>2, KeptSessions DEF StoreInv
    <3> QED BY <1>1, <1>3, <1>4, <1>6, <3>1
  <2> QED BY <2>1, <2>2
<1>8. \A h \in Holders : held'[h] # NotYet => held'[h].state \in 1..Len(content')
  <2> SUFFICES ASSUME NEW h \in Holders, held'[h] # NotYet
               PROVE  held'[h].state \in 1..Len(content')
    OBVIOUS
  <2>1. CASE h = o
    BY <1>1, <1>5, <2>1 DEF StoreInv, StoreType
  <2>2. CASE h # o
    <3>1. held'[h] = held[h]
      BY <1>1, <2>2 DEF StoreInv, StoreType
    <3>2. held[h].state \in 1..Len(content)
      BY <3>1 DEF ContentType
    <3> QED BY <1>1, <1>3, <1>6, <3>1, <3>2
  <2> QED BY <2>1, <2>2
<1>9. merge' # "none" => base' \in 1..Len(content') /\ overlay' \in 1..Len(content')
  BY <1>1, <1>3, <1>6 DEF ContentType, mergeVars
<1>10. /\ merge' \in Steps /\ left' \subseteq Keys
       /\ merge' \in {"read", "set"} =>
            key' \in Keys \ left' /\ value' \in Values \cup {Nil, Absent}
  BY <1>1 DEF ContentType, mergeVars
<1> QED BY <1>1, <1>3, <1>6, <1>7, <1>8, <1>9, <1>10 DEF ContentType

(* One key of one state is written.                                        *)
LEMMA WriteContent ==
  ASSUME content \in Seq(Held), NEW n \in 1..Len(content), NEW k \in Keys,
         NEW v \in Values \cup {Nil, Absent}, content' = [content EXCEPT ![n][k] = v]
  PROVE  /\ content' \in Seq(Held) /\ Len(content') = Len(content)
         /\ \A m \in 1..Len(content) : m # n => content'[m] = content[m]
         /\ \A j \in Keys : content'[n][j] = IF j = k THEN v ELSE content[n][j]
<1>1. content[n] \in Held /\ Len(content) \in Nat /\ DOMAIN content = 1..Len(content)
  OBVIOUS
<1> DEFINE c == [content[n] EXCEPT ![k] = v]
<1>2. c \in Held /\ \A j \in Keys : c[j] = IF j = k THEN v ELSE content[n][j]
  BY <1>1 DEF Held
<1>3. content' = [content EXCEPT ![n] = c]
  OBVIOUS
<1> HIDE DEF c
<1>4. content'[n] = c /\ \A m \in 1..Len(content) : m # n => content'[m] = content[m]
  BY <1>1, <1>3
<1>5. content' \in Seq(Held) /\ Len(content') = Len(content)
  <2>1. content \in [1..Len(content) -> Held]
    OBVIOUS
  <2>2. content' \in [1..Len(content) -> Held]
    BY <1>2, <1>3, <2>1
  <2> QED BY <1>1, <2>2
<1> QED BY <1>2, <1>4, <1>5

(* What Write does to the merge: it disturbs it, or writes to a state that *)
(* the merge does not work on.                                             *)
LEMMA WriteStep ==
  ASSUME ContentType, NEW h \in Holders, Write(h)
  PROVE  /\ ContentType' /\ UNCHANGED mergeVars
         /\ disturbed' \/ (~disturbed /\ (merge # "none" => content'[base] = content[base]
                                                          /\ content'[overlay] = content[overlay]))
<1>1. PICK k \in Keys, v \in Values \cup {Absent} :
        /\ held[h] # NotYet
        /\ content' = [content EXCEPT ![held[h].state][k] = v]
        /\ disturbed' = (disturbed \/ held[h].state \in {base, overlay})
        /\ UNCHANGED <<entry, held>> /\ UNCHANGED mergeVars
  BY DEF Write
<1> DEFINE n == held[h].state
<1>2. n \in 1..Len(content) /\ content \in Seq(Held)
  BY <1>1 DEF ContentType
<1>3. content' = [content EXCEPT ![n][k] = v] /\ disturbed' = (disturbed \/ n \in {base, overlay})
  BY <1>1
<1> HIDE DEF n
<1>4. /\ content' \in Seq(Held) /\ Len(content') = Len(content)
      /\ \A m \in 1..Len(content) : m # n => content'[m] = content[m]
  BY <1>2, <1>3, WriteContent
<1>5. ContentType'
  BY <1>1, <1>4 DEF ContentType, mergeVars
<1>6. ~disturbed' => ~disturbed /\ (merge # "none" => content'[base] = content[base]
                                                  /\ content'[overlay] = content[overlay])
  BY <1>3, <1>4 DEF ContentType
<1> QED BY <1>1, <1>5, <1>6

(* A key is set in the base.                                               *)
LEMMA SetContent ==
  ASSUME ContentType, SetBase
  PROVE  /\ ContentType' /\ content'[base] \in Held
         /\ \A m \in 1..Len(content) : m # base => content'[m] = content[m]
         /\ \A j \in Keys : content'[base][j] = IF j = key THEN value ELSE content[base][j]
<1>1. /\ merge = "set" /\ merge' = "next" /\ content' = [content EXCEPT ![base][key] = value]
      /\ UNCHANGED <<now, expiry, entry, held, least, base, overlay, left, key, value>>
  BY DEF SetBase, storeVars
<1>2. base \in 1..Len(content) /\ key \in Keys /\ value \in Values \cup {Nil, Absent}
      /\ content \in Seq(Held)
  BY <1>1 DEF ContentType
<1>3. /\ content' \in Seq(Held) /\ Len(content') = Len(content)
      /\ \A m \in 1..Len(content) : m # base => content'[m] = content[m]
      /\ \A j \in Keys : content'[base][j] = IF j = key THEN value ELSE content[base][j]
  BY <1>1, <1>2, WriteContent
<1>4. ContentType'
  BY <1>1, <1>3 DEF ContentType, Steps
<1> QED BY <1>2, <1>3, <1>4

(* Every step keeps the states in range.                                   *)
LEMMA NextContent == StoreInv /\ ContentType /\ [SessionsNext]_sessionVars => ContentType'
<1> SUFFICES ASSUME StoreInv, ContentType, [SessionsNext]_sessionVars PROVE ContentType'
  OBVIOUS
<1>1. CASE Tick \/ SetExpiry \/ UNCHANGED sessionVars
  BY <1>1 DEF Tick, SetExpiry, ContentType, mergeVars, sessionVars
<1>2. CASE CollectGarbage
  BY <1>2, KeptSessions DEF CollectGarbage, ContentType, mergeVars, StoreInv
<1>3. ASSUME NEW h \in Holders, NEW s \in SessionIDs, Open(h, s) PROVE ContentType'
  BY <1>3, OpenContent
<1>4. ASSUME NEW h \in Holders, Write(h) PROVE ContentType'
  BY <1>4, WriteStep
<1>5. ASSUME NEW b \in Holders, NEW o \in Holders, StartMerge(b, o) PROVE ContentType'
  BY <1>5 DEF StartMerge, ContentType, storeVars, Present, Steps
<1>6. CASE ReadOverlay
  <2>1. PICK k \in left : /\ key' = k /\ left' = left \ {k} /\ merge = "next" /\ merge' = "read"
                          /\ value' \in {Nil, content[overlay][k]}
                          /\ UNCHANGED <<content, entry, held, base, overlay>>
    BY <1>6 DEF ReadOverlay, storeVars
  <2>2. content[overlay][k] \in Values \cup {Nil, Absent}
    BY <2>1 DEF ContentType, Held
  <2> QED BY <2>1, <2>2 DEF ContentType, Steps
<1>7. CASE ReadBase
  BY <1>7 DEF ReadBase, ContentType, storeVars, Steps
<1>8. CASE SetBase
  BY <1>8, SetContent
<1>9. CASE EndMerge
  BY <1>9 DEF EndMerge, ContentType, storeVars, Steps
<1> QED BY <1>1, <1>2, <1>3, <1>4, <1>5, <1>6, <1>7, <1>8, <1>9 DEF SessionsNext, Merging

(* Every step keeps the store's invariant. *)
LEMMA NextStore == StoreInv /\ ContentType /\ [SessionsNext]_sessionVars => StoreInv'
<1> SUFFICES ASSUME StoreInv, ContentType, [SessionsNext]_sessionVars PROVE StoreInv'
  OBVIOUS
<1>0. StoreType
  BY DEF StoreInv
<1>1. CASE Tick
  BY <1>0, <1>1, Aging DEF Tick, StoreType
<1>2. CASE SetExpiry
  BY <1>0, <1>2, Aging, SessionAssumption DEF SetExpiry, StoreType
<1>3. CASE CollectGarbage
  BY <1>0, <1>3, Aging DEF CollectGarbage, StoreType
<1>4. ASSUME NEW h \in Holders, NEW s \in SessionIDs, Open(h, s) PROVE StoreInv'
  BY <1>4, Opening
<1>5. CASE UNCHANGED storeVars
  BY <1>0, <1>5, Aging DEF storeVars, StoreType
<1>6. ASSUME Merging \/ (\E h \in Holders : Write(h)) \/ (\E b, o \in Holders : StartMerge(b, o))
             \/ UNCHANGED sessionVars
      PROVE  UNCHANGED storeVars
  BY <1>6 DEF Merging, ReadOverlay, ReadBase, SetBase, EndMerge, Write, StartMerge, storeVars,
              sessionVars
<1> QED BY <1>1, <1>2, <1>3, <1>4, <1>5, <1>6 DEF SessionsNext

-----------------------------------------------------------------------------
(* What the rule makes of a key, and how far an undisturbed merge is with  *)
(* each: those it has still to look at are in the base as they were, those *)
(* it is done with are as the rule says, and the overlay has not changed,  *)
(* which for a merge of a state with itself says that nothing has.         *)
Result(k) ==
  CASE before[2][k] = Absent -> before[1][k]
    [] before[1][k] = Absent -> before[2][k]
    [] OTHER -> IF rule = "overlay" THEN before[2][k] ELSE before[1][k]

Waiting == left \cup (IF merge \in {"read", "set"} THEN {key} ELSE {})

Undisturbed ==
  /\ \A k \in Keys : content[overlay][k] = before[2][k]
  /\ base = overlay => \A k \in Keys : before[1][k] = before[2][k]
  /\ \A k \in Waiting : before[2][k] # Absent
  /\ merge # "failed" =>
       \A k \in Keys : content[base][k] = IF k \in Waiting THEN before[1][k] ELSE Result(k)
  /\ merge \in {"read", "set"} => value = before[2][key]
  /\ merge = "set" => before[1][key] = Absent \/ rule = "overlay"
  /\ merge = "merged" => left = {}
  /\ merge = "failed" =>
       \A k \in Keys : content[base][k] \in
         IF before[1][k] = Absent THEN {Absent, before[2][k]} ELSE {before[1][k]}

MergeInv == merge # "none" /\ ~disturbed => Undisturbed

(* The invariant says what is left when the merge is over.                 *)
LEMMA MergeDone == MergeInv => MergeIsRight
<1> SUFFICES ASSUME MergeInv, ~disturbed, merge \in {"merged", "failed"}, Undisturbed
             PROVE  MergeIsRight
  BY DEF MergeInv, MergeIsRight
<1>1. CASE merge = "merged"
  BY <1>1 DEF Undisturbed, Waiting, Result, MergeIsRight
<1>2. CASE merge = "failed"
  BY <1>2 DEF Undisturbed, MergeIsRight
<1> QED BY <1>1, <1>2

(* As long as the two states stay as they are, so does the invariant.      *)
LEMMA MergeStays ==
  ASSUME MergeInv, UNCHANGED mergeVars,
         disturbed' \/ (~disturbed /\ (merge # "none" => content'[base] = content[base]
                                                       /\ content'[overlay] = content[overlay]))
  PROVE  MergeInv'
BY DEF MergeInv, mergeVars, Undisturbed, Waiting, Result

(* A merge begins with all of the overlay's keys still to look at.         *)
LEMMA StartStep ==
  ASSUME ContentType, NEW b \in Holders, NEW o \in Holders, StartMerge(b, o)
  PROVE  MergeInv'
<1>1. /\ base' = held[b].state /\ overlay' = held[o].state /\ merge' = "next"
      /\ left' = Present(held[o].state) /\ content' = content
      /\ before' = <<content[held[b].state], content[held[o].state]>>
  BY DEF StartMerge
<1>2. before'[1] = content'[base'] /\ before'[2] = content'[overlay']
  BY <1>1
<1>3. Waiting' = left' /\ \A k \in Keys : k \in left' <=> before'[2][k] # Absent
  BY <1>1, <1>2 DEF Waiting, Present
<1>4. \A k \in Keys : k \notin left' => Result(k)' = before'[1][k]
  BY <1>3 DEF Result
<1>5. left' \subseteq Keys
  BY <1>1 DEF Present
<1>6. Undisturbed'
  BY <1>1, <1>2, <1>3, <1>4, <1>5 DEF Undisturbed
<1> QED BY <1>6 DEF MergeInv

(* The steps of a merge.                                                   *)
LEMMA MergingStep ==
  ASSUME ContentType, MergeInv, Merging
  PROVE  MergeInv'
<1> SUFFICES ASSUME ~disturbed, Undisturbed PROVE Undisturbed'
  BY DEF MergeInv, Merging, ReadOverlay, ReadBase, SetBase, EndMerge
<1> DEFINE same == UNCHANGED <<base, overlay, rule, before>>
<1>1. CASE ReadOverlay
  <2>1. PICK k \in left : /\ key' = k /\ left' = left \ {k} /\ merge = "next" /\ merge' = "read"
                          /\ value' = IF content[overlay][k] = Absent THEN Nil ELSE content[overlay][k]
                          /\ content' = content /\ same
    BY <1>1 DEF ReadOverlay
  <2>2. k \in Keys
    BY DEF ContentType
  <2>3. Waiting' = Waiting /\ k \in Waiting
    BY <2>1 DEF Waiting
  <2>4. value' = before[2][k]
    BY <2>1, <2>2, <2>3 DEF Undisturbed
  <2>5. \A j \in Keys : Result(j)' = Result(j)
    BY <2>1 DEF Result
  <2> QED BY <2>1, <2>3, <2>4, <2>5 DEF Undisturbed
<1>2. CASE ReadBase
  <2>1. /\ merge = "read" /\ same /\ UNCHANGED <<content, left, key, value>>
        /\ merge' = IF content[base][key] = Absent \/ rule = "overlay" THEN "set"
                    ELSE IF rule = "error" THEN "failed" ELSE "next"
    BY <1>2 DEF ReadBase
  <2>2. /\ key \in Keys \ left /\ key \in Waiting /\ Waiting = left \cup {key}
        /\ content[base][key] = before[1][key] /\ before[2][key] # Absent
    BY <2>1 DEF ContentType, Waiting, Undisturbed
  <2>3. \A j \in Keys : Result(j)' = Result(j)
    BY <2>1 DEF Result
  <2>4. CASE content[base][key] = Absent \/ rule = "overlay"
    <3>1. merge' = "set" /\ Waiting' = Waiting
      BY <2>1, <2>4 DEF Waiting
    <3> QED BY <2>1, <2>2, <2>3, <2>4, <3>1 DEF Undisturbed
  <2>5. CASE ~(content[base][key] = Absent \/ rule = "overlay") /\ rule = "error"
    <3>1. merge' = "failed" /\ Waiting' = left
      BY <2>1, <2>5 DEF Waiting
    <3>2. \A j \in Keys : content[base][j] \in
            IF before[1][j] = Absent THEN {Absent, before[2][j]} ELSE {before[1][j]}
      BY <2>1, <2>5 DEF Undisturbed, Result
    <3> QED BY <2>1, <2>2, <2>3, <3>1, <3>2 DEF Undisturbed
  <2>6. CASE ~(content[base][key] = Absent \/ rule = "overlay") /\ rule # "error"
    <3>1. merge' = "next" /\ Waiting' = left
      BY <2>1, <2>6 DEF Waiting
    <3>2. content[base][key] = Result(key)
      BY <2>2, <2>6 DEF Result
    <3> QED BY <2>1, <2>2, <2>3, <3>1, <3>2 DEF Undisturbed
  <2> QED BY <2>4, <2>5, <2>6
<1>3. CASE SetBase
  <2>1. /\ merge = "set" /\ merge' = "next" /\ same /\ UNCHANGED <<left, key, value>>
    BY <1>3 DEF SetBase
  <2>2. /\ key \in Keys \ left /\ Waiting = left \cup {key} /\ Waiting' = left
        /\ before[2][key] # Absent /\ value = before[2][key]
        /\ before[1][key] = Absent \/ rule = "overlay"
    BY <2>1 DEF ContentType, Waiting, Undisturbed
  <2>3. \A j \in Keys : Result(j)' = Result(j)
    BY <2>1 DEF Result
  <2>4. Result(key) = value
    BY <2>2 DEF Result
  <2>5. /\ \A m \in 1..Len(content) : m # base => content'[m] = content[m]
        /\ \A j \in Keys : content'[base][j] = IF j = key THEN value ELSE content[base][j]
    BY <1>3, SetContent
  <2>6. \A j \in Keys : content'[base][j] = IF j \in left THEN before[1][j] ELSE Result(j)
    BY <2>1, <2>2, <2>4, <2>5 DEF Undisturbed
  <2>7. \A j \in Keys : content'[overlay][j] = before[2][j]
    <3>1. CASE base = overlay
      BY <2>2, <2>5, <3>1 DEF Undisturbed
    <3>2. CASE base # overlay
      <4>1. overlay \in 1..Len(content)
        BY <2>1 DEF ContentType
      <4> QED BY <2>5, <3>2, <4>1 DEF Undisturbed
    <3> QED BY <3>1, <3>2
  <2> QED BY <2>1, <2>2, <2>3, <2>6, <2>7 DEF Undisturbed
<1>4. CASE EndMerge
  <2>1. /\ merge = "next" /\ left = {} /\ same /\ UNCHANGED <<content, left, key, value>>
        /\ merge' = "merged" \/ (merge' = "failed" /\ rule = "error")
    BY <1>4 DEF EndMerge
  <2>2. Waiting = {} /\ Waiting' = {}
    BY <2>1 DEF Waiting
  <2>3. \A j \in Keys : Result(j)' = Result(j)
    BY <2>1 DEF Result
  <2>4. rule = "error" => \A j \in Keys : content[base][j] \in
            IF before[1][j] = Absent THEN {Absent, before[2][j]} ELSE {before[1][j]}
    BY <2>1, <2>2 DEF Undisturbed, Result
  <2> QED BY <2>1, <2>2, <2>3, <2>4 DEF Undisturbed
<1> QED BY <1>1, <1>2, <1>3, <1>4 DEF Merging

(* Every step keeps the merge's invariant.                                 *)
LEMMA NextMerge ==
  StoreInv /\ ContentType /\ MergeInv /\ [SessionsNext]_sessionVars => MergeInv'
<1> SUFFICES ASSUME StoreInv, ContentType, MergeInv, [SessionsNext]_sessionVars PROVE MergeInv'
  OBVIOUS
<1>1. CASE Tick \/ SetExpiry \/ CollectGarbage \/ UNCHANGED sessionVars
  <2>1. UNCHANGED mergeVars /\ UNCHANGED content /\ UNCHANGED disturbed
    BY <1>1 DEF Tick, SetExpiry, CollectGarbage, sessionVars, mergeVars
  <2> QED BY <2>1, MergeStays DEF MergeInv
<1>2. ASSUME NEW h \in Holders, NEW s \in SessionIDs, Open(h, s) PROVE MergeInv'
  <2>1. UNCHANGED mergeVars /\ UNCHANGED disturbed
    BY <1>2 DEF Open
  <2>2. \A n \in 1..Len(content) : content'[n] = content[n]
    BY <1>2, OpenContent
  <2>3. merge # "none" => content'[base] = content[base] /\ content'[overlay] = content[overlay]
    BY <2>2 DEF ContentType
  <2> QED BY <2>1, <2>3, MergeStays
<1>3. ASSUME NEW h \in Holders, Write(h) PROVE MergeInv'
  BY <1>3, WriteStep, MergeStays
<1>4. ASSUME NEW b \in Holders, NEW o \in Holders, StartMerge(b, o) PROVE MergeInv'
  BY <1>4, StartStep
<1>5. CASE Merging
  BY <1>5, MergingStep
<1> QED BY <1>1, <1>2, <1>3, <1>4, <1>5 DEF SessionsNext

(* Type correctness of the session store.                                  *)
THEOREM SessionsTyped == SessionsSpec => []SessionsTypeOK
<1>1. SessionsInit => SessionsTypeOK
  BY SessionAssumption, InitContent DEF SessionsInit, SessionsTypeOK, NoEntry, NotYet, ContentType, Held
<1>2. ASSUME SessionsTypeOK, ContentType', [SessionsNext]_sessionVars PROVE SessionsTypeOK'
  <2>1. content' \in Seq([Keys -> Values \cup {Nil, Absent}])
    BY <1>2 DEF ContentType, Held
  <2>2. Kept \in [SessionIDs -> [state : Nat, last : 0..MaxNow]]
    BY <1>2, SessionAssumption DEF Kept, NoEntry, SessionsTypeOK
  <2>3. CASE Tick
    BY <1>2, <2>1, <2>3, SessionAssumption DEF Tick, SessionsTypeOK
  <2>4. CASE SetExpiry
    BY <1>2, <2>1, <2>4, SessionAssumption DEF SetExpiry, SessionsTypeOK
  <2>5. CASE CollectGarbage
    BY <1>2, <2>1, <2>2, <2>5 DEF CollectGarbage, SessionsTypeOK
  <2>6. ASSUME NEW h \in Holders, NEW s \in SessionIDs, Open(h, s) PROVE SessionsTypeOK'
    <3> DEFINE state == IF Kept[s] # NoEntry THEN Kept[s].state ELSE Len(content) + 1
    <3>1. /\ entry' = [Kept EXCEPT ![s] = [state |-> state, last |-> now]]
          /\ held' = [held EXCEPT ![h] = [session |-> s, state |-> state, since |-> now]]
          /\ UNCHANGED <<now, expiry, least>>
      BY <2>6 DEF Open
    <3>2. state \in Nat /\ now \in 0..MaxNow
      BY <1>2, <2>2 DEF SessionsTypeOK
    <3> HIDE DEF state
    <3> QED BY <1>2, <2>1, <2>2, <3>1, <3>2 DEF SessionsTypeOK
  <2>7. ASSUME UNCHANGED storeVars PROVE SessionsTypeOK'
    BY <1>2, <2>1, <2>7 DEF storeVars, SessionsTypeOK
  <2> QED BY <1>2, <2>3, <2>4, <2>5, <2>6, <2>7
          DEF SessionsNext, Merging, ReadOverlay, ReadBase, SetBase, EndMerge, Write, StartMerge,
              storeVars, sessionVars
<1> QED BY <1>1, <1>2, InitStore, NextStore, InitContent, NextContent, PTL DEF SessionsSpec

(* Contexts that took one session no further apart than the shortest       *)
(* expiry share its state, whatever the collection of garbage and changes  *)
(* of the expiry do in between.                                            *)
THEOREM FreshSessionsAreShared == SessionsSpec => []SharedWhileFresh
<1>1. StoreInv => SharedWhileFresh
  BY DEF StoreInv
<1> QED BY <1>1, InitStore, NextStore, InitContent, NextContent, PTL DEF SessionsSpec

(* Contexts of different sessions never hold the same state, whatever has   *)
(* expired, been collected or been made again.                              *)
SessionsApart ==
  \A g, h \in Holders :
    held[g] # NotYet /\ held[h] # NotYet /\ held[g].session # held[h].session
      => held[g].state # held[h].state

(* The store does not give a state to two sessions, nor one that a context  *)
(* of another session still holds after it has expired.                     *)
StatesApart ==
  /\ \A s, t \in SessionIDs :
       entry[s] # NoEntry /\ entry[t] # NoEntry /\ entry[s].state = entry[t].state => s = t
  /\ \A s \in SessionIDs, h \in Holders :
       entry[s] # NoEntry /\ held[h] # NotYet /\ entry[s].state = held[h].state
         => held[h].session = s

ApartInv == SessionsApart /\ StatesApart

(* A new session's state is a new one; a known session's is its own.        *)
LEMMA OpenApart ==
  ASSUME StoreInv, ContentType, ApartInv, NEW o \in Holders, NEW s \in SessionIDs, Open(o, s)
  PROVE  ApartInv'
<1> DEFINE known == Kept[s] # NoEntry
           state == IF known THEN Kept[s].state ELSE Len(content) + 1
<1>1. /\ entry' = [Kept EXCEPT ![s] = [state |-> state, last |-> now]]
      /\ held' = [held EXCEPT ![o] = [session |-> s, state |-> state, since |-> now]]
  BY DEF Open
<1>2. \A t \in SessionIDs : Kept[t] # NoEntry => Kept[t] = entry[t]
  BY KeptSessions DEF StoreInv
<1>3. \A t \in SessionIDs \ {s} : entry[t] # NoEntry => entry[t].state # state
  <2>1. CASE known
    BY <1>2, <2>1 DEF ApartInv, StatesApart
  <2>2. CASE ~known
    BY <2>2 DEF ContentType
  <2> QED BY <2>1, <2>2
<1>4. \A h \in Holders : held[h] # NotYet /\ held[h].state = state => held[h].session = s
  <2>1. CASE known
    BY <1>2, <2>1 DEF ApartInv, StatesApart
  <2>2. CASE ~known
    BY <2>2 DEF ContentType
  <2> QED BY <2>1, <2>2
<1> HIDE DEF state
<1>5. /\ entry'[s] = [state |-> state, last |-> now]
      /\ \A t \in SessionIDs \ {s} : entry'[t] # NoEntry => entry'[t] = entry[t]
      /\ held'[o] = [session |-> s, state |-> state, since |-> now]
      /\ \A h \in Holders \ {o} : held'[h] = held[h]
  BY <1>1, <1>2, KeptSessions DEF StoreInv, StoreType
<1>6. entry'[s].state = state /\ held'[o].state = state /\ held'[o].session = s
  BY <1>5
<1>7. SessionsApart'
  BY <1>4, <1>5, <1>6 DEF ApartInv, SessionsApart
<1>8. ASSUME NEW t \in SessionIDs, NEW u \in SessionIDs, entry'[t] # NoEntry,
             entry'[u] # NoEntry, entry'[t].state = entry'[u].state
      PROVE  t = u
  BY <1>3, <1>5, <1>6, <1>8 DEF ApartInv, StatesApart
<1>9. ASSUME NEW t \in SessionIDs, NEW h \in Holders, entry'[t] # NoEntry,
             held'[h] # NotYet, entry'[t].state = held'[h].state
      PROVE  held'[h].session = t
  <2>1. CASE h = o
    BY <1>3, <1>5, <1>6, <1>9, <2>1
  <2>2. CASE h # o
    BY <1>4, <1>5, <1>6, <1>9, <2>2 DEF ApartInv, StatesApart
  <2> QED BY <2>1, <2>2
<1> QED BY <1>7, <1>8, <1>9 DEF ApartInv, StatesApart

(* Nothing else gives a state to anybody. *)
LEMMA NextApart ==
  StoreInv /\ ContentType /\ ApartInv /\ [SessionsNext]_sessionVars => ApartInv'
<1> SUFFICES ASSUME StoreInv, ContentType, ApartInv, [SessionsNext]_sessionVars PROVE ApartInv'
  OBVIOUS
<1>1. ASSUME NEW h \in Holders, NEW s \in SessionIDs, Open(h, s) PROVE ApartInv'
  BY <1>1, OpenApart
<1>2. CASE held' = held /\ entry' \in {entry, Kept}
  <2>1. \A s \in SessionIDs : entry'[s] # NoEntry => entry'[s] = entry[s]
    BY <1>2, KeptSessions DEF StoreInv
  <2> QED BY <1>2, <2>1 DEF ApartInv, SessionsApart, StatesApart
<1>3. ASSUME \/ Tick \/ SetExpiry \/ CollectGarbage \/ Merging \/ UNCHANGED sessionVars
             \/ \E h \in Holders : Write(h)
             \/ \E b, o \in Holders : StartMerge(b, o)
      PROVE  held' = held /\ entry' \in {entry, Kept}
  BY <1>3 DEF Tick, SetExpiry, CollectGarbage, Merging, ReadOverlay, ReadBase, SetBase, EndMerge,
              Write, StartMerge, storeVars, sessionVars
<1> QED BY <1>1, <1>2, <1>3 DEF SessionsNext

(* Two sessions never share a state. *)
THEOREM SessionsNeverMix == SessionsSpec => []SessionsApart
<1>1. SessionsInit => ApartInv
  BY DEF SessionsInit, ApartInv, SessionsApart, StatesApart
<1>2. ApartInv => SessionsApart
  BY DEF ApartInv
<1> QED BY <1>1, <1>2, InitStore, NextStore, InitContent, NextContent, NextApart, PTL
        DEF SessionsSpec

(* A merge that nobody else interferes with leaves in the base what its    *)
(* rule says, and has overwritten nothing when it fails, however many keys *)
(* there are and in whatever order it takes them.                          *)
THEOREM MergesAreRight == SessionsSpec => []MergeIsRight
<1>1. SessionsInit => MergeInv
  BY DEF SessionsInit, MergeInv
<1>2. MergeInv => MergeIsRight
  BY MergeDone
<1> QED BY <1>1, <1>2, InitStore, NextStore, InitContent, NextContent, NextMerge, PTL DEF SessionsSpec
=============================================================================
