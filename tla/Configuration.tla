--------------------------- MODULE Configuration ---------------------------
(***************************************************************************)
(* LoadConfig of core/config/manager.go, which Initialize and Restart call *)
(* with the same file and the same code overrides while the environment    *)
(* may have changed: defaults, file, environment and overrides are laid    *)
(* over each other, secrets are put in and the outcome is validated.       *)
(*                                                                         *)
(* One field stands for every field that is laid over in the same way:     *)
(*   limit    GlobalLimit and the other numbers validated as positive      *)
(*            (QueueSize, which may be zero, is laid over like them)       *)
(*   level    the strings (LogLevel): a word, or a bad one                 *)
(*   env      Environment                                                  *)
(*   debug, ack   DebugMode and its acknowledgement of the risk            *)
(*   cooldown, accept, expose   the lifecycle settings                     *)
(*   key      the API key of the one provider, "none" without providers    *)
(* Unset is what a layer does not mention; in the caller's overrides, a    *)
(* zero number and an empty string are the same as not mentioned.          *)
(***************************************************************************)
EXTENDS Integers, FiniteSets

CONSTANTS
  FileLayers, EnvLayers, CodeLayers,   \* what each layer may set
  Secrets,                             \* the values the secret's variable may have
  MaxLoads,                            \* bound: calls of LoadConfig
  Unset

Mentioned(values) == {Unset} \cup values

Layers ==
  [limit : Mentioned(Int), level : Mentioned({"info", "bad"}),
   env : Mentioned({"development", "production"}), debug : Mentioned(BOOLEAN),
   ack : Mentioned(BOOLEAN), cooldown : Mentioned(Int), accept : Mentioned(BOOLEAN),
   expose : Mentioned(BOOLEAN), key : Mentioned({"none", "literal", "placeholder"} \cup Secrets)]

ASSUME ConfigAssumption ==
  /\ Unset \notin Int /\ Unset \notin Secrets /\ Unset \notin BOOLEAN /\ Unset \notin Layers
  /\ Unset \notin {"none", "literal", "placeholder", "bad"}
  /\ FileLayers \subseteq Layers \cup {Unset}
  /\ EnvLayers \subseteq Layers /\ \A layer \in EnvLayers : layer.key = Unset
  /\ CodeLayers \subseteq Layers \cup {Unset}
  /\ Secrets \cap {"none", "literal", "placeholder"} = {}
  /\ MaxLoads \in Nat

Default == [limit |-> 2, level |-> "info", env |-> "development", debug |-> FALSE,
            ack |-> FALSE, cooldown |-> 2, accept |-> TRUE, expose |-> FALSE,
            key |-> "none"]

VARIABLES
  fileLayer, envLayer,
  codeLayer,    \* the caller's overrides, whose providers are shared with the result
  secret,       \* the secret's environment variable, Unset when unset
  stage,        \* how far LoadConfig is
  cfg,          \* the configuration it builds
  loads         \* calls so far

configVars == <<fileLayer, envLayer, codeLayer, secret, stage, cfg, loads>>

Stages == {"idle", "file", "env", "code", "secrets", "validate", "loaded", "refused"}

ConfigInit ==
  /\ fileLayer \in FileLayers /\ envLayer \in EnvLayers /\ codeLayer \in CodeLayers
  /\ secret = Unset
  /\ stage = "idle"
  /\ cfg = Default
  /\ loads = 0

(* The environment changes between two loads.                              *)
SetSecret ==
  /\ stage \in {"idle", "loaded", "refused"}
  /\ secret' \in Secrets \cup {Unset}
  /\ stage' = "idle"
  /\ UNCHANGED <<fileLayer, envLayer, codeLayer, cfg, loads>>

StartLoad ==
  /\ stage \in {"idle", "loaded", "refused"} /\ loads < MaxLoads
  /\ loads' = loads + 1
  /\ cfg' = Default
  /\ stage' = "file"
  /\ UNCHANGED <<fileLayer, envLayer, codeLayer, secret>>

Over(layer, field) == IF layer[field] = Unset THEN cfg[field] ELSE layer[field]

(* A file that cannot be read or parsed.                                   *)
FileFails ==
  /\ stage = "file" /\ fileLayer = Unset
  /\ stage' = "refused"
  /\ UNCHANGED <<fileLayer, envLayer, codeLayer, secret, cfg, loads>>

(* Decoding sets what the file mentions, zero or not.                      *)
ApplyFile ==
  /\ stage = "file" /\ fileLayer # Unset
  /\ cfg' = [f \in DOMAIN cfg |-> Over(fileLayer, f)]
  /\ stage' = "env"
  /\ UNCHANGED <<fileLayer, envLayer, codeLayer, secret, loads>>

ApplyEnv ==
  /\ stage = "env"
  /\ cfg' = [f \in DOMAIN cfg |-> IF f = "key" THEN cfg.key ELSE Over(envLayer, f)]
  /\ stage' = "code"
  /\ UNCHANGED <<fileLayer, envLayer, codeLayer, secret, loads>>

(* The two booleans of debugging are taken as they are (as is              *)
(* Redaction.Enabled, which nothing modelled reads), those of the          *)
(* lifecycle with any of its settings.                                     *)
ApplyCode ==
  /\ stage = "code"
  /\ IF codeLayer = Unset
       THEN UNCHANGED cfg
       ELSE cfg' = [f \in DOMAIN cfg |->
              CASE f \in {"debug", "ack"} -> codeLayer[f]
                [] f \in {"accept", "expose"} ->
                     IF codeLayer.cooldown # Unset \/ codeLayer.accept \/ codeLayer.expose
                       THEN codeLayer[f] ELSE cfg[f]
                [] OTHER -> Over(codeLayer, f)]
  /\ stage' = "secrets"
  /\ UNCHANGED <<fileLayer, envLayer, codeLayer, secret, loads>>

(* A placeholder stays when the variable is unset.  The providers of the   *)
(* overrides are the very ones of the result: their key is replaced too.   *)
Interpolate ==
  /\ stage = "secrets"
  /\ LET found == cfg.key = "placeholder" /\ secret # Unset
         shared == codeLayer # Unset /\ codeLayer.key # Unset
     IN /\ cfg' = IF found THEN [cfg EXCEPT !.key = secret] ELSE cfg
        /\ codeLayer' = IF found /\ shared THEN [codeLayer EXCEPT !.key = secret] ELSE codeLayer
  /\ stage' = "validate"
  /\ UNCHANGED <<fileLayer, envLayer, secret, loads>>

(* Mutant: debugging needs the acknowledgement of some layer, not of the   *)
(* outcome. *)
ValidAnyAck(c) ==
  /\ c.level # "bad" /\ c.limit > 0 /\ c.cooldown > 0
  /\ c.key # "placeholder"
  /\ c.debug /\ c.env = "production" =>
       c.ack \/ envLayer.ack = TRUE \/ (fileLayer # Unset /\ fileLayer.ack = TRUE)

ValidConfig(c) ==
  /\ c.level # "bad" /\ c.limit > 0 /\ c.cooldown > 0
  /\ c.key # "placeholder"
  /\ c.debug /\ c.env = "production" => c.ack

Validate ==
  /\ stage = "validate"
  /\ stage' = IF ValidConfig(cfg) THEN "loaded" ELSE "refused"
  /\ UNCHANGED <<fileLayer, envLayer, codeLayer, secret, cfg, loads>>

ConfigNext ==
  \/ SetSecret \/ StartLoad \/ FileFails \/ ApplyFile \/ ApplyEnv \/ ApplyCode
  \/ Interpolate \/ Validate

ConfigSpec == ConfigInit /\ [][ConfigNext]_configVars

-----------------------------------------------------------------------------
(* The layer that decides a number or string: the last one that sets it.   *)
Decided(field) ==
  LET set == {i \in 1..3 : <<fileLayer, envLayer, codeLayer>>[i] # Unset
                /\ <<fileLayer, envLayer, codeLayer>>[i][field] # Unset}
  IN IF set = {} THEN Default[field]
     ELSE LET last == CHOOSE i \in set : \A j \in set : j <= i
          IN <<fileLayer, envLayer, codeLayer>>[last][field]

(* What LoadConfig accepts, at the first load as at any later one: numbers *)
(* and strings come from the last layer that sets them, no limit is below  *)
(* one, no placeholder is left in a key, a key of the file is the secret   *)
(* of today, and production is debugged only with the acknowledgement      *)
(* (manager.go 157-186, 351-418).                                          *)
LoadIsRight ==
  stage = "loaded" =>
    /\ \A f \in {"limit", "level", "env", "cooldown"} : cfg[f] = Decided(f)
    /\ cfg.limit >= 1 /\ cfg.cooldown >= 1 /\ cfg.level # "bad" /\ cfg.key # "placeholder"
    /\ (codeLayer = Unset \/ codeLayer.key = Unset) =>
         cfg.key = IF Decided("key") = "placeholder" THEN secret ELSE Decided("key")
    /\ cfg.env = "production" /\ cfg.debug => cfg.ack
=============================================================================
