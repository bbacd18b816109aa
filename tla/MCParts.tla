------------------------------ MODULE MCParts ------------------------------
(***************************************************************************)
(* The parts of the core that do not call each other, one of them, chosen  *)
(* at the start, running on its own: the matcher of topics, the backoff,   *)
(* the configuration, the session store and the context layers.            *)
(***************************************************************************)
EXTENDS TopicMatch, Backoff, Configuration, Sessions, Contexts, TLC

CONSTANTS s1, s2, h1, h2, h3, k1, k2, v1, v2

VARIABLE part

(* All patterns and topics of up to three segments over two words.         *)
MCSegments == {"a", "b"}
SequencesOver(S) == UNION {[1..n -> S] : n \in 0..3}
MCPatterns == SequencesOver(MCSegments \cup {"*", "**"})
MCTopics == SequencesOver(MCSegments)

MCPolicies == [strategy : Strategies, base : {0, 1, 3}, maxDelay : {0, 5, 20}, jitter : BOOLEAN]

MCTries == -1..7

(* The layers of a configuration: nothing, or a value of each kind.        *)
NothingSet == [f \in DOMAIN Default |-> Unset]
MCFileLayers ==
  {Unset} \cup
  [limit : {Unset, 0, 1}, level : {Unset}, env : {Unset, "production"}, debug : {Unset, TRUE},
   ack : {Unset}, cooldown : {Unset}, accept : {Unset}, expose : {Unset},
   key : {Unset, "placeholder"}]
MCEnvLayers ==
  [limit : {Unset}, level : {Unset, "bad"}, env : {Unset, "production"}, debug : {Unset},
   ack : {Unset, TRUE}, cooldown : {Unset}, accept : {Unset}, expose : {Unset}, key : {Unset}]
MCCodeLayers ==
  {Unset} \cup
  [limit : {Unset, 2}, level : {Unset}, env : {Unset}, debug : BOOLEAN, ack : BOOLEAN,
   cooldown : {Unset}, accept : {FALSE}, expose : {FALSE}, key : {Unset, "placeholder"}]

EachOfTwo == [k \in MetaKeys |-> 2]

Symmetry == Permutations({s1, s2}) \cup Permutations({h1, h2, h3}) \cup Permutations({k1, k2})
              \cup Permutations({v1, v2})

-----------------------------------------------------------------------------
(* A part that is not chosen stays in one of its initial states.           *)
MatchIdle == pattern = <<>> /\ topic = <<>> /\ i = 1 /\ answer = "yes"

BackoffIdle ==
  /\ policy = [strategy |-> "constant", base |-> 1, maxDelay |-> 0, jitter |-> FALSE]
  /\ try = 1 /\ doubled = 1 /\ multiplier = 1 /\ delay = Unknown

ConfigIdle == fileLayer = NothingSet /\ envLayer = NothingSet /\ codeLayer = Unset /\ ConfigInit

SessionsIdle == expiry = 1 /\ SessionsInit

Init ==
  \/ /\ part = "topics" /\ MatchInit
     /\ BackoffIdle /\ ConfigIdle /\ SessionsIdle /\ ContextsInit
  \/ /\ part = "backoff" /\ BackoffInit
     /\ MatchIdle /\ ConfigIdle /\ SessionsIdle /\ ContextsInit
  \/ /\ part = "config" /\ ConfigInit
     /\ MatchIdle /\ BackoffIdle /\ SessionsIdle /\ ContextsInit
  \/ /\ part = "sessions" /\ SessionsInit
     /\ MatchIdle /\ BackoffIdle /\ ConfigIdle /\ ContextsInit
  \/ /\ part = "contexts" /\ ContextsInit
     /\ MatchIdle /\ BackoffIdle /\ ConfigIdle /\ SessionsIdle

Next ==
  /\ UNCHANGED part
  /\ \/ part = "topics" /\ MatchNext /\ UNCHANGED <<backoffVars, configVars, sessionVars, contextVars>>
     \/ part = "backoff" /\ BackoffNext /\ UNCHANGED <<matchVars, configVars, sessionVars, contextVars>>
     \/ part = "config" /\ ConfigNext /\ UNCHANGED <<matchVars, backoffVars, sessionVars, contextVars>>
     \/ part = "sessions" /\ SessionsNext /\ UNCHANGED <<matchVars, backoffVars, configVars, contextVars>>
     \/ part = "contexts" /\ ContextsNext /\ UNCHANGED <<matchVars, backoffVars, configVars, sessionVars>>

partsVars == <<part, matchVars, backoffVars, configVars, sessionVars, contextVars>>

Spec == Init /\ [][Next]_partsVars
=============================================================================
