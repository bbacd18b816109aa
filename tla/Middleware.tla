----------------------------- MODULE Middleware -----------------------------
(***************************************************************************)
(* The request pipeline of core/middleware: concurrent requests go through *)
(* a validated chain of middlewares that share state -- the token buckets  *)
(* of the rate limiter, the cost budget, the result cache -- and end in    *)
(* the core handler, whose attempts charge the budget (executeAttempts and *)
(* RecordCost).                                                            *)
(*                                                                         *)
(* A step is one critical section or one atomic load or compare-and-swap.  *)
(* The logging and telemetry middlewares only pass a request on and are    *)
(* left out.  Tokens are counted in parts so that a refill may be a        *)
(* fraction of a token; time advances by whole ticks.  A text that goes    *)
(* into a cache key is the sequence of its pieces between colons, so that  *)
(* joining texts with colons is joining these sequences, and texts that    *)
(* contain colons can join to the same key.                                *)
(***************************************************************************)
EXTENDS Integers, Sequences, FiniteSets, FiniteSetsExt, Functions

CONSTANTS
  Requests,
  Users,         \* the users a verifier knows
  Admins,        \* those whose claims have the role admin
  TokensOf,      \* what the token of a request may stand for: a user, "bad" when
                 \* it is missing or refused, or Anonymous when the verifier
                 \* accepts it without naming a user
  Critical,      \* the requests of priority class CRITICAL
  NameText,      \* the user IDs as texts; Anonymous is the empty one, <<"">>
  ProviderText,  \* ExecutionRequest.ProviderRef
  PayloadText,   \* what %v prints of ExecutionRequest.Payload
  Budgeted,      \* the requests whose context carries the cost budget
  Estimate,      \* cost_estimate of a request, or the default
  Charges,       \* what one attempt may cost
  Limit,         \* CostBudget.Limit
  MaxAttempts,
  Part,          \* parts of one token
  Rate,          \* parts refilled in one tick
  Capacity,      \* parts a bucket holds
  MaxTime,       \* bound on the clock
  Chains,        \* the chains a runtime may be configured with
  Anonymous,     \* the empty user ID
  NoRequest

Kinds == {"Authentication", "Authorization", "RateLimiting", "CostGuard", "Caching"}

Names == Users \cup {Anonymous}
Texts == Seq(STRING) \ {<<>>}

ASSUME RequestAssumption ==
  /\ IsFiniteSet(Requests) /\ NoRequest \notin Requests
  /\ Anonymous \notin Users /\ "bad" \notin Users /\ Anonymous # "bad"
  /\ Admins \subseteq Users
  /\ TokensOf \in [Requests -> SUBSET (Users \cup {Anonymous, "bad"})]
  /\ Critical \subseteq Requests /\ Budgeted \subseteq Requests
  /\ Estimate \in [Requests -> Nat]
ASSUME TextAssumption ==
  /\ NameText \in [Names -> Texts] /\ NameText[Anonymous] = <<"">>
  /\ \A u, v \in Names : NameText[u] = NameText[v] => u = v
  /\ ProviderText \in [Requests -> Texts] /\ PayloadText \in [Requests -> Texts]
ASSUME RateAssumption ==
  /\ Part \in Nat \ {0} /\ Rate \in Nat /\ Capacity \in Nat /\ MaxTime \in Nat
ASSUME CostAssumption ==
  /\ Charges \subseteq Nat /\ (\E most \in Charges : \A c \in Charges : most >= c)
  /\ Limit \in Nat /\ MaxAttempts \in Nat \ {0}
ASSUME ChainAssumption == Chains \subseteq Seq(Kinds)

VARIABLES
  chain,      \* Pipeline.middlewares
  clock,
  bucket,     \* the token bucket of each user, made at its first request
  spent,      \* the budget's spentBits
  cache,      \* the request whose result each cache key holds
  point,      \* where each request is
  token,      \* what its token stands for
  place,      \* the middleware it has reached, an index of chain
  user,       \* the user in its context
  slot,       \* the cache key it missed, which its result will fill
  read,       \* the value of spentBits it is about to replace
  cost,       \* what its attempt is charged
  tries,      \* attempts made
  answer,     \* how it ended
  source,     \* the request whose result it was answered with
  \* history, read by no action
  admitted,   \* when each user's requests passed the rate limiter
  charged,    \* the sum of all costs recorded
  ceiling     \* the most that may be spent, seen from the last admission

requestVars == <<point, token, place, user, slot, read, cost, tries, answer, source>>
vars == <<chain, clock, bucket, spent, cache, point, token, place, user, slot, read,
          cost, tries, answer, source, admitted, charged, ceiling>>

-----------------------------------------------------------------------------
(* Pipeline validation.                                                    *)
Dependencies(kind) ==
  CASE kind = "Authentication" -> {}
    [] kind = "Caching"        -> {"authorized"}
    [] OTHER                   -> {"authenticated"}

Provides(kind) ==
  CASE kind = "Authentication" -> "authenticated"
    [] kind = "Authorization"  -> "authorized"
    [] kind = "RateLimiting"   -> "rate_limit_checked"
    [] kind = "CostGuard"      -> "budget_reserved"
    [] kind = "Caching"        -> "cache_checked"

(* Mutant: a dependency may be provided anywhere in the chain. *)
ValidAnyOrder(c) ==
  /\ \A i \in DOMAIN c : \A dep \in Dependencies(c[i]) : \E j \in DOMAIN c : Provides(c[j]) = dep
  /\ \A i, j \in DOMAIN c : Provides(c[i]) = Provides(c[j]) => i = j

Valid(c) ==
  /\ \A i \in DOMAIN c : \A dep \in Dependencies(c[i]) :
       \E j \in 1..(i - 1) : Provides(c[j]) = dep
  /\ \A i, j \in DOMAIN c : Provides(c[i]) = Provides(c[j]) => i = j

-----------------------------------------------------------------------------
NoBucket == [tokens |-> -1, lastTick |-> 0]

CacheKey(u, r) == NameText[u] \o ProviderText[r] \o PayloadText[r]   \* "%s:%s:%v"
CacheKeys == {CacheKey(u, r) : u \in Names, r \in Requests}
NoKey == <<>>

Init ==
  /\ chain \in Chains
  /\ clock = 0
  /\ bucket = [u \in Users |-> NoBucket]
  /\ spent = 0
  /\ cache = [k \in CacheKeys |-> NoRequest]
  /\ point = [r \in Requests |-> "new"]
  /\ token \in [Requests -> Users \cup {Anonymous, "bad"}]
  /\ \A r \in Requests : token[r] \in TokensOf[r]
  /\ place = [r \in Requests |-> 1]
  /\ user = [r \in Requests |-> Anonymous]
  /\ slot = [r \in Requests |-> NoKey]
  /\ read = [r \in Requests |-> 0]
  /\ cost = [r \in Requests |-> 0]
  /\ tries = [r \in Requests |-> 0]
  /\ answer = [r \in Requests |-> "none"]
  /\ source = [r \in Requests |-> NoRequest]
  /\ admitted = [u \in Users |-> <<>>]
  /\ charged = 0
  /\ ceiling = 0

(* A runtime whose pipeline does not validate never starts.                *)
Arrive(r) ==
  /\ Valid(chain)
  /\ point[r] = "new"
  /\ point' = [point EXCEPT ![r] = "chain"]
  /\ UNCHANGED <<chain, token, clock, bucket, spent, cache, place, user, slot, read, cost,
                 tries, answer, source, admitted, charged, ceiling>>

Tick ==
  /\ clock < MaxTime
  /\ clock' = clock + 1
  /\ UNCHANGED <<chain, bucket, spent, cache, requestVars, admitted, charged, ceiling>>

Reached(r, kind) ==
  point[r] = "chain" /\ place[r] \in DOMAIN chain /\ chain[place[r]] = kind

(* next(ctx, req) *)
Pass(r) == place' = [place EXCEPT ![r] = @ + 1] /\ UNCHANGED <<point, answer>>

Finish(r, how) ==
  /\ answer' = [answer EXCEPT ![r] = how]
  /\ point' = [point EXCEPT ![r] = "done"]

Refuse(r, why) == Finish(r, why) /\ UNCHANGED place

-----------------------------------------------------------------------------
Authenticate(r) ==
  /\ Reached(r, "Authentication")
  /\ IF token[r] = "bad"
       THEN Refuse(r, "auth") /\ UNCHANGED user
       ELSE Pass(r) /\ user' = [user EXCEPT ![r] = token[r]]
  /\ UNCHANGED <<chain, token, clock, bucket, spent, cache, slot, read, cost, tries, source,
                 admitted, charged, ceiling>>

MayRun(r) == user[r] # Anonymous /\ (r \in Critical => user[r] \in Admins)

Authorize(r) ==
  /\ Reached(r, "Authorization")
  /\ IF MayRun(r) THEN Pass(r) ELSE Refuse(r, "auth")
  /\ UNCHANGED <<chain, token, clock, bucket, spent, cache, user, slot, read, cost, tries,
                 source, admitted, charged, ceiling>>

(* The tokens of a user's bucket now: a new bucket is full, an old one is  *)
(* refilled for the time since it was last looked at.                      *)
Refilled(u) ==
  IF bucket[u] = NoBucket THEN Capacity
  ELSE LET more == bucket[u].tokens + Rate * (clock - bucket[u].lastTick)
       IN IF more > Capacity THEN Capacity ELSE more

(* Mutant: a fraction of a token is enough. *)
HasTokenPart(u) == Refilled(u) > 0

HasToken(u) == Refilled(u) >= Part

LimitRate(r) ==
  /\ Reached(r, "RateLimiting")
  /\ LET u == user[r] IN
       \/ /\ u = Anonymous
          /\ Pass(r)
          /\ UNCHANGED <<bucket, admitted>>
       \/ /\ u # Anonymous /\ ~HasToken(u)
          /\ bucket' = [bucket EXCEPT ![u] = [tokens |-> Refilled(u), lastTick |-> clock]]
          /\ Refuse(r, "limited")
          /\ UNCHANGED admitted
       \/ /\ u # Anonymous /\ HasToken(u)
          /\ bucket' = [bucket EXCEPT ![u] = [tokens |-> Refilled(u) - Part, lastTick |-> clock]]
          /\ admitted' = [admitted EXCEPT ![u] = Append(@, clock)]
          /\ Pass(r)
  /\ UNCHANGED <<chain, token, clock, spent, cache, user, slot, read, cost, tries, source,
                 charged, ceiling>>

(* The requests past the cost guard that can still be charged.             *)
Guarded(r) ==
  /\ r \in Budgeted
  /\ point[r] \notin {"new", "done"}
  /\ \E i \in DOMAIN chain : chain[i] = "CostGuard" /\ i < place[r]

LeftToCharge(r) == MaxAttempts - tries[r] + (IF point[r] \in {"load", "swap"} THEN 1 ELSE 0)

(* Mutant: the estimate is left out of the comparison. *)
TryReserveNow(amount) == Limit <= 0 \/ spent <= Limit

TryReserve(amount) == Limit <= 0 \/ spent + amount <= Limit

GuardCost(r) ==
  /\ Reached(r, "CostGuard")
  /\ IF r \in Budgeted /\ ~TryReserve(Estimate[r])
       THEN Refuse(r, "over budget") /\ UNCHANGED ceiling
       ELSE /\ Pass(r)
            /\ ceiling' = IF r \in Budgeted
                 THEN Limit - Estimate[r]
                      + Max(Charges) * SumFunctionOnSet([q \in Requests |-> LeftToCharge(q)],
                                                        {q \in Requests : Guarded(q)} \cup {r})
                 ELSE ceiling
  /\ UNCHANGED <<chain, token, clock, bucket, spent, cache, user, slot, read, cost, tries, source,
                 admitted, charged>>

LookUp(r) ==
  /\ Reached(r, "Caching")
  /\ LET key == CacheKey(user[r], r) IN
       IF cache[key] # NoRequest
         THEN /\ Refuse(r, "served")
              /\ source' = [source EXCEPT ![r] = cache[key]]
              /\ UNCHANGED slot
         ELSE /\ Pass(r)
              /\ slot' = [slot EXCEPT ![r] = key]
              /\ UNCHANGED source
  /\ UNCHANGED <<chain, token, clock, bucket, spent, cache, user, read, cost, tries, admitted,
                 charged, ceiling>>

-----------------------------------------------------------------------------
(* The core handler: an attempt ends and its cost is recorded, whatever    *)
(* came of it.                                                             *)
EndAttempt(r) ==
  /\ point[r] = "chain" /\ place[r] = Len(chain) + 1
  /\ \E c \in Charges : cost' = [cost EXCEPT ![r] = c]
  /\ tries' = [tries EXCEPT ![r] = @ + 1]
  /\ point' = [point EXCEPT ![r] = IF r \in Budgeted THEN "load" ELSE "charged"]
  /\ UNCHANGED <<chain, token, clock, bucket, spent, cache, place, user, slot, read, answer,
                 source, admitted, charged, ceiling>>

(* AddSpent: load the sum, then swap in the new one unless it has changed. *)
LoadSpent(r) ==
  /\ point[r] = "load"
  /\ read' = [read EXCEPT ![r] = spent]
  /\ point' = [point EXCEPT ![r] = "swap"]
  /\ UNCHANGED <<chain, token, clock, bucket, spent, cache, place, user, slot, cost, tries,
                 answer, source, admitted, charged, ceiling>>

(* Mutant: a plain store. *)
StoreSpent(r) ==
  /\ point[r] = "swap"
  /\ read' = [read EXCEPT ![r] = 0]
  /\ spent' = read[r] + cost[r]
  /\ charged' = charged + cost[r]
  /\ point' = [point EXCEPT ![r] = "charged"]
  /\ UNCHANGED <<chain, token, clock, bucket, cache, place, user, slot, cost, tries,
                 answer, source, admitted, ceiling>>

SwapSpent(r) ==
  /\ point[r] = "swap"
  /\ read' = [read EXCEPT ![r] = 0]
  /\ \/ /\ spent = read[r]
        /\ spent' = read[r] + cost[r]
        /\ charged' = charged + cost[r]
        /\ point' = [point EXCEPT ![r] = "charged"]
     \/ /\ spent # read[r]
        /\ point' = [point EXCEPT ![r] = "load"]
        /\ UNCHANGED <<spent, charged>>
  /\ UNCHANGED <<chain, token, clock, bucket, cache, place, user, slot, cost, tries,
                 answer, source, admitted, ceiling>>

(* After an attempt: another one, the failure, or the success, which the   *)
(* caching middleware stores on the way out if it is in the chain.         *)
Retry(r) ==
  /\ point[r] = "charged" /\ tries[r] < MaxAttempts
  /\ point' = [point EXCEPT ![r] = "chain"]
  /\ UNCHANGED <<chain, token, clock, bucket, spent, cache, place, user, slot, read, cost,
                 tries, answer, source, admitted, charged, ceiling>>

Fail(r) ==
  /\ point[r] = "charged"
  /\ Finish(r, "failed")
  /\ UNCHANGED <<chain, token, clock, bucket, spent, cache, place, user, slot, read, cost,
                 tries, source, admitted, charged, ceiling>>

Succeed(r) ==
  /\ point[r] = "charged"
  /\ Finish(r, "served")
  /\ source' = [source EXCEPT ![r] = r]
  /\ cache' = IF slot[r] = NoKey THEN cache ELSE [cache EXCEPT ![slot[r]] = r]
  /\ UNCHANGED <<chain, token, clock, bucket, spent, place, user, slot, read, cost, tries,
                 admitted, charged, ceiling>>

Handle(r) ==
  \/ Arrive(r) \/ Authenticate(r) \/ Authorize(r) \/ LimitRate(r) \/ GuardCost(r)
  \/ LookUp(r) \/ EndAttempt(r) \/ LoadSpent(r) \/ SwapSpent(r) \/ Retry(r)
  \/ Fail(r) \/ Succeed(r)

Next == Tick \/ \E r \in Requests : Handle(r)

Spec == Init /\ [][Next]_vars

-----------------------------------------------------------------------------
(* In every stretch of time, from one admission of a user to a later one,  *)
(* the rate limiter lets through no more than a burst of its capacity and  *)
(* what the rate has refilled meanwhile (ratelimit.go 57-79).              *)
RateWithinBurst ==
  \A u \in Users : \A i, j \in DOMAIN admitted[u] :
    i <= j => (j - i + 1) * Part <= Capacity + Rate * (admitted[u][j] - admitted[u][i])

Plain(u, r) == Len(NameText[u]) = 1 /\ Len(ProviderText[r]) = 1   \* no colon in either

(* The result of s may answer r: the users their tokens stand for give     *)
(* both the same cache key and, unless a user ID or a provider reference   *)
(* contains a colon, are the same user, with the same provider and payload.*)
MayAnswer(s, r) ==
  /\ {token[s], token[r]} \subseteq Names
  /\ CacheKey(token[s], s) = CacheKey(token[r], r)
  /\ Plain(token[s], s) /\ Plain(token[r], r) =>
       token[s] = token[r] /\ ProviderText[s] = ProviderText[r] /\ PayloadText[s] = PayloadText[r]

(* Whoever is served was allowed the priority it asked for where the chain *)
(* authorizes, and gets its own result or one cached for the same user,    *)
(* provider and payload, as far as the joined key tells them apart         *)
(* (auth.go 98-110, cache.go 29-47, in every order of middlewares Validate *)
(* lets through).                                                          *)
ServedToEntitled ==
  \A r \in Requests : answer[r] = "served" =>
    LET s == source[r] IN
      /\ s # r => MayAnswer(s, r)
      /\ (\E i \in DOMAIN chain : chain[i] = "Authorization") =>
           token[r] \in Users /\ (r \in Critical => token[r] \in Admins)

(* The budget loses no cost to concurrent updates (context.go 56-69).      *)
SpentIsTotal == spent = charged

(* The guard compares and reserves nothing, so a budget can be overrun,    *)
(* but by no more than the requests past it at its last admission may      *)
(* still be charged: nobody is let in on a budget that has no room for its *)
(* estimate (costguard.go 27-53, context.go 75-83).                        *)
OverspendBounded ==
  Limit > 0 /\ (\E i \in DOMAIN chain : chain[i] = "CostGuard") => spent <= ceiling
=============================================================================
