-------------------------- MODULE Middleware_proofs --------------------------
(***************************************************************************)
(* Theorems about the request pipeline, for any number of requests and     *)
(* users, any chain, rate, capacity and costs.                             *)
(***************************************************************************)
EXTENDS Middleware, Sums, SequenceTheorems, TLAPS

-----------------------------------------------------------------------------
(* The types of what the rate limiter reads and writes.                    *)
RateType ==
  /\ clock \in Nat
  /\ bucket \in [Users -> [tokens : Int, lastTick : Int]]
  /\ admitted \in [Users -> Seq(Nat)]
  /\ user \in [Requests -> Users \cup {Anonymous}]
  /\ token \in [Requests -> Users \cup {Anonymous, "bad"}]

(* The rate limiter's invariant: a user without a bucket has not been      *)
(* admitted; otherwise, counting from any admission on, what has been let  *)
(* through since and what the bucket still holds is within a burst and     *)
(* what was refilled by the time the bucket was last looked at.            *)
Balanced(u) ==
  /\ bucket[u].tokens \in 0..Capacity
  /\ bucket[u].lastTick \in 0..clock
  /\ \A i \in DOMAIN admitted[u] :
       /\ admitted[u][i] <= bucket[u].lastTick
       /\ (Len(admitted[u]) - i + 1) * Part + bucket[u].tokens
            <= Capacity + Rate * (bucket[u].lastTick - admitted[u][i])

RateInv ==
  \A u \in Users : IF bucket[u] = NoBucket THEN admitted[u] = <<>> ELSE Balanced(u)

(* A refilled bucket holds between nothing and its capacity. *)
LEMMA RefilledType ==
  ASSUME RateType, RateInv, NEW u \in Users
  PROVE  Refilled(u) \in 0..Capacity
<1>1. CASE bucket[u] = NoBucket
  BY <1>1, RateAssumption DEF Refilled
<1>2. CASE bucket[u] # NoBucket
  <2>1. bucket[u].tokens \in 0..Capacity /\ clock - bucket[u].lastTick \in Nat
    BY <1>2 DEF RateType, RateInv, Balanced
  <2>2. Rate * (clock - bucket[u].lastTick) \in Nat
    BY <2>1, RateAssumption
  <2> QED BY <1>2, <2>1, <2>2, RateAssumption DEF Refilled
<1> QED BY <1>1, <1>2

(* What the rate limiter does: nothing to an anonymous request, otherwise  *)
(* it refills the user's bucket, and either takes a token and admits or    *)
(* refuses.                                                                *)
LEMMA LimitRateCases ==
  ASSUME RateType, NEW r \in Requests, LimitRate(r)
  PROVE  /\ UNCHANGED <<clock, user, token>>
         /\ \/ UNCHANGED <<bucket, admitted>>
            \/ /\ user[r] \in Users
               /\ bucket' = [bucket EXCEPT ![user[r]] =
                               [tokens |-> Refilled(user[r]), lastTick |-> clock]]
               /\ UNCHANGED admitted
            \/ /\ user[r] \in Users /\ HasToken(user[r])
               /\ bucket' = [bucket EXCEPT ![user[r]] =
                               [tokens |-> Refilled(user[r]) - Part, lastTick |-> clock]]
               /\ admitted' = [admitted EXCEPT ![user[r]] = Append(@, clock)]
  BY DEF LimitRate, RateType

(* No other handler touches the rate limiter's state.                      *)
LEMMA OthersSpareRate ==
  ASSUME NEW r \in Requests, Handle(r), ~LimitRate(r)
  PROVE  UNCHANGED <<clock, bucket, admitted>>
  BY DEF Handle, Arrive, Authenticate, Authorize, GuardCost, LookUp, EndAttempt, LoadSpent,
         SwapSpent, Retry, Fail, Succeed

(* The user of a request changes only in the authentication, to whom its   *)
(* token stands for.                                                       *)
LEMMA UserChange ==
  ASSUME NEW r \in Requests, Handle(r)
  PROVE  /\ token' = token
         /\ \/ user' = user
            \/ token[r] # "bad" /\ user' = [user EXCEPT ![r] = token[r]]
  BY DEF Handle, Arrive, Authenticate, Authorize, LimitRate, GuardCost, LookUp, EndAttempt,
         LoadSpent, SwapSpent, Retry, Fail, Succeed

(* Initially the rate limiter's state has its type. *)
LEMMA InitRateType == Init => RateType
  BY DEF Init, RateType, NoBucket

(* Every step keeps it. *)
LEMMA NextRateType == RateType /\ RateInv /\ [Next]_vars => RateType'
<1> SUFFICES ASSUME RateType, RateInv, [Next]_vars PROVE RateType'
  OBVIOUS
<1>1. CASE Tick
  BY <1>1 DEF Tick, requestVars, RateType
<1>2. ASSUME NEW r \in Requests, Handle(r) PROVE RateType'
  <2>1. user' \in [Requests -> Users \cup {Anonymous}] /\ token' = token
    BY <1>2, UserChange DEF RateType
  <2>2. CASE LimitRate(r)
    <3>1. clock' = clock
      BY <2>2, LimitRateCases
    <3>2. \A u \in Users : Refilled(u) \in Int /\ Refilled(u) - Part \in Int
      BY RefilledType, RateAssumption
    <3>3. bucket' \in [Users -> [tokens : Int, lastTick : Int]]
      BY <2>2, <3>2, LimitRateCases DEF RateType
    <3>4. \A u \in Users : Append(admitted[u], clock) \in Seq(Nat)
      BY DEF RateType
    <3>5. admitted' \in [Users -> Seq(Nat)]
      <4>1. CASE admitted' = admitted
        BY <4>1 DEF RateType
      <4>2. CASE /\ user[r] \in Users
                 /\ admitted' = [admitted EXCEPT ![user[r]] = Append(@, clock)]
        BY <3>4, <4>2 DEF RateType
      <4> QED BY <2>2, <4>1, <4>2, LimitRateCases
    <3> QED BY <2>1, <3>1, <3>3, <3>5 DEF RateType
  <2>3. CASE ~LimitRate(r)
    BY <1>2, <2>1, <2>3, OthersSpareRate DEF RateType
  <2> QED BY <2>2, <2>3
<1>3. CASE UNCHANGED vars
  BY <1>3 DEF vars, RateType
<1> QED BY <1>1, <1>2, <1>3 DEF Next

-----------------------------------------------------------------------------
(* The rate limiter.                                                       *)

(* A product with the rate or with the part of a token is a number.        *)
LEMMA RateTimes == \A i \in Int : Rate * i \in Int /\ i * Part \in Int
  BY RateAssumption

(* A bound that holds when a bucket was last looked at holds now, as the   *)
(* refill of two stretches of time adds up.                                *)
LEMMA RefillAddsUp ==
  ASSUME NEW n \in Int, NEW held \in Int, NEW full \in Int,
         NEW at \in Int, NEW last \in Int, NEW now \in Int,
         n + held <= Capacity + Rate * (last - at),
         full <= held + Rate * (now - last)
  PROVE  n + full <= Capacity + Rate * (now - at)
<1>1. Rate * (last - at) + Rate * (now - last) = Rate * (now - at)
  BY RateAssumption
<1>2. Rate * (last - at) \in Int /\ Rate * (now - last) \in Int /\ Rate * (now - at) \in Int
  BY RateTimes
<1>3. Capacity \in Int
  BY RateAssumption
<1> QED BY <1>1, <1>2, <1>3

(* Initially nobody has a bucket. *)
LEMMA InitRate == Init => RateInv
  BY DEF Init, RateInv

(* A step of the rate limiter keeps a user's account balanced: the refill  *)
(* is the rate's, and an admission moves one token from the bucket to the  *)
(* admitted.                                                               *)
LEMMA SinceBalanced ==
  ASSUME RateType, RateInv, NEW u \in Users, NEW i \in DOMAIN admitted[u]
  PROVE  /\ admitted[u][i] \in 0..clock
         /\ (Len(admitted[u]) - i + 1) * Part + Refilled(u)
              <= Capacity + Rate * (clock - admitted[u][i])
<1> DEFINE at == admitted[u][i]
           n == (Len(admitted[u]) - i + 1) * Part
           last == bucket[u].lastTick
           held == bucket[u].tokens
<1>1. admitted[u] \in Seq(Nat) /\ clock \in Nat /\ Refilled(u) \in 0..Capacity
  BY RefilledType DEF RateType
<1>2. bucket[u] # NoBucket /\ Balanced(u)
  BY <1>1 DEF RateInv
<1>3. at \in Nat /\ Len(admitted[u]) \in Nat /\ i \in Int
  BY <1>1
<1>4. held \in 0..Capacity /\ last \in 0..clock /\ at <= last
      /\ n + held <= Capacity + Rate * (last - at)
  BY <1>2 DEF Balanced
<1>5. n \in Int /\ held \in Int /\ last \in Int /\ at \in Int /\ Refilled(u) \in Int
  <2>1. Len(admitted[u]) - i + 1 \in Int
    BY <1>3
  <2>2. n \in Int
    BY <2>1, RateTimes
  <2> HIDE DEF n
  <2> QED BY <1>1, <1>3, <1>4, <2>2, RateAssumption
<1>6. Refilled(u) <= held + Rate * (clock - last)
  <2>1. clock - last \in Int
    BY <1>1, <1>5
  <2>2. held + Rate * (clock - last) \in Int
    <3>1. Rate * (clock - last) \in Int
      BY <2>1, RateTimes
    <3> QED BY <1>5, <3>1
  <2> QED BY <1>2, <2>2, RateAssumption DEF Refilled
<1>7. n + Refilled(u) <= Capacity + Rate * (clock - at)
  <2> HIDE DEF n, at, last, held
  <2>1. clock \in Int
    BY <1>1
  <2> QED BY <1>4, <1>5, <1>6, <2>1, RefillAddsUp, Zenon
<1>8. at \in 0..clock
  <2> HIDE DEF n, at, last, held
  <2> QED BY <1>1, <1>3, <1>4
<1> QED BY <1>7, <1>8

(* After a refusal the account is balanced. *)
LEMMA RefusedBalanced ==
  ASSUME RateType, RateInv, NEW u \in Users, admitted'[u] = admitted[u],
         bucket'[u] = [tokens |-> Refilled(u), lastTick |-> clock], clock' = clock
  PROVE  Balanced(u)'
<1>1. Refilled(u) \in 0..Capacity /\ clock \in 0..clock
  BY RefilledType DEF RateType
<1>2. \A i \in DOMAIN admitted[u] :
        /\ admitted[u][i] <= clock
        /\ (Len(admitted[u]) - i + 1) * Part + Refilled(u)
             <= Capacity + Rate * (clock - admitted[u][i])
  BY SinceBalanced DEF RateType
<1> QED BY <1>1, <1>2 DEF Balanced

(* After an admission the account is balanced. *)
LEMMA AdmittedBalanced ==
  ASSUME RateType, RateInv, NEW u \in Users, HasToken(u),
         admitted'[u] = Append(admitted[u], clock),
         bucket'[u] = [tokens |-> Refilled(u) - Part, lastTick |-> clock], clock' = clock
  PROVE  Balanced(u)'
<1> DEFINE adm == admitted[u]
           left == Refilled(u) - Part
<1>1. adm \in Seq(Nat) /\ clock \in Nat /\ Refilled(u) \in 0..Capacity
  BY RefilledType DEF RateType
<1>2. left \in 0..Capacity
  BY <1>1, RateAssumption DEF HasToken
<1>3. /\ Len(admitted'[u]) = Len(adm) + 1 /\ DOMAIN admitted'[u] = 1..(Len(adm) + 1)
      /\ admitted'[u][Len(adm) + 1] = clock
      /\ \A i \in 1..Len(adm) : admitted'[u][i] = adm[i]
      /\ Len(adm) \in Nat /\ DOMAIN adm = 1..Len(adm)
  BY <1>1
<1>4. ASSUME NEW i \in 1..(Len(adm) + 1)
      PROVE  /\ admitted'[u][i] <= clock
             /\ (Len(adm) + 1 - i + 1) * Part + left
                  <= Capacity + Rate * (clock - admitted'[u][i])
  <2>1. CASE i = Len(adm) + 1
    BY <1>1, <1>2, <1>3, <2>1, RateAssumption
  <2>2. CASE i \in 1..Len(adm)
    <3>1. /\ adm[i] \in 0..clock
          /\ (Len(adm) - i + 1) * Part + Refilled(u) <= Capacity + Rate * (clock - adm[i])
      BY <1>3, <2>2, SinceBalanced
    <3>2. (Len(adm) + 1 - i + 1) * Part = (Len(adm) - i + 1) * Part + Part
      BY <1>3, <2>2, RateAssumption
    <3>3. (Len(adm) - i + 1) * Part \in Int
      <4>1. Len(adm) - i + 1 \in Int
        BY <1>3, <2>2
      <4> QED BY <4>1, RateTimes
    <3>4. Rate * (clock - adm[i]) \in Int /\ admitted'[u][i] = adm[i]
      <4>1. clock - adm[i] \in Int
        BY <1>1, <3>1
      <4>2. admitted'[u][i] = adm[i]
        BY <1>3, <2>2
      <4> QED BY <4>1, <4>2, RateTimes
    <3>5. admitted'[u][i] <= clock
      BY <3>1, <3>4
    <3>6. (Len(adm) - i + 1) * Part + Part + left = (Len(adm) - i + 1) * Part + Refilled(u)
      BY <1>1, <3>3, RateAssumption
    <3> QED BY <3>1, <3>2, <3>4, <3>5, <3>6
  <2> QED BY <1>3, <2>1, <2>2
<1>5. bucket'[u].tokens = left /\ bucket'[u].lastTick = clock /\ clock' = clock
  OBVIOUS
<1>6. bucket'[u].tokens \in 0..Capacity /\ bucket'[u].lastTick \in 0..clock'
  BY <1>1, <1>2, <1>5
<1> QED BY <1>3, <1>4, <1>5, <1>6 DEF Balanced

(* Every step keeps the rate limiter's invariant. *)
LEMMA NextRate == RateType /\ RateInv /\ [Next]_vars => RateInv'
<1> SUFFICES ASSUME RateType, RateInv, [Next]_vars PROVE RateInv'
  OBVIOUS
<1>1. CASE Tick
  <2>1. UNCHANGED <<bucket, admitted>> /\ clock' = clock + 1 /\ clock \in Nat
    BY <1>1 DEF Tick, RateType
  <2>2. \A u \in Users : Balanced(u) => Balanced(u)'
    BY <2>1 DEF Balanced, RateType
  <2> QED BY <2>1, <2>2 DEF RateInv
<1>2. CASE UNCHANGED <<bucket, admitted, clock>>
  BY <1>2 DEF RateInv, Balanced
<1>3. ASSUME NEW r \in Requests, LimitRate(r), ~UNCHANGED <<bucket, admitted>>
      PROVE  RateInv'
  <2>1. PICK u \in Users : u = user[r] /\ clock' = clock
    BY <1>3, LimitRateCases
  <2>2. Balanced(u)'
    <3>1. CASE /\ bucket' = [bucket EXCEPT ![u] = [tokens |-> Refilled(u), lastTick |-> clock]]
               /\ admitted' = admitted
      <4>1. /\ bucket'[u] = [tokens |-> Refilled(u), lastTick |-> clock]
            /\ admitted'[u] = admitted[u]
        BY <2>1, <3>1 DEF RateType
      <4> QED BY <2>1, <4>1, RefusedBalanced
    <3>2. CASE /\ bucket' = [bucket EXCEPT ![u] =
                               [tokens |-> Refilled(u) - Part, lastTick |-> clock]]
               /\ admitted' = [admitted EXCEPT ![u] = Append(@, clock)]
               /\ HasToken(u)
      <4>1. /\ bucket'[u] = [tokens |-> Refilled(u) - Part, lastTick |-> clock]
            /\ admitted'[u] = Append(admitted[u], clock)
        BY <2>1, <3>2 DEF RateType
      <4> QED BY <2>1, <3>2, <4>1, AdmittedBalanced
    <3> QED BY <1>3, <2>1, <3>1, <3>2, LimitRateCases
  <2>3. bucket'[u] # NoBucket
    BY <2>2 DEF Balanced, NoBucket
  <2>4. \A v \in Users \ {u} : bucket'[v] = bucket[v] /\ admitted'[v] = admitted[v]
    BY <1>3, <2>1, LimitRateCases DEF RateType
  <2>5. \A v \in Users \ {u} : Balanced(v) => Balanced(v)'
    BY <2>1, <2>4 DEF Balanced
  <2> QED BY <2>1, <2>2, <2>3, <2>4, <2>5 DEF RateInv
<1>4. ASSUME NEW r \in Requests, Handle(r) PROVE RateInv'
  BY <1>2, <1>3, <1>4, OthersSpareRate, LimitRateCases
<1> QED BY <1>1, <1>2, <1>4 DEF Next, vars

(* The bound on a stretch between two admissions is the invariant's at the *)
(* later one: the invariant alone says it of the stretch up to the last    *)
(* look at the bucket, so the bound itself is carried along.               *)
LEMMA AdmitWithin ==
  ASSUME RateType, RateWithinBurst, NEW u \in Users, Balanced(u)',
         admitted'[u] = Append(admitted[u], clock), bucket'[u].lastTick = clock
  PROVE  \A i, j \in DOMAIN admitted'[u] :
           i <= j => (j - i + 1) * Part <= Capacity + Rate * (admitted'[u][j] - admitted'[u][i])
<1> DEFINE adm == admitted[u]
<1>1. adm \in Seq(Nat) /\ clock \in Nat
  BY DEF RateType
<1>2. /\ Len(admitted'[u]) = Len(adm) + 1 /\ DOMAIN admitted'[u] = 1..(Len(adm) + 1)
      /\ admitted'[u][Len(adm) + 1] = clock
      /\ \A i \in 1..Len(adm) : admitted'[u][i] = adm[i]
      /\ Len(adm) \in Nat /\ DOMAIN adm = 1..Len(adm)
  BY <1>1
<1>3. ASSUME NEW i \in 1..(Len(adm) + 1), NEW j \in 1..(Len(adm) + 1), i <= j
      PROVE  (j - i + 1) * Part <= Capacity + Rate * (admitted'[u][j] - admitted'[u][i])
  <2>1. CASE j = Len(adm) + 1
    <3>1. /\ bucket'[u].tokens \in 0..Capacity
          /\ (Len(adm) + 1 - i + 1) * Part + bucket'[u].tokens
               <= Capacity + Rate * (clock - admitted'[u][i])
      <4>1. /\ bucket'[u].tokens \in 0..Capacity
            /\ (Len(admitted'[u]) - i + 1) * Part + bucket'[u].tokens
                 <= Capacity + Rate * (bucket'[u].lastTick - admitted'[u][i])
        BY <1>2, Zenon DEF Balanced
      <4> QED BY <1>2, <4>1
    <3>2. admitted'[u][i] \in Int
      BY <1>1, <1>2
    <3>3. (Len(adm) + 1 - i + 1) * Part \in Int /\ Rate * (clock - admitted'[u][i]) \in Int
      BY <1>1, <1>2, <3>2, RateAssumption
    <3>4. (j - i + 1) * Part = (Len(adm) + 1 - i + 1) * Part /\ admitted'[u][j] = clock
      BY <1>2, <2>1
    <3>5. bucket'[u].tokens \in Nat
      BY <3>1, RateAssumption
    <3>6. (Len(adm) + 1 - i + 1) * Part <= Capacity + Rate * (clock - admitted'[u][i])
      <4> DEFINE a == (Len(adm) + 1 - i + 1) * Part
                 b == Rate * (clock - admitted'[u][i])
      <4>1. a \in Int /\ b \in Int /\ a + bucket'[u].tokens <= Capacity + b
        BY <3>1, <3>3
      <4> HIDE DEF a, b
      <4>2. a <= Capacity + b
        BY <3>5, <4>1, RateAssumption
      <4> QED BY <4>2 DEF a, b
    <3> QED BY <3>4, <3>6
  <2>2. CASE j \in 1..Len(adm)
    <3>1. i \in 1..Len(adm)
      BY <1>2, <1>3, <2>2
    <3>2. (j - i + 1) * Part <= Capacity + Rate * (adm[j] - adm[i])
      BY <1>2, <1>3, <2>2, <3>1 DEF RateWithinBurst
    <3> QED BY <1>2, <2>2, <3>1, <3>2
  <2> QED BY <1>2, <2>1, <2>2
<1> QED BY <1>2, <1>3

(* No step admits more than the bound allows. *)
LEMMA NextBurst == RateType /\ RateInv /\ RateWithinBurst /\ [Next]_vars => RateWithinBurst'
<1> SUFFICES ASSUME RateType, RateInv, RateWithinBurst, [Next]_vars PROVE RateWithinBurst'
  OBVIOUS
<1>1. RateInv'
  BY NextRate
<1>2. CASE UNCHANGED admitted
  BY <1>2 DEF RateWithinBurst
<1>3. ASSUME NEW r \in Requests, LimitRate(r), admitted' # admitted PROVE RateWithinBurst'
  <2>1. PICK u \in Users :
        /\ HasToken(u)
        /\ admitted' = [admitted EXCEPT ![u] = Append(@, clock)]
        /\ bucket' = [bucket EXCEPT ![u] = [tokens |-> Refilled(u) - Part, lastTick |-> clock]]
    BY <1>3, LimitRateCases
  <2>2. /\ bucket'[u] = [tokens |-> Refilled(u) - Part, lastTick |-> clock]
        /\ admitted'[u] = Append(admitted[u], clock)
        /\ \A v \in Users \ {u} : admitted'[v] = admitted[v]
    BY <2>1 DEF RateType
  <2>3. Refilled(u) - Part \in Nat
    BY <2>1, RefilledType, RateAssumption DEF HasToken
  <2>4. Balanced(u)'
    <3>1. bucket'[u] # NoBucket
      BY <2>2, <2>3 DEF NoBucket
    <3> QED BY <1>1, <3>1 DEF RateInv
  <2>5. \A i, j \in DOMAIN admitted'[u] :
          i <= j => (j - i + 1) * Part
                      <= Capacity + Rate * (admitted'[u][j] - admitted'[u][i])
    BY <2>1, <2>2, <2>4, AdmitWithin
  <2> QED BY <2>2, <2>5 DEF RateWithinBurst
<1>4. ASSUME NEW r \in Requests, Handle(r) PROVE RateWithinBurst'
  BY <1>2, <1>3, <1>4, OthersSpareRate
<1> QED BY <1>2, <1>4 DEF Next, Tick, vars

(* The token buckets admit, in any stretch of time, no more than a burst   *)
(* of their capacity and the refill of that time, for any rate and         *)
(* capacity and whatever the requests of all users do at once.             *)
THEOREM BurstsAreBounded == Spec => []RateWithinBurst
<1>1. Init => RateWithinBurst
  BY DEF Init, RateWithinBurst
<1> QED BY <1>1, InitRateType, NextRateType, InitRate, NextRate, NextBurst, PTL DEF Spec

-----------------------------------------------------------------------------
(* The budget: the compare-and-swap adds to the sum exactly what the       *)
(* request was charged, whatever other requests did since it was read.     *)
THEOREM NoCostIsLost == Spec => []SpentIsTotal
<1>1. Init => SpentIsTotal
  BY DEF Init, SpentIsTotal
<1>2. SpentIsTotal /\ [Next]_vars => SpentIsTotal'
  <2> SUFFICES ASSUME SpentIsTotal, [Next]_vars PROVE SpentIsTotal'
    OBVIOUS
  <2>1. ASSUME NEW r \in Requests, SwapSpent(r) PROVE SpentIsTotal'
    BY <2>1 DEF SwapSpent, SpentIsTotal
  <2>2. CASE UNCHANGED <<spent, charged>>
    BY <2>2 DEF SpentIsTotal
  <2>3. ASSUME NEW r \in Requests, Handle(r), ~SwapSpent(r) PROVE UNCHANGED <<spent, charged>>
    BY <2>3 DEF Handle, Arrive, Authenticate, Authorize, LimitRate, GuardCost, LookUp,
                EndAttempt, LoadSpent, Retry, Fail, Succeed
  <2> QED BY <2>1, <2>2, <2>3 DEF Next, Tick, vars
<1> QED BY <1>1, <1>2, PTL DEF Spec

-----------------------------------------------------------------------------
(* Who is served what.                                                     *)
Points == {"new", "chain", "load", "swap", "charged", "done"}
Answers == {"none", "auth", "limited", "over budget", "failed", "served"}

FlowType ==
  /\ chain \in Seq(Kinds)
  /\ token \in [Requests -> Users \cup {Anonymous, "bad"}]
  /\ user \in [Requests -> Users \cup {Anonymous}]
  /\ point \in [Requests -> Points]
  /\ place \in [Requests -> Nat \ {0}]
  /\ slot \in [Requests -> CacheKeys \cup {NoKey}]
  /\ answer \in [Requests -> Answers]
  /\ source \in [Requests -> Requests \cup {NoRequest}]
  /\ cache \in [CacheKeys -> Requests \cup {NoRequest}]

Passed(r, kind) == \E i \in DOMAIN chain : i < place[r] /\ chain[i] = kind

Allowed(r) == token[r] \in Users /\ (r \in Critical => token[r] \in Admins)

(* The key that the user its token stands for gives a request. *)
OwnKey(r, key) == token[r] \in Names /\ key = CacheKey(token[r], r)

Entitled(r) ==
  LET s == source[r] IN
    /\ s # r => MayAnswer(s, r)
    /\ (\E i \in DOMAIN chain : chain[i] = "Authorization") => Allowed(r)

(* What holds of a request wherever it is: past the authentication its     *)
(* user is the one its token stands for, past the authorization it is      *)
(* allowed, and the slot it will fill is its own.                          *)
Good(r) ==
  /\ point[r] = "new" => place[r] = 1
  /\ point[r] # "new" => Valid(chain)
  /\ point[r] \in {"load", "swap", "charged"} => place[r] = Len(chain) + 1
  /\ Passed(r, "Authentication") => user[r] = token[r]
  /\ Passed(r, "Authorization") => Allowed(r)
  /\ slot[r] # NoKey => OwnKey(r, slot[r])
  /\ answer[r] = "served" => Entitled(r)

(* A cached result stays under the key of the request that computed it.    *)
CacheGood ==
  \A k \in CacheKeys : cache[k] # NoRequest => OwnKey(cache[k], k)

FlowInv == FlowType /\ CacheGood /\ \A r \in Requests : Good(r)

(* Two single pieces in front of a text stay its first two. *)
LEMMA TwoInFront ==
  ASSUME NEW x \in Seq(STRING), NEW y \in Seq(STRING), NEW z \in Seq(STRING), Len(x) = 1, Len(y) = 1
  PROVE  /\ Len(x \o y \o z) = 2 + Len(z)
         /\ (x \o y \o z)[1] = x[1] /\ (x \o y \o z)[2] = y[1]
         /\ \A i \in 1..Len(z) : (x \o y \o z)[2 + i] = z[i]
<1> DEFINE xy == x \o y
<1>1. xy \in Seq(STRING) /\ Len(xy) = 2 /\ xy[1] = x[1] /\ xy[2] = y[1]
  <2>1. xy \in Seq(STRING) /\ Len(xy) = Len(x) + Len(y)
    BY ConcatProperties
  <2>2. \A i \in 1..Len(x) + Len(y) : xy[i] = IF i <= Len(x) THEN x[i] ELSE y[i - Len(x)]
    BY ConcatProperties
  <2> QED BY <2>1, <2>2
<1>2. /\ Len(xy \o z) = 2 + Len(z)
      /\ \A i \in 1..2 + Len(z) : (xy \o z)[i] = IF i <= 2 THEN xy[i] ELSE z[i - 2]
  BY <1>1, ConcatProperties
<1> HIDE DEF xy
<1>3. (xy \o z)[1] = x[1] /\ (xy \o z)[2] = y[1] /\ \A i \in 1..Len(z) : (xy \o z)[2 + i] = z[i]
  <2>1. Len(z) \in Nat
    OBVIOUS
  <2> QED BY <1>1, <1>2, <2>1
<1> QED BY <1>2, <1>3 DEF xy

(* Three texts joined by colons are found again in the joined text when     *)
(* the first two contain none: each is one piece, so the rest is the third. *)
LEMMA PlainKeysDiffer ==
  ASSUME NEW u \in Names, NEW v \in Names, NEW r \in Requests, NEW s \in Requests,
         Plain(u, r), Plain(v, s), CacheKey(u, r) = CacheKey(v, s)
  PROVE  u = v /\ ProviderText[r] = ProviderText[s] /\ PayloadText[r] = PayloadText[s]
<1>1. ASSUME NEW a \in Names, NEW q \in Requests, Plain(a, q)
      PROVE  /\ Len(CacheKey(a, q)) = 2 + Len(PayloadText[q])
             /\ NameText[a] = <<CacheKey(a, q)[1]>>
             /\ ProviderText[q] = <<CacheKey(a, q)[2]>>
             /\ \A i \in 1..Len(PayloadText[q]) : PayloadText[q][i] = CacheKey(a, q)[2 + i]
  <2>1. /\ NameText[a] \in Seq(STRING) /\ ProviderText[q] \in Seq(STRING)
        /\ PayloadText[q] \in Seq(STRING) /\ Len(NameText[a]) = 1 /\ Len(ProviderText[q]) = 1
    BY <1>1, TextAssumption DEF Plain, Texts
  <2>2. /\ Len(CacheKey(a, q)) = 2 + Len(PayloadText[q])
        /\ CacheKey(a, q)[1] = NameText[a][1] /\ CacheKey(a, q)[2] = ProviderText[q][1]
        /\ \A i \in 1..Len(PayloadText[q]) : CacheKey(a, q)[2 + i] = PayloadText[q][i]
    <3> DEFINE x == NameText[a]
               y == ProviderText[q]
               z == PayloadText[q]
    <3>1. x \in Seq(STRING) /\ y \in Seq(STRING) /\ z \in Seq(STRING) /\ Len(x) = 1 /\ Len(y) = 1
      BY <2>1
    <3>2. CacheKey(a, q) = x \o y \o z
      BY DEF CacheKey
    <3> HIDE DEF x, y, z
    <3>3. /\ Len(CacheKey(a, q)) = 2 + Len(z)
          /\ CacheKey(a, q)[1] = x[1] /\ CacheKey(a, q)[2] = y[1]
          /\ \A i \in 1..Len(z) : CacheKey(a, q)[2 + i] = z[i]
      BY <3>1, <3>2, TwoInFront
    <3> QED BY <3>3 DEF x, y, z
  <2>3. NameText[a] = <<NameText[a][1]>> /\ ProviderText[q] = <<ProviderText[q][1]>>
    BY <2>1
  <2> QED BY <2>2, <2>3
<1>2. u = v
  <2>1. NameText[u] = NameText[v]
    BY <1>1
  <2> QED BY <2>1, TextAssumption
<1>3. ProviderText[r] = ProviderText[s]
  BY <1>1
<1>4. PayloadText[r] = PayloadText[s]
  <2>1. PayloadText[r] \in Seq(STRING) /\ PayloadText[s] \in Seq(STRING)
    BY TextAssumption DEF Texts
  <2>2. Len(PayloadText[r]) = Len(PayloadText[s])
    BY <1>1, <2>1
  <2>3. /\ \A i \in 1..Len(PayloadText[r]) : PayloadText[r][i] = CacheKey(u, r)[2 + i]
        /\ \A i \in 1..Len(PayloadText[s]) : PayloadText[s][i] = CacheKey(v, s)[2 + i]
    BY <1>1
  <2>4. \A i \in 1..Len(PayloadText[r]) : PayloadText[r][i] = PayloadText[s][i]
    BY <2>2, <2>3
  <2> QED BY <2>1, <2>2, <2>4
<1> QED BY <1>2, <1>3, <1>4

(* The key of a request under the user in its context is one of the cache's. *)
LEMMA KeysOfUsers ==
  ASSUME FlowType, NEW r \in Requests
  PROVE  CacheKey(user[r], r) \in CacheKeys
<1>1. user[r] \in Names
  BY DEF FlowType, Names
<1> QED BY <1>1 DEF CacheKeys

(* A result kept under a request's own key may answer it.                   *)
LEMMA SameKeyAnswers ==
  ASSUME NEW r \in Requests, NEW s \in Requests, NEW key, OwnKey(r, key), OwnKey(s, key)
  PROVE  MayAnswer(s, r)
<1>1. token[r] \in Names /\ token[s] \in Names /\ CacheKey(token[s], s) = CacheKey(token[r], r)
  BY DEF OwnKey
<1>2. Plain(token[s], s) /\ Plain(token[r], r) =>
        token[s] = token[r] /\ ProviderText[s] = ProviderText[r] /\ PayloadText[s] = PayloadText[r]
  BY <1>1, PlainKeysDiffer
<1> QED BY <1>1, <1>2 DEF MayAnswer

(* Initially nothing is cached and no request has passed anything. *)
LEMMA InitFlow == Init => FlowInv
<1> SUFFICES ASSUME Init PROVE FlowInv
  OBVIOUS
<1>1. FlowType
  BY ChainAssumption DEF Init, FlowType, Points, Answers
<1>2. CacheGood
  BY DEF Init, CacheGood
<1>3. ASSUME NEW r \in Requests PROVE Good(r)
  <2>1. ~Passed(r, "Authentication") /\ ~Passed(r, "Authorization")
    BY <1>1 DEF Init, Passed, FlowType
  <2> QED BY <2>1 DEF Init, Good
<1> QED BY <1>1, <1>2, <1>3 DEF FlowInv

(* A handler changes no request but its own, and nobody's token.           *)
LEMMA OthersKept ==
  ASSUME FlowType, NEW r \in Requests, Handle(r)
  PROVE  /\ UNCHANGED <<chain, token>>
         /\ \A q \in Requests \ {r} :
              /\ point'[q] = point[q] /\ place'[q] = place[q] /\ user'[q] = user[q]
              /\ slot'[q] = slot[q] /\ answer'[q] = answer[q] /\ source'[q] = source[q]
<1>1. CASE Arrive(r) BY <1>1 DEF Arrive, FlowType
<1>2. CASE Authenticate(r) BY <1>2 DEF Authenticate, Refuse, Finish, Pass, FlowType
<1>3. CASE Authorize(r) BY <1>3 DEF Authorize, Refuse, Finish, Pass, FlowType
<1>4. CASE LimitRate(r) BY <1>4 DEF LimitRate, Refuse, Finish, Pass, FlowType
<1>5. CASE GuardCost(r) BY <1>5 DEF GuardCost, Refuse, Finish, Pass, FlowType
<1>6. CASE LookUp(r) BY <1>6 DEF LookUp, Refuse, Finish, Pass, FlowType
<1>7. CASE EndAttempt(r) BY <1>7 DEF EndAttempt, FlowType
<1>8. CASE LoadSpent(r) BY <1>8 DEF LoadSpent, FlowType
<1>9. CASE SwapSpent(r) BY <1>9 DEF SwapSpent, FlowType
<1>10. CASE Retry(r) BY <1>10 DEF Retry, FlowType
<1>11. CASE Fail(r) BY <1>11 DEF Fail, Finish, FlowType
<1>12. CASE Succeed(r) BY <1>12 DEF Succeed, Finish, FlowType
<1> QED BY <1>1, <1>2, <1>3, <1>4, <1>5, <1>6, <1>7, <1>8, <1>9, <1>10, <1>11, <1>12 DEF Handle

(* What holds of a request holds while it is left alone. *)
LEMMA GoodKept ==
  ASSUME NEW q \in Requests, Good(q), UNCHANGED <<chain, token>>,
         point'[q] = point[q], place'[q] = place[q], user'[q] = user[q],
         slot'[q] = slot[q], answer'[q] = answer[q], source'[q] = source[q]
  PROVE  Good(q)'
  BY DEF Good, Passed, Allowed, Entitled, MayAnswer, OwnKey, Valid

(* Passing a middleware adds its kind, and no other, to what was passed.   *)
LEMMA PassedOn ==
  ASSUME FlowType, NEW r \in Requests, NEW kind, NEW k, Reached(r, k), chain' = chain,
         place'[r] = place[r] + 1, Passed(r, kind)'
  PROVE  Passed(r, kind) \/ kind = k
  BY DEF FlowType, Reached, Passed

(* A valid chain authenticates before it authorizes, and authorizes before *)
(* it looks into the cache.                                                *)
LEMMA ValidOrder ==
  ASSUME FlowType, Valid(chain), NEW i \in DOMAIN chain
  PROVE  /\ chain[i] = "Authorization" =>
              \E j \in DOMAIN chain : j < i /\ chain[j] = "Authentication"
         /\ chain[i] = "Caching" =>
              \E j \in DOMAIN chain : j < i /\ chain[j] = "Authorization"
<1>1. i \in 1..Len(chain) /\ \A j \in 1..(i - 1) : j \in DOMAIN chain /\ chain[j] \in Kinds
  BY DEF FlowType
<1>2. ASSUME NEW dep \in Dependencies(chain[i])
      PROVE  \E j \in 1..(i - 1) : Provides(chain[j]) = dep
  BY <1>2 DEF Valid
<1>3. \A kind \in Kinds :
        /\ Provides(kind) = "authenticated" => kind = "Authentication"
        /\ Provides(kind) = "authorized" => kind = "Authorization"
  BY DEF Provides, Kinds
<1>4. ASSUME chain[i] = "Authorization"
      PROVE  \E j \in DOMAIN chain : j < i /\ chain[j] = "Authentication"
  <2>1. "authenticated" \in Dependencies(chain[i])
    BY <1>4 DEF Dependencies
  <2>2. PICK j \in 1..(i - 1) : Provides(chain[j]) = "authenticated"
    BY <1>2, <2>1
  <2>3. chain[j] \in Kinds /\ j \in DOMAIN chain /\ j < i
    BY <1>1, <2>2
  <2>4. chain[j] = "Authentication"
    BY <1>3, <2>2, <2>3
  <2> QED BY <2>3, <2>4
<1>5. ASSUME chain[i] = "Caching"
      PROVE  \E j \in DOMAIN chain : j < i /\ chain[j] = "Authorization"
  <2>1. "authorized" \in Dependencies(chain[i])
    BY <1>5 DEF Dependencies
  <2>2. PICK j \in 1..(i - 1) : Provides(chain[j]) = "authorized"
    BY <1>2, <2>1
  <2>3. chain[j] \in Kinds /\ j \in DOMAIN chain /\ j < i
    BY <1>1, <2>2
  <2>4. chain[j] = "Authorization"
    BY <1>3, <2>2, <2>3
  <2> QED BY <2>3, <2>4
<1> QED BY <1>4, <1>5

(* A request allowed past the authorization is authenticated: its user is  *)
(* the one of its token.                                                   *)
LEMMA AuthorizedUser ==
  ASSUME FlowType, NEW r \in Requests, Good(r), point[r] # "new", Passed(r, "Authorization")
  PROVE  user[r] = token[r] /\ Allowed(r)
<1>1. PICK i \in DOMAIN chain : i < place[r] /\ chain[i] = "Authorization"
  BY DEF Passed
<1>2. PICK j \in DOMAIN chain : j < i /\ chain[j] = "Authentication"
  BY <1>1, ValidOrder DEF Good
<1>3. i \in Int /\ j \in Int /\ place[r] \in Int
  BY DEF FlowType
<1>4. Passed(r, "Authentication")
  BY <1>1, <1>2, <1>3 DEF Passed
<1> QED BY <1>4 DEF Good

(* What a step of a request that leaves chain, tokens and all but its      *)
(* point and the cost accounts alone must respect.                         *)
LEMMA PointMoved ==
  ASSUME FlowType, NEW r \in Requests, Good(r), NEW p \in Points \ {"new"},
         point[r] # "new", point' = [point EXCEPT ![r] = p],
         p \in {"load", "swap", "charged"} => place[r] = Len(chain) + 1,
         UNCHANGED <<chain, token, place, user, slot, answer, source, cache>>
  PROVE  FlowType' /\ Good(r)'
<1>1. FlowType'
  BY DEF FlowType
<1>2. point'[r] = p
  BY DEF FlowType
<1> QED BY <1>1, <1>2 DEF Good, Passed, Allowed, Entitled, MayAnswer, OwnKey, Valid

(* A refused or failed request is not served. *)
LEMMA Turned ==
  ASSUME FlowType, NEW r \in Requests, Good(r), point[r] # "new",
         NEW why \in Answers \ {"served"}, Finish(r, why),
         UNCHANGED <<chain, token, place, user, slot, source, cache>>
  PROVE  FlowType' /\ Good(r)'
<1>1. point'[r] = "done" /\ answer'[r] = why
  BY DEF Finish, FlowType
<1>2. FlowType'
  BY DEF FlowType, Finish, Points
<1> QED BY <1>1, <1>2 DEF Good, Passed, Allowed, Entitled, MayAnswer, OwnKey, Valid

(* A middleware that only passes a request on adds itself to what the      *)
(* request has passed; if it is the authorization it must have allowed it. *)
LEMMA PassedGood ==
  ASSUME FlowType, NEW r \in Requests, Good(r), NEW k \in Kinds \ {"Authentication"},
         Reached(r, k), Pass(r), k = "Authorization" => Allowed(r),
         slot' = slot \/ (k = "Caching" /\ slot' = [slot EXCEPT ![r] = CacheKey(user[r], r)]),
         UNCHANGED <<chain, token, user, source, cache>>
  PROVE  FlowType' /\ Good(r)'
<1>1. /\ place'[r] = place[r] + 1 /\ point' = point /\ answer' = answer
      /\ point[r] = "chain" /\ place[r] \in DOMAIN chain /\ chain[place[r]] = k
  BY DEF Pass, FlowType, Reached
<1>2. CacheKey(user[r], r) \in CacheKeys
  BY KeysOfUsers
<1>3. FlowType'
  <2>1. place' \in [Requests -> Nat \ {0}]
    BY DEF FlowType, Pass
  <2>2. slot' \in [Requests -> CacheKeys \cup {NoKey}]
    BY <1>2 DEF FlowType
  <2> QED BY <1>1, <2>1, <2>2 DEF FlowType
<1>4. Passed(r, "Authentication")' => user'[r] = token'[r]
  BY <1>1, PassedOn DEF Good
<1>5. Passed(r, "Authorization")' => Allowed(r)'
  BY <1>1, PassedOn DEF Good, Allowed
<1>6. slot'[r] # NoKey => OwnKey(r, slot[r])'
  <2>1. CASE slot' = slot
    BY <2>1 DEF Good, OwnKey
  <2>2. CASE k = "Caching" /\ slot' = [slot EXCEPT ![r] = CacheKey(user[r], r)]
    <3>1. PICK j \in DOMAIN chain : j < place[r] /\ chain[j] = "Authorization"
      BY <1>1, <2>2, ValidOrder DEF Good
    <3>2. user[r] = token[r]
      BY <1>1, <3>1, AuthorizedUser DEF Passed
    <3> QED BY <2>2, <3>2 DEF FlowType, OwnKey, Names
  <2> QED BY <2>1, <2>2
<1>7. (answer'[r] = "served" => Entitled(r)') /\ Valid(chain)'
  BY <1>1 DEF Good, Entitled, MayAnswer, Allowed, Valid
<1> QED BY <1>1, <1>3, <1>4, <1>5, <1>6, <1>7 DEF Good

(* Every step keeps the invariant of the request that takes it. *)
LEMMA HandleGood ==
  ASSUME FlowType, CacheGood, NEW r \in Requests, Good(r), Handle(r)
  PROVE  FlowType' /\ Good(r)'
<1>1. CASE Arrive(r)
  <2>1. FlowType' /\ point'[r] = "chain"
    BY <1>1 DEF Arrive, FlowType, Points
  <2> QED BY <1>1, <2>1 DEF Arrive, Good, Passed, Allowed, Entitled, MayAnswer, OwnKey, Valid
<1>2. CASE Authenticate(r)
  <2>1. CASE Refuse(r, "auth") /\ UNCHANGED user
    BY <1>2, <2>1, Turned DEF Authenticate, Refuse, Reached, Answers
  <2>2. CASE token[r] # "bad" /\ Pass(r) /\ user' = [user EXCEPT ![r] = token[r]]
    <3>1. /\ place'[r] = place[r] + 1 /\ point' = point /\ answer' = answer
          /\ point[r] = "chain" /\ user'[r] = token[r]
      BY <1>2, <2>2 DEF Pass, FlowType, Authenticate, Reached
    <3>2. FlowType'
      <4>1. place' \in [Requests -> Nat \ {0}]
        BY <2>2 DEF FlowType, Pass
      <4>2. user' \in [Requests -> Users \cup {Anonymous}]
        BY <2>2 DEF FlowType
      <4> QED BY <1>2, <3>1, <4>1, <4>2 DEF FlowType, Authenticate
    <3>3. Passed(r, "Authorization")' => Allowed(r)'
      BY <1>2, <3>1, PassedOn DEF Good, Allowed, Authenticate
    <3>4. (answer'[r] = "served" => Entitled(r)') /\ Valid(chain)'
      BY <1>2, <3>1 DEF Good, Entitled, MayAnswer, Allowed, Valid, Authenticate
    <3> QED BY <1>2, <3>1, <3>2, <3>3, <3>4 DEF Good, OwnKey, Authenticate
  <2> QED BY <1>2, <2>1, <2>2 DEF Authenticate
<1>3. CASE Authorize(r)
  <2>1. CASE Refuse(r, "auth")
    BY <1>3, <2>1, Turned DEF Authorize, Refuse, Reached, Answers
  <2>2. CASE MayRun(r) /\ Pass(r)
    <3>1. PICK j \in DOMAIN chain : j < place[r] /\ chain[j] = "Authentication"
      BY <1>3, ValidOrder DEF Authorize, Reached, Good
    <3>2. user[r] = token[r]
      BY <3>1 DEF Good, Passed
    <3>3. Allowed(r)
      BY <2>2, <3>2 DEF MayRun, Allowed, FlowType
    <3> QED BY <1>3, <2>2, <3>3, PassedGood DEF Authorize, Kinds
  <2> QED BY <1>3, <2>1, <2>2 DEF Authorize
<1>4. CASE LimitRate(r)
  <2>1. CASE Refuse(r, "limited")
    BY <1>4, <2>1, Turned DEF LimitRate, Refuse, Reached, Answers
  <2>2. CASE Pass(r)
    BY <1>4, <2>2, PassedGood DEF LimitRate, Kinds
  <2> QED BY <1>4, <2>1, <2>2 DEF LimitRate
<1>5. CASE GuardCost(r)
  <2>1. CASE Refuse(r, "over budget")
    BY <1>5, <2>1, Turned DEF GuardCost, Refuse, Reached, Answers
  <2>2. CASE Pass(r)
    BY <1>5, <2>2, PassedGood DEF GuardCost, Kinds
  <2> QED BY <1>5, <2>1, <2>2 DEF GuardCost
<1>6. CASE LookUp(r)
  <2> DEFINE key == CacheKey(user[r], r)
  <2>1. CASE Pass(r) /\ slot' = [slot EXCEPT ![r] = key] /\ UNCHANGED source
    BY <1>6, <2>1, PassedGood DEF LookUp, Kinds
  <2>2. CASE /\ cache[key] # NoRequest /\ Refuse(r, "served")
             /\ source' = [source EXCEPT ![r] = cache[key]] /\ UNCHANGED slot
    <3>1. key \in CacheKeys
      BY KeysOfUsers
    <3>2. PICK j \in DOMAIN chain : j < place[r] /\ chain[j] = "Authorization"
      BY <1>6, ValidOrder DEF LookUp, Reached, Good
    <3>3. user[r] = token[r] /\ Allowed(r)
      BY <1>6, <3>2, AuthorizedUser DEF Passed, LookUp, Reached
    <3>4. cache[key] \in Requests /\ OwnKey(cache[key], key) /\ OwnKey(r, key)
      BY <2>2, <3>1, <3>3 DEF CacheGood, OwnKey, Names, FlowType
    <3>8. MayAnswer(cache[key], r)
      BY <3>4, SameKeyAnswers
    <3>5. /\ FlowType' /\ source'[r] = cache[key] /\ point'[r] = "done"
          /\ place' = place /\ chain' = chain /\ token' = token /\ user' = user
      BY <1>6, <2>2, <3>4 DEF LookUp, Refuse, Finish, FlowType, Points, Answers
    <3>6. Entitled(r)'
      BY <3>3, <3>5, <3>8 DEF Entitled, Allowed, MayAnswer
    <3>7. point[r] # "new"
      BY <1>6 DEF LookUp, Reached
    <3> QED BY <2>2, <3>5, <3>6, <3>7 DEF Good, OwnKey, Passed, Allowed, Valid
  <2> QED BY <1>6, <2>1, <2>2 DEF LookUp
<1>7. CASE EndAttempt(r)
  BY <1>7, PointMoved DEF EndAttempt, Points
<1>8. CASE LoadSpent(r)
  BY <1>8, PointMoved DEF LoadSpent, Points, Good
<1>9. CASE SwapSpent(r)
  BY <1>9, PointMoved DEF SwapSpent, Points, Good
<1>10. CASE Retry(r)
  BY <1>10, PointMoved DEF Retry, Points
<1>11. CASE Fail(r)
  BY <1>11, Turned DEF Fail, Answers
<1>12. CASE Succeed(r)
  <2>1. /\ FlowType' /\ source'[r] = r /\ point'[r] = "done" /\ point[r] = "charged"
        /\ UNCHANGED <<place, chain, token, user, slot>>
    BY <1>12 DEF Succeed, Finish, FlowType, Points, Answers
  <2>2. (\E i \in DOMAIN chain : chain[i] = "Authorization") => Passed(r, "Authorization")
    BY <2>1 DEF Good, Passed, FlowType
  <2>3. Entitled(r)'
    BY <2>1, <2>2 DEF Entitled, Allowed, Good
  <2> QED BY <2>1, <2>3 DEF Good, OwnKey, Passed, Allowed, Valid
<1> QED BY <1>1, <1>2, <1>3, <1>4, <1>5, <1>6, <1>7, <1>8, <1>9, <1>10, <1>11, <1>12 DEF Handle

(* Every step keeps the cache's results under their own keys. *)
LEMMA HandleCache ==
  ASSUME FlowType, CacheGood, NEW r \in Requests, Good(r), Handle(r)
  PROVE  CacheGood'
<1>1. token' = token
  BY OthersKept
<1>2. CASE cache' = cache
  BY <1>1, <1>2 DEF CacheGood, OwnKey
<1>3. CASE slot[r] # NoKey /\ cache' = [cache EXCEPT ![slot[r]] = r]
  <2>1. OwnKey(r, slot[r])
    BY <1>3 DEF Good
  <2> QED BY <1>1, <1>3, <2>1 DEF CacheGood, OwnKey, FlowType
<1>4. cache' = cache \/ (slot[r] # NoKey /\ cache' = [cache EXCEPT ![slot[r]] = r])
  BY DEF Handle, Arrive, Authenticate, Authorize, LimitRate, GuardCost, LookUp, EndAttempt,
         LoadSpent, SwapSpent, Retry, Fail, Succeed
<1> QED BY <1>2, <1>3, <1>4

(* Every step keeps the invariant. *)
LEMMA NextFlow == FlowInv /\ [Next]_vars => FlowInv'
<1> SUFFICES ASSUME FlowInv, [Next]_vars PROVE FlowInv'
  OBVIOUS
<1>1. ASSUME NEW r \in Requests, Handle(r) PROVE FlowInv'
  <2>1. FlowType' /\ Good(r)' /\ CacheGood'
    BY <1>1, HandleGood, HandleCache DEF FlowInv
  <2>2. ASSUME NEW q \in Requests \ {r} PROVE Good(q)'
    BY <1>1, <2>2, OthersKept, GoodKept DEF FlowInv
  <2> QED BY <2>1, <2>2 DEF FlowInv
<1>2. CASE UNCHANGED <<chain, token, point, place, user, slot, answer, source, cache>>
  <2>1. FlowType' /\ CacheGood'
    BY <1>2 DEF FlowInv, FlowType, CacheGood, OwnKey
  <2>2. ASSUME NEW q \in Requests PROVE Good(q)'
    BY <1>2, GoodKept DEF FlowInv
  <2> QED BY <2>1, <2>2 DEF FlowInv
<1> QED BY <1>1, <1>2 DEF Next, Tick, vars, requestVars

(* In every order of middlewares the validation lets through, whoever is   *)
(* served is allowed the request and gets his own result or one cached     *)
(* under the key of his own user, provider and payload: the cache is never *)
(* read before the request is authorized, nor filled under another         *)
(* request's key.  Unless a user ID or a provider reference contains a     *)
(* colon, that result was computed for the same user, provider and         *)
(* payload; where one does, two requests can have one key and are answered *)
(* alike.                                                                  *)
THEOREM OnlyEntitledServed == Spec => []ServedToEntitled
<1>1. FlowInv => ServedToEntitled
  BY DEF FlowInv, Good, Entitled, Allowed, ServedToEntitled
<1> QED BY <1>1, InitFlow, NextFlow, PTL DEF Spec

-----------------------------------------------------------------------------
(* What the budget may be overrun by.                                      *)
MayCharge == [q \in Requests |-> LeftToCharge(q)]
Outstanding == [q \in Requests |-> IF Guarded(q) THEN LeftToCharge(q) ELSE 0]
Most == Max(Charges)
GuardInChain == \E i \in DOMAIN chain : chain[i] = "CostGuard"

CostType ==
  /\ spent \in Int /\ ceiling \in Int
  /\ tries \in [Requests -> 0..MaxAttempts]
  /\ cost \in [Requests -> Int]

(* Attempts are counted when they end, and only a charge that is due is    *)
(* on its way.                                                             *)
Attempting(r) ==
  /\ point[r] = "new" => tries[r] = 0
  /\ point[r] = "chain" => tries[r] < MaxAttempts
  /\ point[r] \in {"load", "swap"} => r \in Budgeted /\ cost[r] \in Charges

(* What is spent and what the requests past the guard may still be charged *)
(* stay below the ceiling of the last admission.                           *)
Covered ==
  Limit > 0 /\ GuardInChain => spent + Most * SumFunctionOnSet(Outstanding, Requests) <= ceiling

CostInv == CostType /\ Covered /\ \A r \in Requests : Attempting(r)

(* The largest charge. *)
LEMMA MostIsMost == Most \in Nat /\ \A c \in Charges : c \in Nat /\ c <= Most
<1>1. PICK m \in Charges : \A c \in Charges : m >= c
  BY CostAssumption
<1>2. Most \in Charges /\ \A c \in Charges : Most >= c
  BY <1>1 DEF Most, Max
<1>3. Charges \subseteq Nat
  BY CostAssumption
<1> QED BY <1>2, <1>3

(* What a request may still be charged is never negative. *)
LEMMA LeftIsNat ==
  ASSUME CostType, NEW r \in Requests
  PROVE  LeftToCharge(r) \in Nat /\ Outstanding[r] \in Nat
<1>1. tries[r] \in 0..MaxAttempts /\ MaxAttempts \in Nat
  BY CostAssumption DEF CostType
<1>2. LeftToCharge(r) \in Nat
  BY <1>1 DEF LeftToCharge
<1> QED BY <1>2 DEF Outstanding

(* Nor is it after a step that keeps the types. *)
LEMMA LeftIsNatNext ==
  ASSUME CostType', NEW r \in Requests
  PROVE  Outstanding'[r] \in Nat
<1>1. tries'[r] \in 0..MaxAttempts /\ MaxAttempts \in Nat
  BY CostAssumption DEF CostType
<1>2. LeftToCharge(r)' \in Nat
  BY <1>1 DEF LeftToCharge
<1> QED BY <1>2 DEF Outstanding

(* Initially nothing is spent and nobody has passed the guard. *)
LEMMA InitCost == Init => CostInv
<1> SUFFICES ASSUME Init PROVE CostInv
  OBVIOUS
<1>1. CostType
  BY CostAssumption DEF Init, CostType
<1>2. ASSUME NEW r \in Requests PROVE Attempting(r) /\ Outstanding[r] = 0
  BY CostAssumption DEF Init, Attempting, Outstanding, Guarded
<1>3. SumFunctionOnSet(Outstanding, Requests) = 0
  BY <1>2, RequestAssumption, SumZero
<1>4. spent = 0 /\ ceiling = 0 /\ Most * 0 = 0
  BY MostIsMost DEF Init
<1> QED BY <1>1, <1>2, <1>3, <1>4 DEF CostInv, Covered

(* A request the step does not touch keeps what it may be charged. *)
LEMMA OutstandingKept ==
  ASSUME NEW q \in Requests, chain' = chain, point'[q] = point[q], place'[q] = place[q],
         tries'[q] = tries[q]
  PROVE  Outstanding'[q] = Outstanding[q]
  BY DEF Outstanding, Guarded, LeftToCharge

(* A handler touches only its own attempts. *)
LEMMA OthersAttempts ==
  ASSUME CostType, NEW r \in Requests, Handle(r)
  PROVE  \A q \in Requests \ {r} : tries'[q] = tries[q] /\ cost'[q] = cost[q]
<1>1. CASE EndAttempt(r)
  BY <1>1 DEF EndAttempt, CostType
<1>2. CASE ~EndAttempt(r)
  BY <1>2 DEF Handle, Arrive, Authenticate, Authorize, LimitRate, GuardCost, LookUp,
              LoadSpent, SwapSpent, Retry, Fail, Succeed
<1> QED BY <1>1, <1>2

(* Types are kept. *)
LEMMA CostTyped ==
  ASSUME FlowInv, CostInv, NEW r \in Requests, Handle(r)
  PROVE  CostType'
<1>1. CASE EndAttempt(r)
  <2>1. tries[r] + 1 \in 0..MaxAttempts
    BY <1>1, CostAssumption DEF EndAttempt, CostInv, CostType, Attempting
  <2>2. tries' \in [Requests -> 0..MaxAttempts]
    BY <1>1, <2>1 DEF EndAttempt, CostInv, CostType
  <2>3. cost' \in [Requests -> Int]
    BY <1>1, CostAssumption DEF EndAttempt, CostInv, CostType
  <2> QED BY <1>1, <2>2, <2>3 DEF EndAttempt, CostInv, CostType
<1>2. CASE SwapSpent(r)
  BY <1>2 DEF SwapSpent, CostInv, CostType
<1>3. CASE GuardCost(r)
  <2>1. ceiling' \in Int
    <3>1. CASE ceiling' = ceiling
      BY <3>1 DEF CostInv, CostType
    <3>2. CASE ceiling' = Limit - Estimate[r] + Most * SumFunctionOnSet(MayCharge,
                                      {q \in Requests : Guarded(q)} \cup {r})
      <4> DEFINE S == {q \in Requests : Guarded(q)} \cup {r}
      <4>1. IsFiniteSet(S) /\ \A q \in S : MayCharge[q] \in Nat
        BY RequestAssumption, FS_Subset, LeftIsNat DEF CostInv, MayCharge
      <4>2. SumFunctionOnSet(MayCharge, S) \in Nat
        BY <4>1, SumNat
      <4> HIDE DEF S
      <4>3. Most * SumFunctionOnSet(MayCharge, S) \in Int
        BY <4>2, MostIsMost
      <4>4. Limit - Estimate[r] \in Int
        BY CostAssumption, RequestAssumption
      <4> QED BY <3>2, <4>3, <4>4 DEF S
    <3> QED BY <1>3, <3>1, <3>2 DEF GuardCost, Most, MayCharge
  <2> QED BY <1>3, <2>1 DEF GuardCost, CostInv, CostType
<1>4. CASE ~EndAttempt(r) /\ ~SwapSpent(r) /\ ~GuardCost(r)
  BY <1>4 DEF Handle, Arrive, Authenticate, Authorize, LimitRate, LookUp,
              LoadSpent, Retry, Fail, Succeed, CostInv, CostType
<1> QED BY <1>1, <1>2, <1>3, <1>4

(* So is what is known of the attempts. *)
LEMMA AttemptsKept ==
  ASSUME FlowInv, CostInv, NEW r \in Requests, Handle(r)
  PROVE  \A q \in Requests : Attempting(q)'
<1>1. FlowType /\ CostType /\ Attempting(r)
  BY DEF FlowInv, CostInv
<1>2. ASSUME NEW q \in Requests \ {r} PROVE Attempting(q)'
  BY <1>1, OthersKept, OthersAttempts DEF CostInv, Attempting
<1>3. Attempting(r)'
  <2>1. CASE Arrive(r)
    BY <1>1, <2>1, CostAssumption DEF Arrive, Attempting, FlowType
  <2>2. CASE EndAttempt(r)
    <3>1. cost'[r] \in Charges
      BY <1>1, <2>2 DEF EndAttempt, CostType
    <3>2. point'[r] = IF r \in Budgeted THEN "load" ELSE "charged"
      BY <1>1, <2>2 DEF EndAttempt, FlowType
    <3> QED BY <3>1, <3>2 DEF Attempting
  <2>3. CASE LoadSpent(r)
    BY <1>1, <2>3 DEF LoadSpent, Attempting, FlowType
  <2>4. CASE SwapSpent(r)
    BY <1>1, <2>4 DEF SwapSpent, Attempting, FlowType
  <2>5. CASE Retry(r)
    BY <1>1, <2>5 DEF Retry, Attempting, FlowType
  <2>6. CASE \/ Fail(r) \/ Succeed(r)
    BY <1>1, <2>6 DEF Fail, Succeed, Finish, Attempting, FlowType
  <2>7. CASE Authenticate(r) \/ Authorize(r) \/ LimitRate(r) \/ GuardCost(r) \/ LookUp(r)
    <3>1. point' = point \/ point'[r] = "done"
      BY <1>1, <2>7 DEF Authenticate, Authorize, LimitRate, GuardCost, LookUp, Refuse, Finish,
                        Pass, FlowType
    <3>2. UNCHANGED <<tries, cost>>
      BY <2>7 DEF Authenticate, Authorize, LimitRate, GuardCost, LookUp
    <3> QED BY <1>1, <3>1, <3>2 DEF Attempting
  <2> QED BY <2>1, <2>2, <2>3, <2>4, <2>5, <2>6, <2>7 DEF Handle
<1> QED BY <1>2, <1>3

(* Who is let in by the guard: a request with the budget, while there is   *)
(* room for its estimate.                                                  *)
Reserves(r) == GuardCost(r) /\ r \in Budgeted /\ TryReserve(Estimate[r])

(* Any other step of a request can only shorten what it may be charged, or *)
(* turns one charge it may be into one it was.                             *)
LEMMA OwnOutstanding ==
  ASSUME FlowInv, CostInv, GuardInChain, NEW r \in Requests, Handle(r), ~Reserves(r)
  PROVE  /\ ceiling' = ceiling
         /\ \/ spent' = spent /\ Outstanding'[r] <= Outstanding[r]
            \/ /\ spent' = spent + cost[r] /\ cost[r] \in Charges
               /\ Outstanding'[r] = Outstanding[r] - 1
<1>1. FlowType /\ Good(r) /\ CostType /\ Attempting(r) /\ CostType'
  BY CostTyped DEF FlowInv, CostInv
<1>2. Outstanding[r] \in Nat /\ LeftToCharge(r) \in Nat
  BY <1>1, LeftIsNat
<1>3. tries[r] \in 0..MaxAttempts /\ MaxAttempts \in Nat /\ place[r] \in Nat
  BY <1>1, CostAssumption DEF CostType, FlowType
<1>4. ASSUME ~Guarded(r)' PROVE Outstanding'[r] <= Outstanding[r]
  BY <1>2, <1>4 DEF Outstanding
<1>5. CASE Arrive(r)
  <2>1. place'[r] = 1 /\ chain' = chain
    BY <1>1, <1>5 DEF Arrive, Good
  <2>2. ~Guarded(r)'
    BY <1>1, <2>1 DEF Guarded, FlowType
  <2> QED BY <1>4, <1>5, <2>2 DEF Arrive
<1>6. CASE Authenticate(r) \/ Authorize(r) \/ LimitRate(r) \/ LookUp(r) \/ GuardCost(r)
  <2>1. spent' = spent /\ ceiling' = ceiling /\ tries' = tries /\ chain' = chain
    BY <1>6 DEF Authenticate, Authorize, LimitRate, LookUp, GuardCost, Reserves, TryReserve
  <2>2. CASE point'[r] = "done"
    BY <1>4, <2>1, <2>2 DEF Guarded
  <2>3. CASE point' = point /\ place'[r] = place[r] + 1 /\ (r \in Budgeted => chain[place[r]] # "CostGuard")
    <3>1. LeftToCharge(r)' = LeftToCharge(r)
      BY <2>1, <2>3 DEF LeftToCharge
    <3>2. Guarded(r)' => Guarded(r)
      <4> SUFFICES ASSUME Guarded(r)' PROVE Guarded(r)
        OBVIOUS
      <4>1. PICK i \in DOMAIN chain : chain[i] = "CostGuard" /\ i < place[r] + 1
        BY <2>1, <2>3 DEF Guarded
      <4>2. r \in Budgeted /\ point[r] \notin {"new", "done"}
        BY <2>3 DEF Guarded
      <4>3. i \in Nat /\ i # place[r]
        BY <1>1, <2>3, <4>1, <4>2 DEF FlowType
      <4>4. i < place[r]
        BY <1>3, <4>1, <4>3
      <4> QED BY <4>1, <4>2, <4>4 DEF Guarded
    <3> QED BY <1>2, <2>1, <3>1, <3>2 DEF Outstanding
  <2>4. \/ point'[r] = "done"
        \/ point' = point /\ place'[r] = place[r] + 1 /\ (r \in Budgeted => chain[place[r]] # "CostGuard")
    <3>1. CASE Authenticate(r)
      BY <1>1, <3>1 DEF Authenticate, Reached, Refuse, Finish, Pass, FlowType
    <3>2. CASE Authorize(r)
      BY <1>1, <3>2 DEF Authorize, Reached, Refuse, Finish, Pass, FlowType
    <3>3. CASE LimitRate(r)
      BY <1>1, <3>3 DEF LimitRate, Reached, Refuse, Finish, Pass, FlowType
    <3>4. CASE LookUp(r)
      BY <1>1, <3>4 DEF LookUp, Reached, Refuse, Finish, Pass, FlowType
    <3>5. CASE GuardCost(r)
      BY <1>1, <3>5 DEF GuardCost, Reserves, Refuse, Finish, Pass, FlowType
    <3> QED BY <1>6, <3>1, <3>2, <3>3, <3>4, <3>5
  <2> QED BY <2>2, <2>3, <2>4
<1>7. CASE EndAttempt(r)
  <2>1. /\ place' = place /\ chain' = chain /\ spent' = spent /\ ceiling' = ceiling
        /\ point[r] = "chain" /\ tries'[r] = tries[r] + 1
        /\ point'[r] = IF r \in Budgeted THEN "load" ELSE "charged"
    BY <1>1, <1>7 DEF EndAttempt, FlowType, CostType
  <2>2. CASE r \notin Budgeted
    BY <1>4, <2>1, <2>2 DEF Guarded
  <2>3. CASE r \in Budgeted
    <3>1. LeftToCharge(r)' = LeftToCharge(r)
      BY <1>3, <2>1, <2>3 DEF LeftToCharge
    <3>2. Guarded(r)' <=> Guarded(r)
      BY <2>1, <2>3 DEF Guarded
    <3> QED BY <1>2, <2>1, <3>1, <3>2 DEF Outstanding
  <2> QED BY <2>2, <2>3
<1>8. CASE LoadSpent(r)
  <2>1. /\ UNCHANGED <<place, chain, spent, ceiling, tries>>
        /\ point[r] = "load" /\ point'[r] = "swap"
    BY <1>1, <1>8 DEF LoadSpent, FlowType
  <2>2. LeftToCharge(r)' = LeftToCharge(r) /\ (Guarded(r)' <=> Guarded(r))
    BY <2>1 DEF LeftToCharge, Guarded
  <2> QED BY <1>2, <2>1, <2>2 DEF Outstanding
<1>9. CASE SwapSpent(r)
  <2>1. UNCHANGED <<place, chain, ceiling, tries>> /\ point[r] = "swap"
    BY <1>9 DEF SwapSpent
  <2>2. CASE spent # read[r]
    <3>1. spent' = spent /\ point'[r] = "load"
      BY <1>1, <1>9, <2>2 DEF SwapSpent, FlowType
    <3>2. LeftToCharge(r)' = LeftToCharge(r) /\ (Guarded(r)' <=> Guarded(r))
      BY <2>1, <3>1 DEF LeftToCharge, Guarded
    <3> QED BY <1>2, <2>1, <3>1, <3>2 DEF Outstanding
  <2>3. CASE spent = read[r]
    <3>1. spent' = spent + cost[r] /\ point'[r] = "charged"
      BY <1>1, <1>9, <2>3 DEF SwapSpent, FlowType
    <3>2. r \in Budgeted /\ cost[r] \in Charges /\ place[r] = Len(chain) + 1
      BY <1>1, <2>1 DEF Attempting, Good
    <3>3. Guarded(r) /\ Guarded(r)'
      <4>1. \A i \in DOMAIN chain : i < place[r]
        BY <1>1, <3>2 DEF FlowType
      <4> QED BY <2>1, <3>1, <3>2, <4>1 DEF Guarded, GuardInChain
    <3>4. LeftToCharge(r)' = LeftToCharge(r) - 1
      BY <1>3, <2>1, <3>1 DEF LeftToCharge
    <3> QED BY <2>1, <3>1, <3>2, <3>3, <3>4 DEF Outstanding
  <2> QED BY <2>2, <2>3
<1>10. CASE Retry(r)
  <2>1. /\ UNCHANGED <<place, chain, spent, ceiling, tries>>
        /\ point[r] = "charged" /\ point'[r] = "chain"
    BY <1>1, <1>10 DEF Retry, FlowType
  <2>2. LeftToCharge(r)' = LeftToCharge(r) /\ (Guarded(r)' <=> Guarded(r))
    BY <2>1 DEF LeftToCharge, Guarded
  <2> QED BY <1>2, <2>1, <2>2 DEF Outstanding
<1>11. CASE Fail(r) \/ Succeed(r)
  <2>1. spent' = spent /\ ceiling' = ceiling /\ point'[r] = "done"
    BY <1>1, <1>11 DEF Fail, Succeed, Finish, FlowType
  <2> QED BY <1>4, <2>1 DEF Guarded
<1> QED BY <1>5, <1>6, <1>7, <1>8, <1>9, <1>10, <1>11 DEF Handle

(* A step that reserves leaves the budget covered by its new ceiling.      *)
LEMMA ReserveCovers ==
  ASSUME FlowInv, CostInv, Limit > 0, NEW r \in Requests, Reserves(r)
  PROVE  (spent + Most * SumFunctionOnSet(Outstanding, Requests))' <= ceiling'
<1> DEFINE S == {q \in Requests : Guarded(q)} \cup {r}
           part == [q \in Requests |-> IF q \in S THEN MayCharge[q] ELSE 0]
           may == SumFunctionOnSet(MayCharge, S)
           sum == SumFunctionOnSet(Outstanding', Requests)
<1>1. FlowType /\ CostType /\ CostType' /\ Handle(r)
  BY CostTyped DEF FlowInv, CostInv, Reserves, Handle
<1>2. /\ UNCHANGED <<chain, spent, tries, point>>
      /\ spent + Estimate[r] <= Limit
      /\ ceiling' = Limit - Estimate[r] + Most * may
  <2>1. spent + Estimate[r] <= Limit
    BY CostAssumption DEF Reserves, TryReserve
  <2>2. UNCHANGED <<chain, spent, tries, point>>
    BY DEF Reserves, GuardCost, Pass
  <2>3. ceiling' = Limit - Estimate[r] + Max(Charges) * SumFunctionOnSet(
            [q \in Requests |-> LeftToCharge(q)], {q \in Requests : Guarded(q)} \cup {r})
    BY DEF Reserves, GuardCost
  <2> QED BY <2>1, <2>2, <2>3 DEF Most, MayCharge
<1>3. \A q \in Requests : MayCharge[q] \in Nat /\ Outstanding[q] \in Nat
  BY <1>1, LeftIsNat DEF MayCharge
<1>4. \A q \in Requests : Outstanding'[q] \in Nat
  BY <1>1, LeftIsNatNext
<1>5. ASSUME NEW q \in Requests PROVE Outstanding'[q] <= part[q]
  <2>1. CASE q = r
    <3>1. Outstanding'[r] \in {0, LeftToCharge(r)'}
      BY DEF Outstanding
    <3>2. LeftToCharge(r)' = LeftToCharge(r) /\ part[r] = LeftToCharge(r)
      BY <1>2 DEF LeftToCharge, MayCharge
    <3> QED BY <1>3, <2>1, <3>1, <3>2 DEF MayCharge
  <2>2. CASE q # r
    <3>1. Outstanding'[q] = Outstanding[q]
      BY <1>1, <1>2, <2>2, OthersKept, OutstandingKept
    <3>2. Outstanding[q] = part[q]
      BY <2>2 DEF Outstanding, MayCharge
    <3> QED BY <1>3, <3>1, <3>2
  <2> QED BY <2>1, <2>2
<1>6. sum <= SumFunctionOnSet(part, Requests)
  <2>1. \A q \in Requests : Outstanding'[q] \in Int /\ part[q] \in Int /\ Outstanding'[q] <= part[q]
    BY <1>3, <1>4, <1>5
  <2> HIDE DEF part
  <2> QED BY <2>1, RequestAssumption, SumBelow
<1>7. SumFunctionOnSet(part, Requests) = may
  <2>1. \A q \in Requests : MayCharge[q] \in Int /\ part[q] = IF q \in S THEN MayCharge[q] ELSE 0
    BY <1>3
  <2>2. S \in SUBSET Requests
    OBVIOUS
  <2> HIDE DEF part, S
  <2> QED BY <2>1, <2>2, RequestAssumption, SumOnPart
<1>8. may \in Nat /\ sum \in Nat
  <2>1. IsFiniteSet(S) /\ \A q \in S : MayCharge[q] \in Nat
    BY <1>3, RequestAssumption, FS_Subset
  <2> HIDE DEF S
  <2>2. may \in Nat
    BY <2>1, SumNat
  <2>3. sum \in Nat
    BY <1>4, RequestAssumption, SumNat
  <2> QED BY <2>2, <2>3
<1>9. sum <= may
  BY <1>6, <1>7
<1> HIDE DEF may, sum
<1>10. Most * sum <= Most * may /\ Most * sum \in Int /\ Most * may \in Int
  BY <1>8, <1>9, MostIsMost
<1>11. spent \in Int /\ Limit \in Int /\ Estimate[r] \in Int
  BY <1>1, CostAssumption, RequestAssumption DEF CostType
<1>12. spent' + Most * sum <= ceiling'
  BY <1>2, <1>10, <1>11
<1> QED BY <1>12 DEF sum, Most

(* Any other step takes nothing off the cover: what it adds to the sum is  *)
(* at most what one charge may be.                                         *)
LEMMA OthersCovered ==
  ASSUME FlowInv, CostInv, Limit > 0, GuardInChain, NEW r \in Requests, Handle(r), ~Reserves(r)
  PROVE  (spent + Most * SumFunctionOnSet(Outstanding, Requests))' <= ceiling'
<1> DEFINE before == SumFunctionOnSet(Outstanding, Requests)
           after == SumFunctionOnSet(Outstanding', Requests)
<1>1. FlowType /\ CostType /\ CostType' /\ spent + Most * before <= ceiling
  BY CostTyped DEF CostInv, FlowInv, Covered
<1>2. /\ \A q \in Requests : Outstanding[q] \in Int
      /\ Outstanding'[r] \in Int
  <2>1. \A q \in Requests : Outstanding[q] \in Nat
    BY <1>1, LeftIsNat
  <2>2. \A q \in Requests : Outstanding'[q] \in Nat
    BY <1>1, LeftIsNatNext
  <2> QED BY <2>1, <2>2
<1>3. \A q \in Requests : q # r => Outstanding'[q] = Outstanding[q]
  BY <1>1, OthersKept, OthersAttempts, OutstandingKept
<1>4. after = before - Outstanding[r] + Outstanding'[r]
  BY <1>2, <1>3, RequestAssumption, SumChange
<1>5. before \in Int
  BY <1>2, RequestAssumption, SumFacts
<1>6. Most \in Nat /\ spent \in Int /\ ceiling \in Int
  BY <1>1, MostIsMost DEF CostType
<1> HIDE DEF before, after
<1>7. CASE spent' = spent /\ Outstanding'[r] <= Outstanding[r] /\ ceiling' = ceiling
  <2>1. after <= before /\ after \in Int /\ Outstanding[r] \in Int
    BY <1>2, <1>4, <1>5, <1>7
  <2>2. Most * after <= Most * before /\ Most * after \in Int /\ Most * before \in Int
    BY <1>5, <1>6, <2>1
  <2> QED BY <1>1, <1>6, <1>7, <2>2 DEF after, Most
<1>8. CASE /\ spent' = spent + cost[r] /\ cost[r] \in Charges /\ ceiling' = ceiling
           /\ Outstanding'[r] = Outstanding[r] - 1
  <2>1. after = before - 1 /\ cost[r] \in Nat /\ cost[r] <= Most
    BY <1>2, <1>4, <1>5, <1>8, MostIsMost
  <2>2. Most * after = Most * before - Most /\ Most * before \in Int
    BY <1>5, <1>6, <2>1
  <2> QED BY <1>1, <1>6, <1>8, <2>1, <2>2 DEF after, Most
<1> QED BY <1>7, <1>8, OwnOutstanding

(* Every step keeps the invariant. *)
LEMMA NextCost == FlowInv /\ CostInv /\ [Next]_vars => CostInv'
<1> SUFFICES ASSUME FlowInv, CostInv, [Next]_vars PROVE CostInv'
  OBVIOUS
<1>1. ASSUME NEW r \in Requests, Handle(r) PROVE CostInv'
  <2>1. CostType' /\ \A q \in Requests : Attempting(q)'
    BY <1>1, CostTyped, AttemptsKept
  <2>2. chain' = chain
    BY <1>1, OthersKept DEF FlowInv
  <2>3. Covered'
    <3> SUFFICES ASSUME Limit > 0, GuardInChain
                 PROVE  (spent + Most * SumFunctionOnSet(Outstanding, Requests))' <= ceiling'
      BY <2>2 DEF Covered, GuardInChain
    <3> QED BY <1>1, ReserveCovers, OthersCovered
  <2> QED BY <2>1, <2>3 DEF CostInv
<1>2. CASE UNCHANGED <<chain, spent, ceiling, tries, cost, point, place>>
  <2>1. CostType' /\ \A q \in Requests : Attempting(q)'
    BY <1>2 DEF CostInv, CostType, Attempting
  <2>2. Outstanding' = Outstanding
    BY <1>2 DEF Outstanding, Guarded, LeftToCharge
  <2>3. Covered'
    BY <1>2, <2>2 DEF CostInv, Covered, GuardInChain, Most
  <2> QED BY <2>1, <2>3 DEF CostInv
<1> QED BY <1>1, <1>2 DEF Next, Tick, vars, requestVars

(* The guard compares and reserves nothing: a budget is overrun by no more *)
(* than the requests past it at its last admission may still be charged,   *)
(* for any requests, estimates, charges and chains.                        *)
THEOREM BudgetOverrunBounded == Spec => []OverspendBounded
<1>1. FlowInv /\ CostInv => OverspendBounded
  <2> SUFFICES ASSUME FlowInv, CostInv, Limit > 0, GuardInChain PROVE spent <= ceiling
    BY DEF OverspendBounded, GuardInChain
  <2>1. \A q \in Requests : Outstanding[q] \in Nat
    BY LeftIsNat DEF CostInv
  <2>2. SumFunctionOnSet(Outstanding, Requests) \in Nat
    BY <2>1, RequestAssumption, SumNat
  <2>3. Most * SumFunctionOnSet(Outstanding, Requests) \in Nat
    BY <2>2, MostIsMost
  <2>4. spent + Most * SumFunctionOnSet(Outstanding, Requests) <= ceiling
    BY DEF CostInv, Covered
  <2> QED BY <2>3, <2>4 DEF CostInv, CostType
<1> QED BY <1>1, InitFlow, NextFlow, InitCost, NextCost, PTL DEF Spec
=============================================================================
