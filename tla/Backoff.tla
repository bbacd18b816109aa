------------------------------ MODULE Backoff ------------------------------
(***************************************************************************)
(* CalculateBackoff of core/execution/retry.go: the delay before a retry,  *)
(* from the policy and the number of the attempt that failed.  A delay is  *)
(* a 64-bit count of nanoseconds whose product may wrap around; here the   *)
(* width is a parameter.  A strategy the code does not know counts as      *)
(* constant, as its default case does.                                     *)
(***************************************************************************)
EXTENDS Integers

CONSTANTS
  Policies,       \* the retry policies tried: strategy, base, maxDelay, jitter
  BackoffTries,   \* the attempt numbers tried
  MultiplierCap,  \* 1000000 in the code
  IntLimit        \* 2^63 in the code: the least positive number that wraps

Strategies == {"constant", "linear", "exponential"}

ASSUME BackoffAssumption ==
  /\ Policies \subseteq [strategy : Strategies, base : Nat, maxDelay : Nat, jitter : BOOLEAN]
  /\ BackoffTries \subseteq Int
  /\ MultiplierCap \in Nat \ {0} /\ IntLimit \in Nat \ {0}

VARIABLES
  policy, try,
  doubled,     \* the loop's index
  multiplier,
  delay        \* what is returned, -IntLimit - 1 while it is computed

backoffVars == <<policy, try, doubled, multiplier, delay>>

Unknown == -IntLimit - 1

BackoffInit ==
  /\ policy \in Policies
  /\ \E n \in BackoffTries : try = IF n <= 0 THEN 1 ELSE n
  /\ doubled = 1 /\ multiplier = 1
  /\ delay = Unknown

(* Mutant: the loop runs once too often. *)
DoublingOnceMore == delay = Unknown /\ policy.strategy = "exponential" /\ doubled <= try

Doubling == delay = Unknown /\ policy.strategy = "exponential" /\ doubled < try

(* One round of the loop, which is left when the cap is passed.            *)
Double ==
  /\ Doubling
  /\ IF multiplier * 2 > MultiplierCap
       THEN multiplier' = MultiplierCap /\ doubled' = try
       ELSE multiplier' = multiplier * 2 /\ doubled' = doubled + 1
  /\ UNCHANGED <<policy, try, delay>>

Wrap(n) == ((n + IntLimit) % (2 * IntLimit)) - IntLimit

Factor == CASE policy.strategy = "constant"    -> 1
            [] policy.strategy = "linear"      -> try
            [] policy.strategy = "exponential" -> multiplier

Clamped == LET raw == Wrap(policy.base * Factor)
           IN IF policy.maxDelay > 0 /\ raw > policy.maxDelay THEN policy.maxDelay ELSE raw

Deliver ==
  /\ delay = Unknown /\ ~Doubling
  /\ delay' \in IF policy.jitter /\ Clamped > 0 THEN 0..(Clamped - 1) ELSE {Clamped}
  /\ UNCHANGED <<policy, try, doubled, multiplier>>

BackoffNext == Double \/ Deliver

BackoffSpec == BackoffInit /\ [][BackoffNext]_backoffVars

-----------------------------------------------------------------------------
(* What the strategies mean, without a loop, a cap or a wrap-around.       *)
PowerOfTwo[n \in Nat] == IF n = 0 THEN 1 ELSE 2 * PowerOfTwo[n - 1]

Growth(strategy, n) == CASE strategy = "constant"    -> 1
                         [] strategy = "linear"      -> n
                         [] strategy = "exponential" -> PowerOfTwo[n - 1]

(* A delay is the strategy's, limited by the policy's MaxDelay, or with    *)
(* jitter anything below that, provided the product fits an integer and    *)
(* the limit is reached before the loop's cap; and no delay ever exceeds   *)
(* MaxDelay (retry.go 30-70).                                              *)
BackoffIsRight ==
  delay # Unknown =>
    LET limit == policy.maxDelay
        exact == policy.base * Growth(policy.strategy, try)
        want == IF limit > 0 /\ exact > limit THEN limit ELSE exact
        fits == /\ policy.base * Factor < IntLimit
                /\ Growth(policy.strategy, try) <= MultiplierCap
                   \/ (limit > 0 /\ limit <= policy.base * MultiplierCap)
    IN /\ limit > 0 => delay <= limit
       /\ fits => IF policy.jitter /\ want > 0 THEN delay \in 0..(want - 1) ELSE delay = want
=============================================================================
