---------------------------- MODULE MCMiddleware ----------------------------
(* An instance of Middleware for TLC: the first request is always u1's, the *)
(* second may be any user's, the third is critical and may be anyone's or   *)
(* nobody's.  The first two have one cache key when the second is u3's.     *)
EXTENDS Middleware, TLC

CONSTANTS r1, r2, r3, u1, u2, u3

MCTokensOf == (r1 :> {u1}) @@ (r2 :> {u1, u2, u3}) @@ (r3 :> {u1, u2, Anonymous, "bad"})
MCNameText == (u1 :> <<"a">>) @@ (u2 :> <<"z">>) @@ (u3 :> <<"a", "b">>) @@ (Anonymous :> <<"">>)
MCProviderText == (r1 :> <<"b">>) @@ (r2 :> <<"c">>) @@ (r3 :> <<"c">>)
MCPayloadText == (r1 :> <<"c", "x">>) @@ (r2 :> <<"x">>) @@ (r3 :> <<"x">>)
EstimateOne == [r \in Requests |-> 1]
MCChains == {
  <<"Authentication", "Authorization", "RateLimiting", "CostGuard", "Caching">>,
  <<"Authentication", "Authorization", "Caching", "CostGuard">>,
  <<"Authentication", "RateLimiting">>,
  <<"Caching", "Authentication", "Authorization">>,
  <<"Authentication", "CostGuard", "Authentication">>}
=============================================================================
