\* Three requests, three users (two of whom can share a cache key) and chains in and out of
\* order.
CONSTANTS
  r1 = r1  r2 = r2  r3 = r3  u1 = u1  u2 = u2  u3 = u3
  Requests = {r1, r2, r3}
  Users = {u1, u2, u3}
  Admins = {u1}
  TokensOf <- MCTokensOf
  Critical = {r3}
  NameText <- MCNameText
  ProviderText <- MCProviderText
  PayloadText <- MCPayloadText
  Budgeted = {r1, r2, r3}
  Estimate <- EstimateOne
  Charges = {2}
  Limit = 2
  MaxAttempts = 2
  Part = 2
  Rate = 1
  Capacity = 4
  MaxTime = 2
  Chains <- MCChains
  Anonymous = Anonymous
  NoRequest = NoRequest
SPECIFICATION Spec
INVARIANTS RateWithinBurst ServedToEntitled SpentIsTotal OverspendBounded
CHECK_DEADLOCK FALSE
