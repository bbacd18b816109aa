\* Three executions on two providers of limit 1, two global slots: contention on both limits.
CONSTANTS
  e1 = e1  e2 = e2  e3 = e3  w1 = w1  w2 = w2  p1 = p1  p2 = p2
  Execs = {e1, e2, e3}
  Served = {e1, e2, e3}
  Providers = {p1, p2}
  ProviderOf <- TwoProviders
  Registered = {p1}
  ProviderLimit <- OneEach
  GlobalLimit = 2
  QueueSize = 3
  SignalCap = 1
  MaxAttempts = 1
  Replies = {"success"}
  ProviderErrors = {}
  MaxCancels <- NoCancel
  Waiters = {}
  WaitsFor <- WaitForFirst
  MayShutdown = FALSE
  None = None
SPECIFICATION Spec
INVARIANTS WithinLimits NoLostDispatch
SYMMETRY FirstTwo
CHECK_DEADLOCK FALSE
