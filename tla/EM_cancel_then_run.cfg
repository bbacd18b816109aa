\* Cancel of an execution that the scheduler holds or that waits for a retry.
CONSTANTS
  e1 = e1  e2 = e2  e3 = e3  w1 = w1  w2 = w2  p1 = p1  p2 = p2
  Execs = {e1}
  Served = {e1}
  Providers = {p1, p2}
  ProviderOf <- OneProvider
  Registered = {p1}
  ProviderLimit <- OneEach
  GlobalLimit = 1
  QueueSize = 1
  SignalCap = 1
  MaxAttempts = 2
  Replies = {"success"}
  ProviderErrors = {"other"}
  MaxCancels <- OneCancel
  Waiters = {}
  WaitsFor <- WaitForFirst
  MayShutdown = FALSE
  None = None
SPECIFICATION Spec
INVARIANT CancelledBeforeRunning
CHECK_DEADLOCK FALSE
