\* Two executions for one slot, one of them on a provider nobody registered and the other
\* cancelled at any moment; a third of a class that is never served.
CONSTANTS
  e1 = e1  e2 = e2  e3 = e3  w1 = w1  w2 = w2  p1 = p1  p2 = p2
  Execs = {e1, e2, e3}
  Served = {e1, e2}
  Providers = {p1, p2}
  ProviderOf <- SecondUnknown
  Registered = {p1}
  ProviderLimit <- NoLimit
  GlobalLimit = 1
  QueueSize = 2
  SignalCap = 1
  MaxAttempts = 1
  Replies = {"success"}
  ProviderErrors = {"other"}
  MaxCancels <- OnlyFirstOnce
  Waiters = {}
  WaitsFor <- WaitForFirst
  MayShutdown = FALSE
  None = None
SPECIFICATION FairSpec
INVARIANTS OnePlace AcquireNeverBlocks
PROPERTIES CancelFromQueueIsFinal SubmissionsSettle SlotsComeBack
CHECK_DEADLOCK FALSE
