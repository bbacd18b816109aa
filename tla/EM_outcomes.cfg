\* One execution, every reply and error of a provider, retries, two waits, two cancels, a shutdown.
CONSTANTS
  e1 = e1  e2 = e2  e3 = e3  w1 = w1  w2 = w2  p1 = p1  p2 = p2
  Execs = {e1}
  Served = {e1}
  Providers = {p1, p2}
  ProviderOf <- OneProvider
  Registered = {p1}
  ProviderLimit <- OneEach
  GlobalLimit = 1
  QueueSize = 1
  SignalCap = 1
  MaxAttempts = 2
  Replies = {"success", "nil", "failedResult", "bareFailure"}
  ProviderErrors = {"timeout", "cancelled", "other"}
  MaxCancels <- TwoCancels
  Waiters = {w1, w2}
  WaitsFor <- WaitForFirst
  MayShutdown = TRUE
  None = None
SPECIFICATION FairSpec
INVARIANTS SlotAccounting AnsweredWithResult
PROPERTY TimelyWaitReturns
CHECK_DEADLOCK FALSE
