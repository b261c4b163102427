SPECIFICATION FairSpec
CONSTANTS
  MaxRetries = 3
  Transport = {"connect", "timeout"}
  Retryable = {"429", "503"}
  Refusals = {"400", "401"}
  BadRequest = "400"
  None = None
CHECK_DEADLOCK FALSE
INVARIANTS FallbackCoversFailures AdaptersRaiseProviderErrors
