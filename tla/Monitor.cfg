SPECIFICATION MCSpec
CONSTANTS
  Source = {codex}
  Account = {work, home}
  None = None
  Base = 1
  Cap = 2
  MaxFailures = 2
  MaxRetry = 2
  MaxReset = 1
  Route = {openai}
  Interval = 2
  MaxBackoff = 2
  MaxUpdates = 2
INVARIANTS CardsOfIdentity RetryAfterHonoured NoStrayChild
PROPERTIES EndsOnHangup EndsOnRequest
CHECK_DEADLOCK FALSE
