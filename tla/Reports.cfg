SPECIFICATION MCSpec
CONSTANTS
  e1 = e1
  e2 = e2
  e3 = e3
  Event <- MCEvent
  HourOf <- MCHourOf
  LastHour = 2
  Collector = collector
  Web = {w1}
  Worker = {w1, w2}
  LastCommit = 3
  LastDay = 1
  Pool = {t1, t2, t3}
  Client = {w1, w2}
  Ttl = 2
  MonthStart <- MCMonthStart
  Subscription <- MCSubscription
  BillingDay = 2
  LastTime = 5
  Account = {1}
  Percent = {1, 4}
  Window = {2, 4}
  CycleTolerance = 1
  GroupTolerance = 2
  FirstEvent <- MCFirstEvent
  MaxSamples = 3
  LastInstant = 4
  ab = ab
  cb = cb
  ad = ad
  b = b
  PriceId = {ab, cb}
  BareOf <- MCBareOf
  Bill <- MCBill
  ModelOf <- MCModelOf
  AliasOf <- MCAliasOf
  Ignored = Ignored
  NoAlias = NoAlias
  NoCost = NoCost
INVARIANTS
  ReportExact
  CacheFresh
  FreshAnswers
  UsageInOneCycle
  NoGuess
PROPERTIES
  DropEnds
CHECK_DEADLOCK FALSE
