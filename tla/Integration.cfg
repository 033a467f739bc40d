SPECIFICATION MCSpec
CONSTANTS
  Field = {"model", "tps", "agent"}
  Clock = {0, 2}
  MaxSeq = 4
  MaxSaid = 3
  Tokenizer = {t1, t2}
  NoCount = NoCount
  WordLimit = 2
  MaxText = 5
  Root = {r1, r2}
  Helper = {h}
  Model = {m1}
  Nobody = Nobody
  MaxBuffered = 2
  MaxEvents = 4
  Cred = {a, b}
  NoCred = NoCred
  Request = {q1, q2}
  Limit = {l}
  MaxEpoch = 4
  MaxGeneration = 1
  Launcher = {l1, l2}
  MaxLaunches = 4
INVARIANTS
  TextCountedOnce
  PaneOfOneRoot
  LateAnswersHarmless
  PinsDurable
  OneNamespace
PROPERTIES
  RowKeepsPromise
  BlankAfterEnd
CHECK_DEADLOCK FALSE
