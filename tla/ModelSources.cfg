SPECIFICATION MCSpec
CONSTANTS
  m1 = m1
  m2 = m2
  Model <- MCModel
  MaxLine = 4
  HeadLines = 2
  BatchLimit = 2
  Records = TRUE
  Mentions = TRUE
  History = TRUE
  Restarts = TRUE
  HeadFails = TRUE
  DbFails = TRUE
  s1 = s1
  s2 = s2
  g1 = g1
  g2 = g2
  Session <- MCSession
  GrokModel <- MCGrokModel
  MaxWritten = 3
  MaxEdits = 2
  EditsWithout = 1
  LinesWithFailures = 2
  FullBatch = 2
  Rotations = TRUE
  ConfigFails = TRUE
  GrokRestarts = TRUE
  GrokFails = TRUE
INVARIANTS CountedOnce NoneLost Attributed GrokAttributed
SYMMETRY MCSymmetry
