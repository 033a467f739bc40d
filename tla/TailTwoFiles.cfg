SPECIFICATION FairSpec
CONSTANTS
  File = {"f1", "f2"}
  MaxLine = 1
  MaxGen = 1
  Chunk = 1
  BatchLimit = 1
  TornLine = {}
  PositionKey = TRUE
  Downtime = FALSE
  ReadFails = FALSE
  DbFails = TRUE
PROPERTIES OnlyFirstRoundSkips EveryLineStored
