SPECIFICATION Spec
CONSTANTS
  File = {"f1"}
  MaxLine = 2
  MaxGen = 1
  Chunk = 4
  BatchLimit = 9
  TornLine = {0}
  PositionKey = FALSE
  Downtime = FALSE
  ReadFails = FALSE
  DbFails = FALSE
INVARIANT WatermarkCovers
