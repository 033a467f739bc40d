SPECIFICATION Spec
CONSTANTS
  File = {"f1"}
  MaxLine = 2
  MaxGen = 2
  Chunk = 1
  BatchLimit = 2
  TornLine = {}
  PositionKey = FALSE
  Downtime = TRUE
  ReadFails = TRUE
  DbFails = TRUE
INVARIANTS TypeOK WatermarkCovers
