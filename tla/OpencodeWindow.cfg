SPECIFICATION FairSpec
CONSTANTS
  MaxRow = 4
  Window = 2
  Overrun = FALSE
  StepFills = FALSE
  ReadFails = FALSE
  DbFails = TRUE
INVARIANTS NoHistory StoredFinal
PROPERTY FilledStored
