SPECIFICATION FairSpec
CONSTANTS
  e1 = e1
  e2 = e2
  e3 = e3
  Event <- MCEvent
  HourOf <- MCHourOf
  LastHour = 3
  Collector = collector
  Web = {}
CHECK_DEADLOCK TRUE
INVARIANTS TypeOK AtMostOnce OnlyClosedHours NoGap
PROPERTIES ClosedHoursFrozen EventuallyArchived ArchiveSpec
