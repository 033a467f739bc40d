SPECIFICATION RebuildSpec
CONSTANTS
  plain = plain
  dup = dup
  omit = omit
  Event <- MCEvent
  HourOf <- MCHourOf
  Duplicate <- MCDuplicate
  Omitted <- MCOmitted
  LastHour = 2
  Collector = collector
  Web = {w1}
  Faults = TRUE
INVARIANTS ArchivedBelowCursor RebuildConsistent
