SPECIFICATION Spec
CONSTANTS
  e1 = e1
  e2 = e2
  e3 = e3
  Event <- MCEvent
  HourOf <- MCHourOf
  LastHour = 2
  Collector = collector
  Web = {w1}
CHECK_DEADLOCK TRUE
PROPERTY ArchivedHoursFrozen
