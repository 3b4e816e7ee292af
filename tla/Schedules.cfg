SPECIFICATION Spec
CONSTANTS
  FailsBefore = {}
  FailsAfter = {}
  DayLength = 2
  MaxTime = 2
  MaxEvents = 3
  FromRegistry = TRUE
  Entries <- MCEntries
  Delays = {1}
CHECK_DEADLOCK FALSE
INVARIANTS ArmedOnce
PROPERTIES DueHappens EndIsTold
