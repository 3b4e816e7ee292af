SPECIFICATION FairSpec
CONSTANTS
  Players = {p1, p2}
  Spellings = {s1}
  Requests = {t1, t2}
  Durations = {1, 2}
  Horizon = 4
  MaxRequests = 3
  MaxFaults = 2
PROPERTIES LiftsOnlyDue TempBansEnd
CHECK_DEADLOCK FALSE
