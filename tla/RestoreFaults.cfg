SPECIFICATION Spec
CONSTANTS
  level = level  extra = extra  fresh = fresh  log = log
  full = full  logsOnly = logsOnly
  Files <- MCFiles
  RootOf <- MCRootOf
  Archives <- MCArchives
  Members <- MCMembers
  OldFiles <- MCOldFiles
  Old = Old  Absent = Absent  Torn = Torn
  Played = {played}
  NoArchive = NoArchive  NoDir = NoDir
  MaxRuns = 2
  MaxFaults = 2
  CleanupCompletes = FALSE
  AdminMayStart = TRUE
CHECK_DEADLOCK FALSE
INVARIANTS StoppedServerLeavesMarker ManualServesWhole
PROPERTIES StartsWholeFiles EndsOpen
