SPECIFICATION FairSpec
CONSTANTS
  level = level  extra = extra  fresh = fresh  log = log
  full = full  logsOnly = logsOnly
  Files <- MCFiles
  RootOf <- MCRootOf
  Archives <- MCArchives
  Members <- MCMembers
  OldFiles <- MCOldFiles
  Old = Old  Absent = Absent  Torn = Torn
  Played = {played}
  NoArchive = NoArchive  NoDir = NoDir
  MaxRuns = 2
  MaxFaults = 2
  CleanupCompletes = TRUE
  AdminMayStart = FALSE
CHECK_DEADLOCK FALSE
INVARIANT StoppedWhileCopying
PROPERTIES AtomicRestore EveryRunEnds
