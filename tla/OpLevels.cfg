SPECIFICATION FairSpec
CONSTANTS
  Players = {steve, alex}
  Levels = {2, 4}
  DefaultLevel = 4
  None = None
  NoFile = NoFile
  MaxFaults = 2
  CommitFails = FALSE
  AdminInterferes = FALSE
CHECK_DEADLOCK FALSE
INVARIANTS StoppedServerLeavesMarker
PROPERTIES AtomicBatch WritesWhileStopped EventuallyApplied
