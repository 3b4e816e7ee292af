SPECIFICATION CoordinationFairSpec
CONSTANTS
  Sequential = FALSE
  ProxyFails = TRUE
  WorkerDies = TRUE
  Starts = "never"
INVARIANTS NoBackupDuringReplacement
PROPERTIES RestoreConcludes ClosureHappens
