SPECIFICATION CoordinationSpec
CONSTANTS
  Sequential = FALSE
  ProxyFails = FALSE
  WorkerDies = FALSE
  Starts = "never"
INVARIANT NoOverlap
