SPECIFICATION CoordinationSpec
CONSTANTS
  Sequential = TRUE
  ProxyFails = FALSE
  WorkerDies = FALSE
  Starts = "idle"
INVARIANTS NoOverlap NeverServesMixedWorld
