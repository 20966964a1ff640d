SPECIFICATION Spec
CONSTANTS
  MaxFlows = 2
  QueueCap = 2
  MaxChunks = 3
  EofMayBeEmpty = TRUE
INVARIANTS NoException AssertionsHold ChunkMeetsItsWorkers NoWorkLost WaitsForAllFlows IInv
PROPERTIES InOrder ShutdownTerminates ImplementsService
CHECK_DEADLOCK FALSE
