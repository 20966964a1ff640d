SPECIFICATION Spec
CONSTANTS
  MaxFlows = 1
  QueueCap = 2
  MaxChunks = 2
  EofMayBeEmpty = FALSE
INVARIANTS MetadataOfChunk
CHECK_DEADLOCK FALSE
