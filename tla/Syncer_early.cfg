SPECIFICATION Spec
CONSTANTS
  Chunk = 56
  Period = 140
  Window = 4
  MinSize = 5
  Lead = 1
  SsbLength = 2
  Environments <- AnyPhase
  Nid1Width = 256
  NumBwps = 1
  MaxFlows = 4
  MaxChunks = 8
  LastSizes <- Endings
  Losses <- Overflows
INVARIANTS OneFlowPerBwpAlways
CHECK_DEADLOCK FALSE
