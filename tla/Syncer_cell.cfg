SPECIFICATION Spec
CONSTANTS
  Chunk = 56
  Period = 140
  Window = 4
  MinSize = 5
  Lead = 1
  SsbLength = 2
  Environments <- Everything
  Nid1Width = 256
  NumBwps = 2
  MaxFlows = 4
  MaxChunks = 10
  LastSizes <- Endings
  Losses <- Overflows
INVARIANTS RelaysAligned MetadataIsPosition OneFlowPerBwp RelayIsServed MappersOfCell NeverIdlesUnsynced NoGap FoundInTime
PROPERTIES FlowsAreGranted
CHECK_DEADLOCK FALSE
