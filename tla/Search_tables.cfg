SPECIFICATION Spec
CONSTANTS
  Configs <- Files
  ScramblingIds <- SameId
  num_slots_per_frame = 20
INVARIANTS LookupFindsOwn ReceivedIsGenerated CandidatesApart WholeCoresetsAreSearched
CHECK_DEADLOCK FALSE
