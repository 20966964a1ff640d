SPECIFICATION Spec
CONSTANTS
  Configs <- DefaultFile
  ScramblingIds <- TwoIds
  num_slots_per_frame = 10
INVARIANTS LookupFindsOwn
CHECK_DEADLOCK FALSE
