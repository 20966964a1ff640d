SPECIFICATION Spec
CONSTANTS
  Threads = {t1, t2}
  Coresets <- SameNumbers
  Rntis <- TwoRntis
  Sizes <- TwoSizes
  rnti_list_length = 65535
  RepetitionOnly = TRUE
  Transmissions <- Traffic
INVARIANTS RntiListKept EveryDciFound
PROPERTIES ProcessReturns
CHECK_DEADLOCK FALSE
