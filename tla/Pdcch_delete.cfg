SPECIFICATION Spec
CONSTANTS
  Threads = {t1}
  Coresets <- DefaultNumbers
  Rntis <- TwoRntis
  Sizes <- TwoSizes
  rnti_list_length = 65535
  RepetitionOnly = TRUE
  Transmissions <- Traffic
PROPERTIES DeletedAreCovered
CHECK_DEADLOCK FALSE
