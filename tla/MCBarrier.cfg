SPECIFICATION LiveSpec
CONSTANTS
  Threads = {t1, t2, t3, t4}
  Count = 3
  Generations = 3
  Private = TRUE
  EarlyReuse = FALSE
PROPERTIES
  ImplementsBarrier
  ReleasedReturn
CHECK_DEADLOCK FALSE
