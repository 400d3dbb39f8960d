SPECIFICATION LiveSpec
CONSTANTS
  Threads = {t1, t2, t3}
  None = None
  SemMax = 2
  MaxRecursion = 2
INVARIANT
  NoLostWakeup
PROPERTIES
  ImplementsMutex
  FreeMutexTaken
  DeathNoticed
CHECK_DEADLOCK FALSE
