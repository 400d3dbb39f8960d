SPECIFICATION Spec
CONSTANTS
  Threads = {t1, t2}
  None = None
  SemMax = 1
  MaxRecursion = 1
INVARIANT NoPostAfterDestroy
CHECK_DEADLOCK FALSE
