SPECIFICATION Spec
CONSTANTS
  Threads = {t1, t2, t3, t4}
  Restless = {t1}
  Priorities = {0, 1}
  MaxHold = 1
  None = None
SYMMETRY Symmetry
INVARIANTS
  Exclusion
  NoStrandedWaiter
  GrantMatchesPost
  NoEligibleReaderWaits
PROPERTY PriorityOrder
CHECK_DEADLOCK FALSE
