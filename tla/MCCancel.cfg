SPECIFICATION LiveSpec
CONSTANTS
  a = a
  b = b
  c = c
  None = None
  Threads = {a, b, c}
  MayCancel <- TwoCancelers
  NT = TRUE
  Failures = TRUE
INVARIANTS
  CleanupOnce
  LockNotAbandoned
  SuspensionBracketed
PROPERTIES
  InterruptedOnlyAsync
  AsyncActedOn
CHECK_DEADLOCK FALSE
