SPECIFICATION Spec
CONSTANTS
  a = a
  b = b
  c = c
  None = None
  Threads = {a, c}
  MayCancel <- OneCanceler
  NT = FALSE
  Failures = FALSE
INVARIANT SuspensionBracketed
CHECK_DEADLOCK FALSE
