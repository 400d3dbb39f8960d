SPECIFICATION Spec
CONSTANTS
  Threads = {m, a, b}
  Main = m
  NT = TRUE
SYMMETRY Symmetry
INVARIANTS
  ClosedOnce
  Reclaimed
  JoinAfterEnd
  LiveCounted
CHECK_DEADLOCK FALSE
