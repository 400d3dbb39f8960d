SPECIFICATION Spec
CONSTANTS
  t1 = t1
  t2 = t2
  t3 = t3
  p1 = p1
  p2 = p2
  None = None
  Threads = {t1, t2, t3}
  Procs = {p1, p2}
  Owner <- Owners
  Slots = {1, 2}
  MaxRefs = 3
  MaxObj = 3
  MaxCrash = 1
SYMMETRY Symmetric
INVARIANTS
  OneEntry
  EntryKept
  SameSemaphore
  Recovers
CHECK_DEADLOCK FALSE
