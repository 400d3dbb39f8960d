SPECIFICATION Spec
CONSTANTS
  t1 = t1
  t2 = t2
  c1 = c1
  c2 = c2
  g1 = g1
  Threads = {t1, t2}
  Cbs = {c1, c2}
  Groups = {g1}
  MaxReq = 2
  None = None
SYMMETRY Symmetric
INVARIANTS
  GroupCounted
  NoWakeupMissed
  Drained
  ListComplete
CHECK_DEADLOCK FALSE
