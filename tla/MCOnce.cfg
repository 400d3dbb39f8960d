SPECIFICATION LiveSpec
CONSTANTS
  t1 = t1
  t2 = t2
  t3 = t3
  c1 = c1
  c2 = c2
  Threads = {t1, t2, t3}
  Controls = {c1, c2}
INVARIANTS
  OneInitializer
  NoSleeperLeft
PROPERTY CallsReturn
CHECK_DEADLOCK FALSE
