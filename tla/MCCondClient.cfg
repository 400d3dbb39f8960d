SPECIFICATION ClientSpec
CONSTANTS
  Threads = {p, c1, c2, c3}
  None = None
  Producer = p
INVARIANTS
  ReachableOrPosted
  NoConsumerStranded
PROPERTIES
  SignalReported
  ConsumersFinish
CHECK_DEADLOCK FALSE
