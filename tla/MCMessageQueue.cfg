SPECIFICATION Spec
CONSTANTS
  p1 = p1
  p2 = p2
  Procs = {p1, p2}
  None = None
  Dead = Dead
  Prios = {0, 1}
  MaxMsg = 2
  MaxSeq = 3
  MaxGen = 1
  MaxFault = 1
  NT = TRUE
SYMMETRY Symmetric
INVARIANTS
  TokensSound
  TokensExact
  RegistrationKept
  MessageAnnounced
PROPERTY ImplementsQueue
CHECK_DEADLOCK FALSE
