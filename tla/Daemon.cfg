SPECIFICATION MCSpec
CONSTANTS
  i1 = i1
  p2 = p2
  c2 = c2
  Ids = {i1}
  Processes = {p1, p2}
  IdOf <- MCIdOf
  Nobody = Nobody
  Closers = {c1, c2}
  Jobs = {j1}
  QueueCapacity = 1
INVARIANTS
  RunningIsRegistered
  NothingLeftUntold
PROPERTIES
  ServedCloseEnds
  ShutdownCompletes
CHECK_DEADLOCK FALSE
