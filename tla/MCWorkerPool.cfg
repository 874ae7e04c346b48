SPECIFICATION FairSpec
CONSTANTS
  a = a
  b = b
  d = d
  e = e
  docker = docker
  Jobs = {a, b, d, e}
  Forget = {d}
  Groups = {docker}
  GroupOf <- MCGroupOf
  Capacity <- MCCapacity
  NoGroup = NoGroup
  Workers = {w1, w2}
  Idle = Idle
  Gone = Gone
  Cancellable = TRUE
INVARIANTS
  GroupLimit
  CounterExact
  DrainedMeansRun
PROPERTIES
  EverythingSettles
CHECK_DEADLOCK FALSE
