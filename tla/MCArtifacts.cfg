SPECIFICATION MCSpec
CONSTANTS
  c1 = c1
  c2 = c2
  EntryNames = {"x", "y", "d", "e", "l"}
  Partial = Partial
  Outputs <- MCOutputs
  MaxEvents = 3
  MaxBuilds = 3
  Machines = {m1, m2}
  Commands = {p1, p2}
  TraceIds = {t1, t2}
  l1 = l1
  l2 = l2
  l3 = l3
  Completions <- MCCompletions
  Limit = 2
  MaxTime = 2
  MaxFaults = 1
  Callers = {a, b, c}
  Names = {n1, n2}
  Mutexes = {x1, x2, x3}
  NoOne = NoOne
SYMMETRY Symmetry
INVARIANTS
  RestoredIsWritten
  ReportsAgree
  OneHolder
PROPERTIES
  PruneKeepsItsWord
CHECK_DEADLOCK FALSE
