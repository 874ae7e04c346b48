CONSTANTS
  w1 = w1
  w2 = w2
  None = None
  Workers <- MCWorkers
  Inputs <- MCInputs
  TestNames <- MCTestNames
  Host <- MCHost
SPECIFICATION Spec
SYMMETRY WorkerSymmetry
CHECK_DEADLOCK FALSE
INVARIANTS
  LoadedAll
  SearchIsSound
  AcceptedIsSound
  SelectionClosed
  ChangesCover
