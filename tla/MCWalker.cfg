SPECIFICATION FairSpec
CONSTANTS
  base = base
  left = left
  right = right
  top = top
  other = other
  Nodes <- DiamondNodes
  Edges <- DiamondEdges
  Selected <- DiamondSelected
INVARIANTS
  RunsAfterDeps
  NoLostStart
  KeepGoing
  NilMeansBuilt
PROPERTIES
  WalkReturns
  ImplementsRun
CHECK_DEADLOCK FALSE
