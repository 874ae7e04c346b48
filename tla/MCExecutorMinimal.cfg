SPECIFICATION FairSpec
CONSTANTS
  lib = lib
  gen = gen
  app = app
  test = test
  alias = alias
  pa = pa
  pb = pb
  pc1 = pc1
  pd = pd
  Unset = Unset
  Junk = Junk
  None = None
  Targets <- DiamondTargets
  Deps <- DiamondDeps
  Reads <- DiamondDeps
  Aliases = {}
  Actual <- NoAlias
  Path <- DiamondPaths
  NoOutputs = {}
  NoCache = {app, test}
  Sources = {v1}
  Modes = {"minimal"}
  CacheOptions = {TRUE}
  AsyncOptions = {TRUE}
  TaintAnytime = FALSE
  Bound <- BoundDiamond
INVARIANTS
  RunsOnce
PROPERTIES
  BuildEnds
CHECK_DEADLOCK FALSE
