SPECIFICATION Spec
CONSTANTS
  lib = lib
  gen = gen
  app = app
  test = test
  alias = alias
  pa = pa
  pb = pb
  pc1 = pc1
  pd = pd
  Unset = Unset
  Junk = Junk
  None = None
  Targets <- ChainTargets
  Deps <- ChainDeps
  Reads <- ChainDeps
  Aliases = {}
  Actual <- NoAlias
  Path <- ChainPaths
  NoOutputs = {lib}
  NoCache = {}
  Sources = {v1, v2}
  Modes = {"minimal", "all"}
  CacheOptions = {TRUE}
  AsyncOptions = {TRUE, FALSE}
  TaintAnytime = FALSE
  Bound <- BoundAll
INVARIANTS
  OutputsMatchSource
  InputsReady
  TaintHonoured
  WarmBuildRunsNothing
PROPERTIES
  BlobBeforeResult
CHECK_DEADLOCK FALSE
