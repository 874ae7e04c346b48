SPECIFICATION Spec
CONSTANTS
  lib = lib
  gen = gen
  app = app
  test = test
  alias = alias
  pa = pa
  pb = pb
  pc1 = pc1
  pd = pd
  Unset = Unset
  Junk = Junk
  None = None
  Targets <- ChainTargets
  Deps <- AliasDeps
  Reads <- AliasReads
  Aliases = {alias}
  Actual <- AliasActual
  Path <- ChainPaths
  NoOutputs = {}
  NoCache = {}
  Sources = {v1, v2}
  Modes = {"all"}
  CacheOptions = {TRUE}
  AsyncOptions = {TRUE}
  TaintAnytime = FALSE
  Bound <- BoundEdits
INVARIANTS
  OutputsMatchSource
CHECK_DEADLOCK FALSE
