SPECIFICATION Spec
CONSTANTS
  build = build
  test = test
  run = run
  nested = nested
  clean = clean
  w1 = w1
  w2 = w2
  Builders = {build, run}
  Cleaners = {}
  Workspaces = {w1, w2}
  Home <- MCHome
  Caller <- MCCaller
  None = None
INVARIANTS
  MutualExclusion
CHECK_DEADLOCK FALSE
