SPECIFICATION FairSpec
CONSTANTS
  build = build
  test = test
  run = run
  nested = nested
  clean = clean
  w1 = w1
  w2 = w2
  Builders = {build, test, run, nested}
  Cleaners = {clean}
  Workspaces = {w1, w2}
  Home <- MCHome
  Caller <- MCCaller
  None = None
INVARIANTS
  NothingLeftBehind
PROPERTIES
  SettledLockStays
  WaitingEnds
CHECK_DEADLOCK FALSE
