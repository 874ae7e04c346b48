SPECIFICATION FairSpec
CONSTANTS
  base = base
  app = app
  s1 = s1
  s2 = s2
  chunk = chunk
  rest = rest
  None = None
  Pushes = {base, app}
  Sessions = {s1}
  Layer <- MCLayer
  Options <- MCOptions
INVARIANTS
  WriterHasOwner
  RecordedImagesComplete
  PushedUnlessReported
PROPERTIES
  CloseReturns
CHECK_DEADLOCK FALSE
