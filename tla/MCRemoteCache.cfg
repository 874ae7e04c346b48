SPECIFICATION FairSpec
CONSTANTS
  m1 = m1
  m2 = m2
  c1 = c1
  c2 = c2
  c3 = c3
  blob = blob
  result = result
  Machines = {m1, m2}
  Clients = {c1, c2, c3}
  At <- MCAt
  Does <- MCDoes
  Writes <- MCWrites
  Blobs = {blob}
  Results = {result}
  Capacity = 1
  Backends = {"s3", "gcs", "azure"}
  MaxJobs = 1
  MaxCrashes = 1
INVARIANTS
  PublisherFindsBlobs
PROPERTIES
  JobsEnd
  ImplementsStore
CHECK_DEADLOCK FALSE
