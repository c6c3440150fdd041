SPECIFICATION Spec
CONSTANTS
  w1 = w1
  w2 = w2
  w3 = w3
  c1 = c1
  c2 = c2
  a1 = a1
  v1 = v1
  v2 = v2
  None = None
  Closure <- MCClosure
  Size <- MCSize
  PackRank <- MCPackRank
  Runners = {w1, w2}
  Writers = {w1, w2}
  CAS = {c1}
  Actions = {a1}
  Results = {v1, v2}
  TargetSize = 2
  MaxBlobSize = 20
  PackOverhead = 1
  MaxManifests = 3
  FailOpen = TRUE
  ManifestIDs = {1, 2, 3}
  MaxPuts = 1
  MaxRequests = 1
  MaxRunning = 1
  MaxFaults = 1
  FaultKinds = {"evictIdle"}
PROPERTIES
  PublishedClosureIsPersistent
CHECK_DEADLOCK FALSE
