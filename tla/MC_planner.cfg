\* Requests with a shared prefix are planned, looked up, run and stored.
SPECIFICATION FairSpec
CONSTANTS
  h1 = h1
  h2 = h2
  a = a
  b = b
  NoReq = NoReq
  Reqs = {a, b}
  Hashes = {h1, h2}
  Keys <- ChainKeys
  Order <- ShortFirst
  Window = 2
  JobSets <- SomeJobs
  OnDisk = {}
  OtherEngine = {h1, h2}
  MaxNoRoom = 1
  MaxResets = 1
  MaxFailures = 1
  MaxBlocks = 2
  Service <- ReadCost
  LoadMem <- CopyCost
  Recompute <- ComputeCost
  MaxPreloadSlots = 1
  Tolerance = 1
  MinGrace = 1
  MaxGrace = 2
  AbsenceLimit = 1
INVARIANTS
  ShadowQueueSound
  NeverDeferredLate
  FenceExact
PROPERTIES
  NeverRecomputesMidWrite
  AdmittedMeansHit
  EveryRequestRuns
CHECK_DEADLOCK FALSE
