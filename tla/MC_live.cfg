\* With a thread that keeps running and devices that keep completing, parked
\* preloads are woken and shutdown ends; every job is answered unless a parked
\* load waits behind a descriptor without a slot, which happens here.
SPECIFICATION FairSpec
CONSTANTS
  h1 = h1
  h2 = h2
  h3 = h3
  h4 = h4
  r1 = r1
  r2 = r2
  NoSlot = NoSlot
  Junk = Junk
  Hashes = {h1, h2, h3, h4}
  Reqs = {r1, r2}
  Jobs <- QueueJobs
  Preloads = {"pa"}
  Slots = {s1, s2}
  JobKind <- QueueKind
  JobReq <- QueueReq
  JobHashes <- QueueHashes
  PreReq <- QueuePreReq
  PreHashes <- QueuePreHashes
  OnDisk = {h2, h3, h4}
  IoDepth = 1
  OpenLookahead = 2
  CopyHeadroom = 1
  CacheOn = FALSE
  SsdMin = 0
  MemMin = 0
  MaxOwned = 4
  MaxKnownMissing = 1
  Faults = {}
INVARIANTS
  BlockedHasWriter
PROPERTIES
  ParkedPreloadsWake
  EveryJobResolves
  ShutdownCompletes
CHECK_DEADLOCK FALSE
