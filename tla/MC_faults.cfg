\* Every call may fail and the thread may die: the books still balance and
\* the reactor still implements BlockTransfer.
SPECIFICATION Spec
CONSTANTS
  h1 = h1
  h2 = h2
  h3 = h3
  h4 = h4
  r1 = r1
  r2 = r2
  NoSlot = NoSlot
  Junk = Junk
  Hashes = {h1, h2}
  Reqs = {r1, r2}
  Jobs <- MixJobs
  Preloads <- MixPre
  Slots = {s1, s2, s3}
  JobKind <- MixKind
  JobReq <- MixReq
  JobHashes <- MixHashes
  PreReq <- MixPreReq
  PreHashes <- MixPreHashes
  OnDisk = {h2}
  IoDepth = 1
  OpenLookahead = 2
  CopyHeadroom = 2
  CacheOn = FALSE
  SsdMin = 0
  MemMin = 0
  MaxOwned = 1
  MaxKnownMissing = 1
  Faults = {"open", "read", "write", "submit", "map", "launch", "crash"}
SYMMETRY SlotSymmetry
INVARIANTS
  TypeOK
  CopyCountsExact
  BudgetsExact
  FilesPartition
  Provenance
  OkMeansPublished
  DeadAnswersAll
PROPERTIES
  ImplementsTransfer
CHECK_DEADLOCK FALSE
