\* Two announced loads and a store compete for two slots.  The staging cache
\* retains slots, pins and evicts them; short loads are declined by the
\* break-even gate and mappings may fail.
SPECIFICATION Spec
CONSTANTS
  h1 = h1
  h2 = h2
  h3 = h3
  h4 = h4
  r1 = r1
  r2 = r2
  NoSlot = NoSlot
  Junk = Junk
  Hashes = {h1, h2}
  Reqs = {r1, r2}
  Jobs <- RushJobs
  Preloads <- RushPre
  Slots = {s1, s2}
  JobKind <- RushKind
  JobReq <- RushReq
  JobHashes <- RushHashes
  PreReq <- RushPreReq
  PreHashes <- RushPreHashes
  OnDisk = {h2}
  IoDepth = 1
  OpenLookahead = 2
  CopyHeadroom = 1
  CacheOn = TRUE
  SsdMin = 2
  MemMin = 0
  MaxOwned = 3
  MaxKnownMissing = 1
  Faults = {"map"}
SYMMETRY SlotSymmetry
INVARIANTS
  WaitersServed
  OneSourcePerHash
  DemandCoversOwners
  InflightExact
  SlotsPartition
  CopiesReadTheirBlock
CHECK_DEADLOCK FALSE
