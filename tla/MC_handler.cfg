\* A store and a load of the same blocks, files fail, preloads are repeated.
SPECIFICATION Spec
CONSTANTS
  h1 = h1
  h2 = h2
  s = s
  l = l
  Junk = Junk
  Factor = 2
  Hashes = {h1, h2}
  Jobs <- TwoJobs
  JobKind <- TwoKind
  JobHashes <- TwoHashes
  JobBlocks <- TwoBlocks
  FirstBlock <- TwoFirst
  OnDisk = {h1}
  GpuBlocks = {1, 2, 3, 4, 5}
  Preloads = {p1, p2, p3}
  MaxPreloadIds = 2
  MaxMentions = 5
  FreeOnFailure = FALSE
INVARIANTS
  PublishedRight
  LoadedRight
  
CHECK_DEADLOCK FALSE
