\* Processes race to publish a block, writes fail and processes die.
SPECIFICATION Spec
CONSTANTS
  h1 = h1
  h2 = h2
  p1 = p1
  p2 = p2
  a = a
  b = b
  c = c
  x = x
  NoFile = NoFile
  NoFd = NoFd
  NoAnswer = NoAnswer
  Error = Error
  Torn = Torn
  Empty = Empty
  Procs = {p1, p2}
  Hashes = {h1, h2}
  Fds = {f1, f2}
  Stores <- RaceStores
  Loads <- RaceLoads
  StoreProc <- RaceStoreProc
  StoreHash <- RaceStoreHash
  LoadProc <- RaceLoadProc
  LoadHash <- RaceLoadHash
  OnDisk = {h2}
  OldDirs = {h2}
  SyncOnStore = FALSE
  Faults = {"open", "read", "write", "crash"}
SYMMETRY FdSymmetry
INVARIANTS
  LoadsGetTheirBlock
  TypeOK
  DescriptorsOwned
PROPERTIES
  NamesImmutable
  ImplementsHashStore
CHECK_DEADLOCK FALSE
