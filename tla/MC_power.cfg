\* With sync_on_store the machine may lose power at any time, and every
\* call of a store may fail between its open and its answer.  Opening does
\* not fail: _fsync_dir swallows an error of its own open, and answers.
SPECIFICATION Spec
CONSTANTS
  h1 = h1
  h2 = h2
  p1 = p1
  p2 = p2
  a = a
  b = b
  c = c
  x = x
  NoFile = NoFile
  NoFd = NoFd
  NoAnswer = NoAnswer
  Error = Error
  Torn = Torn
  Empty = Empty
  Procs = {p1, p2}
  Hashes = {h1, h2}
  Fds = {f1, f2}
  Stores <- TwinStores
  Loads <- TwinLoads
  StoreProc <- TwinStoreProc
  StoreHash <- TwinStoreHash
  LoadProc <- TwinLoadProc
  LoadHash <- TwinLoadHash
  OnDisk = {}
  OldDirs = {h1, h2}
  SyncOnStore = TRUE
  Faults = {"write", "fsync", "close", "link", "unlink", "dirsync", "power"}
SYMMETRY FdSymmetry
INVARIANTS
  NoTempLeft
  PublishedComplete
  AnsweredBlocksSurvive
CHECK_DEADLOCK FALSE
