\* A ring whose indices wrap after two operations: none of its arrays is ever full.
SPECIFICATION Spec
CONSTANTS
  Word = 64
  Entries = 4
  CqEntries = 4
  Start = 62
  Ops = {o1, o2, o3}
  Empty = Empty
INVARIANTS
  NothingLostOrTwice
CHECK_DEADLOCK FALSE
