\* A ring of two entries that has not wrapped carries five operations.
SPECIFICATION FairSpec
CONSTANTS
  Word = 64
  Entries = 2
  CqEntries = 2
  Start = 0
  Ops = {o1, o2, o3, o4, o5}
  Empty = Empty
INVARIANTS
  NothingLostOrTwice
PROPERTIES
  EveryOpReaped
CHECK_DEADLOCK FALSE
