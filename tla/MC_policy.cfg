\* Five hashes compete for a cache of at most two slots, two copies read it.
SPECIFICATION Spec
CONSTANTS
  Hashes = {h1, h2, h3, h4, h5}
  Slots = {s1, s2, s3}
  Copies = {c1, c2}
  NoSlot = NoSlot
  Idle = Idle
  Orphan = Orphan
  Capacities = {0, 1, 2}
SYMMETRY Interchangeable
INVARIANTS
  EntriesExact
  PolicyOrder
PROPERTIES
  ImplementsRetention
CHECK_DEADLOCK FALSE
