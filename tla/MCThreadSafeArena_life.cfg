\* Two arenas constructed, reset and destroyed while two threads cache them.
CONSTANTS
  NULL = NULL
  Threads = {t1, t2}
  Arenas = {a1, a2}
  Serials = {s1, s2}
  PerThreadIds = 2
  HeaderBytes = 1
  EntryBytes = 1
  GrowthFactor = 2
  MaxChunkBytes = 4
  MaxBatches = 2
SYMMETRY Symmetry
SPECIFICATION Spec
INVARIANTS CacheCoherent SerialExclusive NoSerialLost
PROPERTY ImplementsRegistry
