\* One arena, four threads racing to register: chunks of capacity 2 and 3.
CONSTANTS
  NULL = NULL
  Threads = {t1, t2, t3, t4}
  Arenas = {a1}
  Serials = {s1, s2, s3}
  PerThreadIds = 2
  HeaderBytes = 1
  EntryBytes = 1
  GrowthFactor = 3
  MaxChunkBytes = 4
  MaxBatches = 1
SPECIFICATION RaceSpec
INVARIANTS TypeOK OneEntryEach ChunkListSound
PROPERTIES EntriesStable CallsReturn
