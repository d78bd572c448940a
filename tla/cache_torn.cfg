\* Two threads of the pool and a cache of one slot.
SPECIFICATION Spec
CONSTANTS
  Paths = {f1, f2}
  BinaryPaths = {}
  Readers = {r1, r2}
  MAX_CACHE_SIZE = 1
  AllocFaults = FALSE
  MaxVersion = 1
  MaxTime = 0
  NULL = NULL
  Freed = Freed
INVARIANTS
  ServesOwnFile
