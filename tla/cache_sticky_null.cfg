\* A malloc fails once.
SPECIFICATION Spec
CONSTANTS
  Paths = {f1}
  BinaryPaths = {}
  Readers = {r1}
  MAX_CACHE_SIZE = 2
  AllocFaults = TRUE
  MaxVersion = 2
  MaxTime = 2
  NULL = NULL
  Freed = Freed
INVARIANTS
  AvailableFileServed
