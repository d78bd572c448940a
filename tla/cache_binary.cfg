\* A binary file is asked for twice.
SPECIFICATION Spec
CONSTANTS
  Paths = {f1}
  BinaryPaths = {f1}
  Readers = {r1}
  MAX_CACHE_SIZE = 2
  AllocFaults = FALSE
  MaxVersion = 2
  MaxTime = 2
  NULL = NULL
  Freed = Freed
INVARIANTS
  ServedWhole
