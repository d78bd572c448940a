\* One thread, as without a pool; two files, one of them binary, for two slots:
\* the entries of overwritten files fill them. malloc may fail.
SPECIFICATION Spec
CONSTANTS
  Paths = {f1, f2}
  BinaryPaths = {f2}
  Readers = {r1}
  MAX_CACHE_SIZE = 2
  AllocFaults = TRUE
  MaxVersion = 2
  MaxTime = 2
  NULL = NULL
  Freed = Freed
INVARIANTS
  TypeOK
  ServesOwnFile
  NoDanglingAccess
  StaleOnlyInWindow
  EvictsOldest
