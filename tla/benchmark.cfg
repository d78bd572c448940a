\* Two calls of run_benchmark.
SPECIFICATION FairSpec
CONSTANTS
  Runs <- TwoRuns
  MaxReads = 1
INVARIANTS
  TypeOK
  TotalsAddUp
PROPERTIES
  BenchmarkEnds
\* The benchmark ends.
CHECK_DEADLOCK FALSE
