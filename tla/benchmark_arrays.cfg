\* Two calls of run_benchmark.
SPECIFICATION Spec
CONSTANTS
  Runs <- TwoRuns
  MaxReads = 1
INVARIANTS
  StatsStayAlive
\* The benchmark ends.
CHECK_DEADLOCK FALSE
