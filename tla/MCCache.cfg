SPECIFICATION EitherSpec
CONSTANTS
  p1 = p1
  p2 = p2
  j1 = j1
  j2 = j2
  j3 = j3
  Procs <- MCProcs
  Jobs <- MCJobs
  ProcOf <- MCProcOf
  MayClear = FALSE
INVARIANTS ReadyRunnable NamesKept Drained DrainedThoughCleared
PROPERTIES RefinesAtomicCache CompiledIsPublished
