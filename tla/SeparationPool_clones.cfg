\* Two clones ticking and going away concurrently on one pool, panics anywhere.
CONSTANTS
  w1 = w1
  w2 = w2
  c1 = c1
  c2 = c2
  Workers = {w1, w2}
  Callers = {c1, c2}
  Nobody = Nobody
  MaxTicks = 3
SPECIFICATION FairSpec
INVARIANTS TypeOK CellExclusive ChunkInsideItsTick AllReported LoneTicksAreToldTheTruth
PROPERTIES RunReturns DropReturns
CHECK_DEADLOCK FALSE
