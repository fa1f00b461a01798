SPECIFICATION LBFairSpec
CONSTANTS
  c1 = c1
  c2 = c2
  r1 = r1
  r2 = r2
  Workers = {c1, c2}
  Detached = {c2}
  Bodyless = {c2}
  Closers = {lb}
  MaxUint64 = 3
  Bufs = {b1, b2}
  RunnerSeq <- MCRunnerSeq
INVARIANTS ClosedMeansIdle BusyWasNotRun BodyIntact
PROPERTY CloseEnds
CHECK_DEADLOCK FALSE
