SPECIFICATION StatusSpec
CONSTANTS
  Reqs = {r1, r2, r3}
  CacheDuration = 1
  MaxTime = 3
  MaxRuns = 3
INVARIANT FreshAnswer
PROPERTY StatusAnswered
CHECK_DEADLOCK FALSE
