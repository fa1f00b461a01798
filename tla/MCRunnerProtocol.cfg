SPECIFICATION FairSpec
CONSTANTS
  NAttempts = 2
  Frames = 2
  Chunks = 1
CONSTRAINT Settled
INVARIANTS RetryIsSafe CompleteAnswer
PROPERTIES ImplementsOneCall EngagementEnds
CHECK_DEADLOCK FALSE
