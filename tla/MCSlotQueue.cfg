SPECIFICATION FairSpec
CONSTANTS
  Ctrs = {k1, k2}
  Callers = {c1, c2}
  MaxTokens = 2
  NoOne = NoOne
PROPERTIES ImplementsHandout SlotReachesCall
CHECK_DEADLOCK FALSE
