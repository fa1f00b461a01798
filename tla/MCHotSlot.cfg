SPECIFICATION FairSpec
CONSTANTS
  Calls = {c1, c2}
  None = None
INVARIANTS FailureStopsContainer SuccessIsComplete
PROPERTY SlotComesBack
CHECK_DEADLOCK FALSE
