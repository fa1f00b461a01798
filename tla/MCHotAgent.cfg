SPECIFICATION FairSpec
CONSTANTS
  c1 = c1
  c2 = c2
  qa = qa
  qb = qb
  Calls = {c1, c2}
  Keys = {qa, qb}
  Ctrs = {k1, k2}
  Capacity = 1
  Confs <- TheConfs
  None = None
INVARIANTS NothingAfterClose ExecHoldsContainer
PROPERTIES CallsAnswered CloseCompletes
CHECK_DEADLOCK FALSE
