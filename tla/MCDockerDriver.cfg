SPECIFICATION FairSpec
CONSTANTS
  i1 = i1
  i2 = i2
  Images = {i1, i2}
  Size <- MCSize
  Exempt = {}
  MaxSize = 2
  HasVolume = {i2}
  Cookies = {c1, c2}
  PoolIds = {p1}
  Networks = {n1}
  MaxRetries = 1
  Confs = {{"pool"}, {"pool", "recycle"}, {"cache"}}
INVARIANTS HoldingsExact NoImageForgotten PoolExclusive
PROPERTY PullsEnd
CHECK_DEADLOCK FALSE
