SPECIFICATION Spec
CONSTANTS
  Starters = {"s1", "s2"}
  MaxPings = 2
  Confs <- TheConfs
  Clients = {c1, c2}
  AppIds = {"a1", "a2"}
  FnIds = {"f1", "f2"}
  TriggerIds = {"t1", "t2"}
  Names = {1, 2}
  Sources = {"x", "y"}
  Keys = {"k1", "k2"}
  Memories = {0, 2}
  MaxMemory = 1
  DefaultMemory = 1
  PerPage = 1
  FirstApps <- TheApps
  FirstFns <- TheFns
  FirstTriggers <- TheTriggers
INVARIANTS SchemaMatchesVersion TablesConsistent PatchesSurvive PagesCover
PROPERTY Answered
