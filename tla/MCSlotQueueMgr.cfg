SPECIFICATION MgrFairSpec
CONSTANTS
  Requests = {r1, r2}
  Containers = {k1, k2}
  MaxQueues = 2
INVARIANTS IdleIsSound LauncherOfMapped
PROPERTY QuietQueueReaped
CHECK_DEADLOCK FALSE
