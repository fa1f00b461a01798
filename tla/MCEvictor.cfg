SPECIFICATION FairSpec
CONSTANTS
  ka = ka
  kb = kb
  kz = kz
  qa = qa
  qb = qb
  Ctrs = {ka, kb, kz}
  SlotOf <- MCSlotOf
  Mem <- MCMem
  Cpu <- MCCpu
  Starved = {s1, s2}
  Needs <- MCNeeds
  MaxTokens = 4
INVARIANTS ClosesOnce EvictsEnough
PROPERTY EvictionCompletes
CHECK_DEADLOCK FALSE
