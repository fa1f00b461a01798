SPECIFICATION TrackerSpec
CONSTANTS
  Procs = {p1, p2, p3}
  RamTotal = 5
  CpuTotal = 3
  Mem1MB = 2
  MemReq = {1, 2, 3}
  CpuReq = {1, 2}
INVARIANTS TokensFit NoLostWakeup
