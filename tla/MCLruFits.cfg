SPECIFICATION Spec
CONSTANTS
  NodeNum = 2
  SlotNum = 2
  Size <- SizeOfCode
  MemCap = 400
  cpuFreq = 3
  CommCostPara = 1
  Dist <- TwoNodes
  Workloads <- PressureWorkloads
  MaxTries = 1000
INVARIANT
  ResidentFits
