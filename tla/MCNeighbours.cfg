SPECIFICATION Spec
CONSTANTS
  NodeNum = 3
  SlotNum = 2
  Size <- SizeOfCode
  MemCap = 400
  cpuFreq = 3
  CommCostPara = 1
  Dist <- CoLocated
  Workloads <- NeighbourWorkloads
  MaxTries = 1
PROPERTIES
  ColdOnlyWithoutWarm
  PoolSpec
  Termination
  ContainersDrain
