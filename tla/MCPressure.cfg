SPECIFICATION Spec
CONSTANTS
  NodeNum = 2
  SlotNum = 3
  Size <- SizeOfCode
  MemCap = 400
  cpuFreq = 3
  CommCostPara = 1
  Dist <- TwoNodes
  Workloads <- PressureWorkloads
  MaxTries = 1000
INVARIANTS
  TypeOK
  MemoryConserved
  FreqCoversContainers
  OwnContainer
  EvictionsPayOff
  CountersBalance
  RatesDefined
