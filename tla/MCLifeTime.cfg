SPECIFICATION Spec
CONSTANTS
  NodeNum = 2
  SlotNum = 4
  Size <- SizeOfCode
  MemCap = 400
  cpuFreq = 3
  CommCostPara = 1
  Dist <- TwoNodes
  Workloads <- TurnWorkloads
  LifeTime = 3
  MaxTries = 2
INVARIANTS
  TypeOK
  MemNeverNegative
  OwnContainer
  FromColdStart
PROPERTIES
  BooksBalance
  Termination
