SPECIFICATION Spec
CONSTANTS
  NodeNum = 1
  SlotNum = 1
  Size <- SizeOfCode
  MemCap = 400
  cpuFreq = 3
  CommCostPara = 1
  Dist <- OneNode
  Workloads <- NoWorkloads
  Bases <- SomeBases
INVARIANTS
  DrawnIsDrawable
  DrawableIsDrawn
PROPERTIES
  AlwaysDraws
