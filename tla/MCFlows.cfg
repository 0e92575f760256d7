SPECIFICATION Spec
CONSTANTS
  SfcNum = 2
  MaxNode = 2
  ChainLen = 1
  FlowNum = 2
  MaxRate = 150
  MinRate = 10
  MaxTime = 1
  Rand <- Thirds
  TrafficFiles <- Sizes
  SlotNumFiles <- SlotNums
  EndTime = 3
  FlowLife = 2
  InstanceThreshold = 150
  Vnfs <- Functions
  OldFiles <- Leftovers
  OtherFiles <- Pairs
  RequestNum = 2
  TotalNum = 3
  GmlFile <- Gml
  ConfigFiles <- Configs
  YenPaths <- Between
  LastSlot = 3
INVARIANTS
  TypeOK
  RequestsAsWritten
  BooksBalance
  UseTracksFlows
  InstancesServe
CHECK_DEADLOCK FALSE
