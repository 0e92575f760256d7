SPECIFICATION Spec
CONSTANTS
  MaxNode = 2
  Links <- Arcs
  Bandwidth <- Wide
  Latency <- Slow
  PredMap <- Before
  YenPaths <- Yen
  RequestLists <- Lists
  LastSlot = 1
  Rounds = 4
  NoImLimit = 3
INVARIANTS
  TypeOK
  StatusConsistent
PROPERTIES
  EndsUnlessStuck
CHECK_DEADLOCK FALSE
