SPECIFICATION Spec
CONSTANTS
  Power <- EqualWeights
  NodeNum = 3
  NumTypes = 2
  SlotNum = 3
  SortedFiles <- Files
  ConfigFiles <- Configs
  ReduFactor = 2
  MaxRuns = 2
  Byte = 8
  TagSize = 20
  SlotTicks = 3
  PacketTicks = 1
  SendBuffer = 1
  Hosts <- SomeHosts
INVARIANTS
  TypeOK
  RowsAreDraws
  DemandLoaded
  AddressedToHost
  SilentOnlyWhen
  NeverMistaken
PROPERTY
  Termination
CHECK_DEADLOCK FALSE
