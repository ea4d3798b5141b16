CONSTANTS
  Fuel = 40
  StepLimit = 1000
  TemporaryMemorySlots = 8
  Programs <- AllPrograms
  Levels <- MCLevels
  Tapes <- AllTapes
  Modes <- MCModes
  Callbacks <- MCCallbacks
SPECIFICATION PipelineSpec
INVARIANTS
  SameExecution
  NeverInvalid
  NodesDoTheSame
PROPERTIES
  DeadStoresGone
  StoresReachTheirReads
CHECK_DEADLOCK FALSE
