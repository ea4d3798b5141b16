CONSTANTS
  Fuel = 40
  StepLimit = 1000
  TemporaryMemorySlots = 8
  Programs <- IndexedCondition
  Levels <- StandardLevel
  Tapes <- FewTapes
  Modes <- OneMode
  Callbacks <- MCCallbacks
SPECIFICATION PipelineSpec
INVARIANT SameExecution
CHECK_DEADLOCK FALSE
