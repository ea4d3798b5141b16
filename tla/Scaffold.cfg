SPECIFICATION Spec
CONSTANTS
  c1 = c1
  c2 = c2
  Commands = {c1, c2}
  ModuleFiles <- MCModuleFiles
  EngineFiles <- MCEngineFiles
  MaxFaults = 2
  MaxEdits = 2
SYMMETRY Symmetric
CHECK_DEADLOCK FALSE
INVARIANTS
  AllOrNothing
  NewDirectoryWhole
PROPERTIES
  NothingOverwritten
