CONSTANTS
  PackagePrograms <- MCPrograms
  Objects <- MCObjects
  Nodes <- MCNodes
  PackageValues = {0, 2}
  Declarations <- MCDeclarations
  SlotValues = {1, 2}
  StreamKeys = {0, 2, 4}
  Times <- MCTimes
  LowLevelCalls <- MCCalls
  MaxId = 3
SPECIFICATION StorageSpec
VIEW Unanswered
INVARIANTS
  ReadsBack
  VisitsDue
PROPERTIES
  KeepsObjects
CHECK_DEADLOCK FALSE
