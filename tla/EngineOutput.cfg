CONSTANTS
  w1 = w1
  w2 = w2
  Earlier = Earlier
  Absent = Absent
  Writers <- TwoWriters
  Engines = 2
  Files <- MCFiles
  PackageOf <- MCPackageOf
  OldFiles <- MCOldFiles
  MaxFaults = 1
SPECIFICATION Spec
CHECK_DEADLOCK FALSE
INVARIANTS
  NoPartialOutput
  NoLitter
  NothingBeforeAllCompile
PROPERTIES
  OutputRecoverable
