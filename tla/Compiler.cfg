CONSTANTS
  NoOne = NoOne
  Modes <- MCModes
  SchemaModes <- MCSchemaModes
  Callers = {"c1", "c2", "c3"}
  Requests <- MCRequests
  MaxVersion = 3
  Unloadable <- MCUnloadable
  Untypable <- MCUntypable
  Uncompilable <- MCUncompilable
  Shared <- MCShared
SPECIFICATION FairSpec
CHECK_DEADLOCK FALSE
INVARIANTS
  ResultIsPackages
  AnswersAgree
  ResultShares
PROPERTIES
  FailureAtomic
  CallsReturn
