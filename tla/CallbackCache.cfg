CONSTANTS
  s1 = s1
  s2 = s2
  s3 = s3
  NoBody = NoBody
  Unplaced = Unplaced
  NoCell = NoCell
  NoSession = NoSession
  Bodies <- MCBodies
  Fails = {"bad"}
  Encodable = {"a", "b", "c", "d", "big", "bad"}
  Levels <- MCLevels
  LevelStandard = 3
  Layouts <- MCLayouts
  MaxJobs = 3
  MaxWorkers = 2
  MaxEntries = 2
  MaxBytes = 6
  Size <- MCSize
  Hash <- MCHash
  Sessions <- ThreeSessions
  Workloads <- MCWorkloads
SPECIFICATION FairSpec
CHECK_DEADLOCK FALSE
INVARIANTS
  EntriesPristine
  GenerationExact
  WarmHits
PROPERTIES
  CacheInvisible
  SessionsEnd
