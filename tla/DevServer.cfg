CONSTANTS
  Dirs <- MCDirs
  Root = "engine"
  MaxVersion = 2
  Replaceable = {"library"}
  QueueSize = 2
  Sources <- MCSources
  LevelDirs <- MCLevelDirs
  Bad <- MCBad
  Misfit <- MCMisfit
  Clients = {c1, c2}
  Nothing = Nothing
SPECIFICATION FairSpec
CHECK_DEADLOCK FALSE
INVARIANTS
  ServedIsComplete
  SnapshotWatched
  EditsNoticed
PROPERTIES
  ComesToRest
  RequestsAnswered
