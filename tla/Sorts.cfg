CONSTANTS
  Entities <- MCEntities
  Comparators <- MCComparators
  Keys = {1, 2, 3}
  Capacity = 7
  Log = 3
SPECIFICATION SortsSpec
INVARIANTS
  SortedStably
  StackFits
  NothingLost
  SortedBothWays
PROPERTIES
  OnlyListWritten
  BothReturn
CHECK_DEADLOCK FALSE
