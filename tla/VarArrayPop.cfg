CONSTANTS
  Elements <- MCElements
  Key <- MCKey
  Capacity = 3
  Junk = Junk
  Keys = {"a"}
  Values = {"x"}
SPECIFICATION ArrayPopSpec
PROPERTIES
  PopReturnsRemoved
