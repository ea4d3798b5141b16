CONSTANTS
  Elements <- MCElements
  Key <- MCKey
  Capacity = 3
  Junk = Junk
  Keys = {"a", "b", "c", "d"}
  Values = {"x", "y"}
SPECIFICATION ContainerSpec
PROPERTIES
  ArrayImplementsSequence
  ImplementsMap
  ImplementsSet
