CONSTANTS
  Fuel = 200
  Checks = {"none", "notify"}
SPECIFICATION
  Spec
INVARIANTS
  Meant
CHECK_DEADLOCK FALSE
