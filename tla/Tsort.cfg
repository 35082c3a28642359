SPECIFICATION TreeSpec
CONSTANTS
  Item <- MCItem
  Inputs <- MCInputs
INVARIANTS
  EndsWithAll
  TreeInOrder
PROPERTIES
  ImplementsTotalOrder
  Terminates
CHECK_DEADLOCK FALSE
