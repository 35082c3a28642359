CONSTANTS
  Options <- MCOptions
  Masks <- MCMasks
  Fatals <- MCFatals
  UserSignals <- OnlyTerm
  MaxUser = 1
SPECIFICATION Spec
INVARIANTS
  KillsNoEarlier
CHECK_DEADLOCK FALSE
