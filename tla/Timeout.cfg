CONSTANTS
  Options <- MCOptions
  Masks <- MCMasks
  Fatals <- MCFatals
  UserSignals <- MCUserSignals
  MaxUser = 1
SPECIFICATION FairSpec
INVARIANTS
  SignalsOnlyItsChild
  LeavesNoChildBehind
PROPERTIES
  Ends
CHECK_DEADLOCK FALSE
