CONSTANTS
  NFiles = 7
  Givens <- MCGivens
  Merging = {TRUE, FALSE}
  NMerges = {2, 3, 4}
  Half = 8
  Nanos = 8
  Seconds <- MCSeconds
  FileNames = {0, 1}
SPECIFICATION MCSpec
INVARIANTS
  LeavesNoTemporaryFile
  KeepsEverythingInOrder
  SortsByTime
  SortedNearTimes
PROPERTIES
  SortEnds
CHECK_DEADLOCK FALSE
