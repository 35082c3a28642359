SPECIFICATION Spec
CONSTANTS
  Commit = {1, 2, 3, 4}
  MaxParents = 2
  MaxHeads = 2
  Spare = 4
  Histories <- MCHistories
  HeadLists <- MCHeadLists
INVARIANTS
  IndInv
  HeadsEmitted
  StickyLinesPaired
  CrashesExactlyIfDoomed
PROPERTIES
  RefinesTopoSort
CHECK_DEADLOCK FALSE
