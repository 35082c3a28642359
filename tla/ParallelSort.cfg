CONSTANTS
  NLines = 7
  NThreads = 3
  Heuristic = 4
  MaxMerge <- MCMaxMerge
  Cases <- MCCases
  Keys = {1, 2, 3}
  MaxLines = 6
SPECIFICATION FairSpec
INVARIANTS
  QueuedOnce
  SortsInOwnSpace
  SequentialSortSorts
PROPERTIES
  ImplementsStableSort
  Finishes
CHECK_DEADLOCK FALSE
