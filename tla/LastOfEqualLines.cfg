CONSTANTS
  NLines = 4
  NThreads = 2
  Heuristic = 4
  MaxMerge <- MCMaxMerge
  Cases <- MCEqualLines
  Keys = {1}
  MaxLines = 2
SPECIFICATION Spec
INVARIANTS
  OnlyTheLastOfEqualLines
CHECK_DEADLOCK FALSE
