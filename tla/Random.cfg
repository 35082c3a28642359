SPECIFICATION MCSpec
CONSTANTS
  WordSize = 3
  BufferSize = 4
  Arguments = {0, 1, 2, 3, 4, 5, 6, 7, 8, 9, 10, 11, 12}
  NoNumber <- MinusOne
  Files <- MCFiles
  Missing <- MCMissing
  Ranges <- MCRanges
  BadRange <- MCBadRange
  Counts <- MCCounts
  BadCount = 99
  MaxChanges = 1
  MaxOutput = 5
INVARIANTS
  LeavesNothingOpen
  StuckOnlyOverDuplicates
  PrintsWhatWasAsked
PROPERTIES
  KeepsPromise
CHECK_DEADLOCK FALSE
