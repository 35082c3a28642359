SPECIFICATION MCSpec
CONSTANTS
  Arguments <- MCOnePair
  Inputs <- MCShortInputs
  Garbage = {0}
  SfrobTexts = {}
  SfrobuTexts = {}
  Modes = {}
  CommandLines = {}
  Heap = {}
  Growths = {}
  MaxChanges = 0
INVARIANTS
  TranslatesEachCharacter
CHECK_DEADLOCK FALSE
