SPECIFICATION TextSpec
CONSTANTS
  Arguments <- MCArguments
  Inputs <- MCInputs
  Garbage = {0, 255}
  SfrobTexts <- MCSfrobTexts
  SfrobuTexts <- MCSfrobuTexts
  Modes = {"regular", "pipe"}
  CommandLines = {"none", "-f", "other"}
  Heap = {0, 32}
  Growths = {32, 72}
  MaxChanges = 1
  Runs = {r1, r2}
  Root = Root
  Here = Here
  Project = Project
  Closed = Closed
  Link = Link
  File = File
  Dash = Dash
  NoDir = NoDir
  NoFile = NoFile
  Operands <- MCOperands
  TargetOf <- MCTargetOf
  Listing <- MCListing
  Owned = {Project}
  Readable = {Here, Root}
  Enterable = {Here, Root, Project}
INVARIANTS
  PrintsWhatOneFilterLists
  PrintsOnlyPoorNames
  LeavesNoFile
  Translates
  PrintsTheWords
  OverrunsOnlyOf
PROPERTIES
  ImplementsSortedWords
  Stops
CHECK_DEADLOCK FALSE
