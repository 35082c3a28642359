SPECIFICATION TextSpec
CONSTANTS
  Arguments = {}
  Inputs = {}
  Garbage = {}
  SfrobTexts = {}
  SfrobuTexts = {}
  Modes = {}
  CommandLines = {}
  Heap = {}
  Growths = {}
  MaxChanges = 0
  Runs = {r1}
  Root = Root
  Here = Here
  Project = Project
  Closed = Closed
  Link = Link
  File = File
  Dash = Dash
  NoDir = NoDir
  NoFile = NoFile
  Operands <- OnlyProject
  TargetOf <- MCTargetOf
  Listing <- MCListing
  Owned = {Project}
  Readable = {Here, Root}
  Enterable = {Here, Root, Project}
INVARIANTS
  PrintsThePoorNames
CHECK_DEADLOCK FALSE
