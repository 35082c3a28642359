SPECIFICATION MCSpec
CONSTANTS
  Hash = {1, 2, 3}
  Foreign = 9
  Branch = {1, 2}
  DirOf <- MCDirOf
  Repositories <- MCRepositories
  Contents <- MCContents
  MaxGitSteps = 6
  FewGitSteps = 2
  MaxDepth = 3
  Kinds = {"none", "directory", "file"}
INVARIANTS
  TableCoversHeads
  ErrorsHaveCauses
  FindsInnermost
  DiesOnlyOf
  BranchesPrinted
PROPERTIES
  Ends
CHECK_DEADLOCK FALSE
