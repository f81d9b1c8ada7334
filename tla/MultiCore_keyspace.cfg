CONSTANTS
  NumCores = 2
  KeyRange = 2
  KeySpace = 16
  GoodSets <- OneGood
SPECIFICATION Spec
INVARIANT WholeKeyspaceSearched
