CONSTANTS
  NumCores = 3
  KeyRange = 2
  KeySpace = 6
  GoodSets <- FewGood
SPECIFICATION FairSpec
INVARIANTS TypeOK ReportedKeyIsGood NoKeySkipped ExhaustedMeansNone
  StopHasACause LitCoreHasFound
PROPERTIES ReportOnlyMovesDown GoodKeyIsReported
