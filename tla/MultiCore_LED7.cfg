CONSTANTS
  NumCores = 2
  KeyRange = 2
  KeySpace = 4
  GoodSets <- FewGood
SPECIFICATION FairSpec
PROPERTY ExhaustionLightsLED7
