CONSTANTS
  Words = 4
  NoWord = NoWord
  MinGap = 8
  MaxLatency = 3
SPECIFICATION FairSpec
INVARIANT TypeOK
PROPERTIES ImplementsPlayer HalvesOfOneWord SongGoesOn
