CONSTANTS
  Words = 3
  NoWord = NoWord
  MinGap = 6
  MaxLatency = 1
SPECIFICATION Spec
PROPERTY FirstSampleFirst
