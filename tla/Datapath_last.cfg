\* The last core: its search ends at the last key of all.
CONSTANTS
  N = 4
  MessageLength = 2
  Letters = {1, 2}
  ByteXor <- BitXor
  Garbage = {1}
  NewDataOnWrite = TRUE
  KeyStart = 13
  KeyRange = 4
  LastKey = 15
  Messages <- AnyMessage
SPECIFICATION FairSpec
INVARIANTS TypeOK TableIsScheduled FoundMessageIsPlain NoWriteDropped
PROPERTIES ImplementsCoreSearch SearchEnds
