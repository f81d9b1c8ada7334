CONSTANTS
  N = 4
  MessageLength = 2
  Letters = {1, 2}
  ByteXor <- BitXor
  Garbage = {0}
  NewDataOnWrite = TRUE
  Tables <- Permutations
  Messages <- AnyMessage
SPECIFICATION FairSpec
INVARIANT EngineTypeOK
PROPERTIES ImplementsMessageDecrypt PassEnds
