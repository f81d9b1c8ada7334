\* A middle core on the memory of the test benches.
CONSTANTS
  N = 4
  MessageLength = 3
  Letters = {1, 2}
  ByteXor <- BitXor
  Garbage = {3}
  NewDataOnWrite = FALSE
  KeyStart = 4
  KeyRange = 2
  LastKey = 15
  Messages <- AnyMessage
SPECIFICATION Spec
PROPERTY ImplementsCoreSearch
