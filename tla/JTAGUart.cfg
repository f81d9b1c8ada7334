SPECIFICATION Spec
CONSTANTS
  r = r  v = v  w = w  x = x  y = y
  Readers = {r}
  Writers = {v, w}
  Nonblocking = {v}
  NoTask = NoTask
  Chars = {x, y}
  Depth = 1
  Space = 2
  Strings <- MCStrings
  Timeouts = {2}
  Apps <- MCApps
INVARIANT NeverStalled
PROPERTIES ImplementsDevice CallsReturn
CHECK_DEADLOCK FALSE
