SPECIFICATION Spec
CONSTANTS
  f1 = f1
  f2 = f2
  Idle = Idle
  Fds <- const_Fds
  StreamLen = 2
  Newlines <- const_Newlines
  BufSize = 2
  Sizes <- const_Sizes
  MaxCalls = 2
  MaxIntr = 1
INVARIANTS
  ReadExact
  WrittenInOrder
  LineShape
  LineBytes
PROPERTY
  CallsReturn
