SPECIFICATION Spec
CONSTANTS
  Bytes = {a, b}
  Zero = zero
  Inputs <- ShortInputs
  BufSize = 2
  IOBuf = 2
  MaxSize = 5
INVARIANT InBounds
PROPERTY IsByteQueue
