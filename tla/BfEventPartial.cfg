SPECIFICATION Spec
CONSTANTS
  SndBuf = 2
  MaxMsg = 3
  MaxOut = 4
  MaxIn = 1
INVARIANT OutboundInOrder
