SPECIFICATION FairSpec
CONSTANTS
  SndBuf = 2
  MaxMsg = 3
  MaxOut = 5
  MaxIn = 2
INVARIANTS InboundInOrder NothingUnread NoStall
PROPERTY OutbuffDrains
