SPECIFICATION FairSpec
CONSTANTS
  Conns = {c1, c2}
  NoConn = NoConn
  Efd = Efd
  TNum = 2
  MaxSends = 1
INVARIANTS LiveUnlessClosedEarly AllReleased
PROPERTIES CallsEnd EofCloses
