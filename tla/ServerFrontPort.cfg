SPECIFICATION Spec
CONSTANTS
  k1 = k1
  k2 = k2
  s1 = s1
  s2 = s2
  u1 = u1
  t1 = t1
  Acc = Acc
  None = None
  Socks <- const_Socks
  Sigs <- const_Sigs
  Udps <- const_Udps
  Tims <- const_Tims
  Signos <- const_Signos
  Timeouts <- const_Timeouts
  CtorPort = TRUE
  PipeCap = 2
  ReadMax = 1
  QueueCap = 2
  MaxEnv = 2
  MaxOps = 1
INVARIANTS
  NoClientStranded
