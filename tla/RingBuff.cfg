SPECIFICATION FairSpec
CONSTANTS
  Producers = {p1}
  Values = {a, b}
  Hole = hole
  Cap = 4
  MaxSent = 5
INVARIANT InOrder
PROPERTIES IsQueue Delivered
