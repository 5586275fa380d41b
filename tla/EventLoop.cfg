SPECIFICATION FairSpec
CONSTANTS
  Bevs = {b1}
  Tevs = {t1}
  Efd = efd
  Accs = {a1, a2}
  Acc = a1
  None = none
  Breakers = {u1}
  MaxIO = 1
  MaxNest = 1
  Timed = FALSE
INVARIANTS
  DispatchLive DeletedOnceUnlessReentered NoDanglingPointer NothingLeaked
PROPERTIES NoCallbackAfterClose LoopbreakStops PendingDeleted
