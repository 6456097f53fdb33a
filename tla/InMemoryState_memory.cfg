SPECIFICATION FairSpec
CONSTANTS
  Thread = {t1, t2}
  w1 = w1
  w2 = w2
  a1 = a1
  Watcher = {w1, w2}
  Id = {a1}
  MAC = {m1}
  Watched <- Mixed
  None = None
  MaxCalls = 2
INVARIANTS TypeOK NoChangeIsMissed
PROPERTIES CallEnds IsShown
CHECK_DEADLOCK FALSE
