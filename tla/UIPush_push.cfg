SPECIFICATION FairSpec
CONSTANTS
  MaxChanges = 2
  MaxFaults = 1
INVARIANTS TypeOK NoChangeIsMissed
PROPERTIES IsShown HandlerReturns
CHECK_DEADLOCK FALSE
