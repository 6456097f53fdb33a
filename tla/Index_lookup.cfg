SPECIFICATION FairSpec
CONSTANTS
  Id = {a1, a2}
  IP = {i1, i2}
  Request = {r1}
  NoIP = NoIP
  Absent = Absent
  MaxEvents = 2
  MaxFaults = 1
  MaxChanges = 1
INVARIANTS TypeOK NoStaleEntry
PROPERTIES FoundAgain
CHECK_DEADLOCK FALSE
