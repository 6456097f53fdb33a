SPECIFICATION FairSpec
CONSTANTS
  IP = {i1, i2}
  NoIP = NoIP
  Absent = Absent
  MaxWrites = 3
INVARIANTS TypeOK NoMissedAnswer
PROPERTIES AnsweredEnds
CHECK_DEADLOCK FALSE
