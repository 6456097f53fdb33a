SPECIFICATION FairSpec
CONSTANTS
  IP = {i1, i2}
  NoIP = NoIP
  Absent = Absent
  MaxWrites = 3

PROPERTIES RequestEnds
CHECK_DEADLOCK FALSE
