SPECIFICATION Spec
CONSTANTS
  Controller = {c1, c2}
  Request = {r1}
  Id = {a1, a2}
  m1 = m1
  m2 = m2
  MAC = {m1, m2}
  Parsable = {m1, m2}
  ConfigMAC <- Config
  Body <- Lists
  NoMAC = NoMAC
  Malformed = Malformed
  Absent = Absent
  MaxEvents = 1
PROPERTIES OmittedAreReported
CHECK_DEADLOCK FALSE
