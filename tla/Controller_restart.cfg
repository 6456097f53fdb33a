SPECIFICATION Spec
CONSTANTS
  a1 = a1  a2 = a2  a3 = a3
  m1 = m1  m2 = m2  m3 = m3
  i1 = i1  i2 = i2  i3 = i3
  Id = {a1, a2}
  IP = {i1, i2}
  MAC = {m1, m2, m3}
  HostMAC = HostMAC
  NoIP = NoIP
  NoMAC = NoMAC
  Absent = Absent
  ConfigMAC = {m1, m2}
  ManageInterfaces = TRUE
  DynamicInterfaces = TRUE
  AdminMAC = {}
  Renewals = FALSE
  LateLeases = TRUE
  EarlyRequests = TRUE
  IPChange = FALSE
  MaxBoots = 3
  MaxFaults = 1
  MaxEvents = 2
SYMMETRY Symmetry
INVARIANTS MACIsExclusive IPIsExclusive
CHECK_DEADLOCK FALSE
