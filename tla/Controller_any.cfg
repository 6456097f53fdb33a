SPECIFICATION Spec
CONSTANTS
  a1 = a1  a2 = a2  a3 = a3
  m1 = m1  m2 = m2  m3 = m3
  i1 = i1  i2 = i2  i3 = i3
  Id = {a1, a2}
  IP = {i1, i2}
  MAC = {m1, m2}
  HostMAC = HostMAC
  NoIP = NoIP
  NoMAC = NoMAC
  Absent = Absent
  ConfigMAC = {m1}
  ManageInterfaces = TRUE
  DynamicInterfaces = TRUE
  AdminMAC = {}
  Renewals = TRUE
  LateLeases = TRUE
  EarlyRequests = TRUE
  IPChange = TRUE
  MaxBoots = 2
  MaxFaults = 1
  MaxEvents = 1
SYMMETRY Symmetry
INVARIANTS TypeOK NoLostClient MapIsExact NoSecondClient StoredIsComplete
PROPERTIES NeverUnbinds ImplementsAllocations MACIsLostOnlyInHand
CHECK_DEADLOCK FALSE
