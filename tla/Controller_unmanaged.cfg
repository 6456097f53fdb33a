SPECIFICATION Spec
CONSTANTS
  a1 = a1  a2 = a2  a3 = a3
  m1 = m1  m2 = m2  m3 = m3
  i1 = i1  i2 = i2  i3 = i3
  Id = {a1, a2, a3}
  IP = {i1, i2}
  MAC = {m1, m2}
  HostMAC = HostMAC
  NoIP = NoIP
  NoMAC = NoMAC
  Absent = Absent
  ConfigMAC = {}
  ManageInterfaces = FALSE
  DynamicInterfaces = FALSE
  AdminMAC = {}
  Renewals = FALSE
  LateLeases = FALSE
  EarlyRequests = FALSE
  IPChange = FALSE
  MaxBoots = 1
  MaxFaults = 0
  MaxEvents = 2
SYMMETRY Symmetry
INVARIANTS IPIsExclusive BoundIsServed
PROPERTIES StopsOwnClient
CHECK_DEADLOCK FALSE
