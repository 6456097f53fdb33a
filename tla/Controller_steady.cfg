SPECIFICATION Spec
CONSTANTS
  a1 = a1  a2 = a2  a3 = a3
  m1 = m1  m2 = m2  m3 = m3
  i1 = i1  i2 = i2  i3 = i3
  Id = {a1, a2, a3}
  IP = {i1, i2, i3}
  MAC = {m1, m2, m3}
  HostMAC = HostMAC
  NoIP = NoIP
  NoMAC = NoMAC
  Absent = Absent
  ConfigMAC = {m1}
  ManageInterfaces = TRUE
  DynamicInterfaces = TRUE
  AdminMAC = {m2}
  Renewals = FALSE
  LateLeases = FALSE
  EarlyRequests = FALSE
  IPChange = FALSE
  MaxBoots = 1
  MaxFaults = 0
  MaxEvents = 2
SYMMETRY Symmetry
INVARIANTS BoundIsServed RemovedIsStopped
CHECK_DEADLOCK FALSE
