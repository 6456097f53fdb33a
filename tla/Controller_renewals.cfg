SPECIFICATION FairSpec
CONSTANTS
  a1 = a1  a2 = a2  a3 = a3
  m1 = m1  m2 = m2  m3 = m3
  i1 = i1  i2 = i2  i3 = i3
  Id = {a1, a2}
  IP = {i1, i2}
  MAC = {m1, m2}
  HostMAC = HostMAC
  NoIP = NoIP
  NoMAC = NoMAC
  Absent = Absent
  ConfigMAC = {m1}
  ManageInterfaces = TRUE
  DynamicInterfaces = FALSE
  AdminMAC = {m2}
  Renewals = TRUE
  LateLeases = FALSE
  EarlyRequests = FALSE
  IPChange = FALSE
  MaxBoots = 1
  MaxFaults = 0
  MaxEvents = 2
INVARIANTS RemovedIsStopped
PROPERTIES RequestIsDecided RemovedIsReleased MACComesBack
CHECK_DEADLOCK FALSE
