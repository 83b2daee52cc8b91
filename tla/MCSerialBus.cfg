SPECIFICATION FairSpec
CONSTANTS
  p1 = p1 p2 = p2 l1 = l1 l2 = l2 l3 = l3 d1 = d1 d2 = d2 d3 = d3
  cloud = cloud knx = knx health = health sync = sync
  NoDevice = NoDevice
  Ports = {p1, p2}
  Lines = {l1, l2, l3}
  Devices = {d1, d2, d3}
  Callers = {cloud, knx, health, sync}
  Workers = {w1, w2}
  Feedback = {d2}
  PortOf <- MCPortOf
  LineOf <- MCLineOf
  DevList <- MCDevList
  Kind <- MCKind
INVARIANTS PortDiscipline
PROPERTIES PortsReleased
