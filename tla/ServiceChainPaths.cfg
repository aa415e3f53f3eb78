CONSTANTS
  Hooks = {"tc", "xdp"}
  t1 = t1
  t2 = t2
  t3 = t3
  Unknown = Unknown
  NoEnd = NoEnd
  Ports = {p1, p2}
  Ifaces = {eth0}
  TCubes = {t1, t2, t3}
  WithIngress = {t1, t2}
  WithEgress = {t1, t3}
  ParentEgress = {p1}
  Position <- SomePositions
SPECIFICATION Spec
CHECK_DEADLOCK FALSE
INVARIANTS
  ReceivePath
  TransmitPath
  SendPath
  ServicePath
