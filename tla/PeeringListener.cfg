CONSTANTS
  c1 = c1
  c2 = c2
  p1 = p1
  p2 = p2
  eth0 = eth0
  r1 = r1
  r2 = r2
  Listener = netlink
  NoPeer = NoPeer
  Dangling = Dangling
  NoThread = NoThread
  Workers = {r1}
  Cubes = {c1, c2}
  Ports = {p1, p2}
  CubeOf <- OnePortEach
  PortType <- Mixed
  Netdevs = {eth0}
  Peers = {eth0}
  AttachTypes = {"tc", "xdp"}
  MaxPorts = 1
  MaxRunning = 2
  Together <- AnyPair
  MaxFailures = 0
SPECIFICATION Spec
CHECK_DEADLOCK FALSE
INVARIANTS
  IfaceExclusive
  IfaceUsed
  LinksAgreeAtRest
