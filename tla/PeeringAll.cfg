CONSTANTS
  c1 = c1
  c2 = c2
  p1 = p1
  p2 = p2
  eth0 = eth0
  r1 = r1
  r2 = r2
  Listener = netlink
  NoPeer = NoPeer
  Dangling = Dangling
  NoThread = NoThread
  Workers = {r1, r2}
  Cubes = {c1, c2}
  Ports = {p1, p2}
  CubeOf <- OnePortEach
  PortType <- AllTC
  Netdevs = {eth0}
  Peers = {p1, p2, eth0}
  AttachTypes = {"tc"}
  MaxPorts = 1
  MaxRunning = 2
  Together <- GoesMeanwhile
  MaxFailures = 1
SPECIFICATION Spec
CHECK_DEADLOCK FALSE
SYMMETRY ClientSymmetry
INVARIANTS
  LinkedFirstChoice
  PeerSymmetric
  PeerNamesLink
  NoDangling
