CONSTANTS
  c1 = c1
  c2 = c2
  Cpus = {c1, c2}
  Outbound <- TwoOutbound
  Inbound <- OneInbound
  External = {"e"}
  Servers <- TheServer
  NoRule = NoRule
  NoPacket = NoPacket
  FirstPort = 3
  LastPort = 6
  MapDim = 2
  MaxPorts = 4
  MaxChanges = 1
SPECIFICATION Spec
CHECK_DEADLOCK FALSE
SYMMETRY CpuSymmetry
INVARIANTS
  PortsInTurn
  RepliesReturn
  AnswersKeepAddress
