CONSTANTS
  Hosts = {h1, h2, h3}
  Packets <- ThePackets
  Snats <- TheNets
  Dnats <- TheDnats
  Forwards <- TheForwards
  Callers = {attach, netlink}
  Addresses = {x1, x2}
  NoAddress = NoAddress
  Zero = Zero
  Capacity = 3
  MaxRules = 3
  Final = {"listed", "masquerade", "overtaken"}
SPECIFICATION Spec
SYMMETRY Exchanges
CHECK_DEADLOCK FALSE
INVARIANTS
  ListedRulesServed
  RulePriority
  MasqueradeAddress
