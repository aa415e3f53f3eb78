CONSTANTS
  Threads = {w1, w2, w3}
  Names = {a, b}
  MaxPorts = 2
  NoThread = NoThread
  NoName = NoName
SPECIFICATION Spec
INVARIANT BlocksWholeCube
