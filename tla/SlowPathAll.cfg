\* A service with ports that dismounts itself and a transparent one that does
\* not, on different hooks.
CONSTANTS
  c1 = c1
  c2 = c2
  NoCube = NoCube
  NoThread = NoThread
  Cubes = {c1, c2}
  CubeType <- OneOfEach
  Transparent = {c2}
  Dismounting = {c1}
  MaxIds = 2
  MaxEvents = 2
SPECIFICATION FairSpec
CHECK_DEADLOCK FALSE
INVARIANTS
  TypeOK
  CallbacksOfCubes
  CallbackKeepsObject
  PortNotDeleted
  DismountProtects
PROPERTY DestructionEnds
