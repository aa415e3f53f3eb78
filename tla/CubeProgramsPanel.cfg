\* A TC and an XDP cube on a panel of two indexes: the panel can run out.
CONSTANTS
  c1 = c1  c2 = c2  k1 = k1  k2 = k2  lv1 = lv1  lv2 = lv2
  NoProg = NoProg
  Bogus = Bogus
  NoCode = NoCode
  MaxNodes = 3
  Cubes = {c1, c2}
  CubeType <- TCandXDP
  MaxProgs = 1
  MaxFailures = 0
  Codes = {k1}
  Levels = {lv1}
SPECIFICATION Spec
CHECK_DEADLOCK FALSE
INVARIANTS IndexUnique FreeIndexOnlyTwins
PROPERTY IndexStable
