\* One XDP cube, two program sources, two log levels, one failing compilation.
CONSTANTS
  c1 = c1  c2 = c2  k1 = k1  k2 = k2  lv1 = lv1  lv2 = lv2
  NoProg = NoProg
  Bogus = Bogus
  NoCode = NoCode
  MaxNodes = 3
  Cubes = {c1}
  CubeType <- OneXDP
  MaxProgs = 1
  MaxFailures = 1
  Codes = {k1, k2}
  Levels = {lv1, lv2}
SPECIFICATION Spec
SYMMETRY CodeLevelSymmetry
CHECK_DEADLOCK FALSE
INVARIANTS TypeOK IndexConserved LevelApplied TailCallsCurrent TwinsAgree
