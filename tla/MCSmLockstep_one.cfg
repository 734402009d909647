SPECIFICATION Spec
CONSTANTS
  W = 2
  ImmW = 1
  CrcW = 3
  Poly <- PolyBits
  Words = 3
  HalfDelay = 2
  Depth = 1
  SM <- OneSM
  Programs <- OnePrograms
  Configs <- OneConfigs
  HostBytes <- OneByte
INVARIANTS TypeOK GoldenWhileClean
