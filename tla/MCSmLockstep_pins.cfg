SPECIFICATION Spec
CONSTANTS
  W = 2
  ImmW = 1
  CrcW = 3
  Poly <- PolyBits
  Words = 2
  HalfDelay = 2
  Depth = 1
  SM <- TwoSM
  Programs <- PinPrograms
  Configs <- PlainConfig
  HostBytes <- OneByte
INVARIANT GoldenWhileClean
