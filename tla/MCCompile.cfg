SPECIFICATION Spec
CONSTANTS
  W = 8
  ImmW = 5
  CrcW = 15
  Poly <- MCPoly
  Words = 32
  HalfDelay = 16
  Depth = 1
  Sources <- MCSources
  GpioIn <- MCGpio
INVARIANTS TypeOK SameAsGraph ChipDoesThePlan
