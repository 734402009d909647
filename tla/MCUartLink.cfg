SPECIFICATION LinkSpec
CONSTANTS
  W = 8
  ImmW = 5
  CrcW = 15
  Poly <- MCPoly
  Words = 32
  HalfDelay = 16
  Depth = 1
  Messages <- MCMessages
  MaxSlips = 2
  MaxRunts = 1
  RuntLen = 4
  Gap = 8
  Quiet = 80
INVARIANT LinkTypeOK
PROPERTIES NoFalseByte NoFalseAlarm Delivered
