SPECIFICATION Spec
CONSTANTS
  W = 1
  ImmW = 1
  CrcW = 1
  Poly <- PolyBits
  Words = 2
  HalfDelay = 1
  Depth = 1
  Slots <- TwoSlots
  Nodes <- ThreeNodes
  Blank <- BlankNode
  Cfg <- NoSide
  Macro = TRUE
  Patient = TRUE
INVARIANTS TypeOK FetchesPc
PROPERTY ImplementsDirectFetch
