SPECIFICATION Spec
CONSTANTS
  NibMod = 2
  NSlots = 2
  CsrWriteSlot = 0
  CsrFifoSel = 1
  None = None
  CsrHeld = FALSE
INVARIANTS HostTypeOK NoContention
PROPERTIES ObeysTheDatasheet WritesSettle
