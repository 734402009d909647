SPECIFICATION PortSpec
CONSTANTS
  NibMod = 2
  NSlots = 2
  CsrWriteSlot = 0
  CsrFifoSel = 1
INVARIANTS PortTypeOK OneCommandAtATime SlotCopiesAgree HalvesStayInTheirMode
  CommandNeedsAChange
