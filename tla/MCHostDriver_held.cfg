SPECIFICATION Spec
CONSTANTS
  NibMod = 2
  NSlots = 2
  CsrWriteSlot = 0
  CsrFifoSel = 1
  None = None
  CsrHeld = TRUE
INVARIANT CsrTouchesNoFifo
