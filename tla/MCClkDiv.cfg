SPECIFICATION Spec
CONSTANT ByteMod = 4
INVARIANTS TypeOK NoDrift PhaseAccount ReloadFits
PROPERTIES SameAsInterp KeepsExecuting
