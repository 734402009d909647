SPECIFICATION Spec
CONSTANTS
  Depth = 2
  Zero = 0
  Byte <- MCByte
  SM <- MCTwo
INVARIANTS TypeOK RingsConsistent
PROPERTIES FlagsStayTrue ImplementsQueues
