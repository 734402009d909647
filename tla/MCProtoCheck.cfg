SPECIFICATION Spec
CONSTANTS
  W = 8
  ImmW = 5
  CrcW = 15
  Poly <- MCPoly
  Words = 32
  HalfDelay = 16
  Depth = 4
  Talks <- MCTalks
  Frames <- MCFrames
  Heard <- MCHeard
  Tail24 = 24
  MaxHold = 5
  MaxWord = 11
  MaxTrace = 1100
CHECK_DEADLOCK FALSE
INVARIANTS TypeOK TxSpeaksTheLanguage RxUnderstandsTheLanguage RoundTrip
  LanguageAgrees NoiseIsSeen StuffingIsUndone
PROPERTY Parks
