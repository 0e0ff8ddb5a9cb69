CONSTANTS
  Inputs = {"AES", "COAX", "AD", "MIC"}
  FADE = 2
  MaxWords = 5
SPECIFICATION Spec
INVARIANTS LastWordKept AlignmentReturns OnlySourceConnected NeverLeftMuted
PROPERTIES LastChoicePlayed ImplementsSwitch
