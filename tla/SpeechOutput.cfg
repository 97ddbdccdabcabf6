SPECIFICATION Spec
CONSTANTS
  MaxSpeeches = 2
  Parts = 2
  Attempts = 2
INVARIANTS
  SpeechIsSound
PROPERTIES
  Hushed
CHECK_DEADLOCK FALSE
