SPECIFICATION Spec
CONSTANTS
  Voice = voice
  Desktop = desktop
  Targets = {x1, x2}
  None = None
  MaxRounds = 2
  ChainLength = 2
  Sessions <- MCSessions
SYMMETRY TargetSymmetry
INVARIANTS
  QuestionsMatch
  RepliesAreSound
CHECK_DEADLOCK FALSE
