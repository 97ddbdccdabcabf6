SPECIFICATION Spec
CONSTANTS
  Commands = {c1, c2}
  Windows = 3
  Passes = 2
  MaxRuns = 2
  MaxChunks = 7
  StartTimeout = 3
  MaxSpeech = 6
  MinSpeech = 2
  PreRoll = 2
  BaseSilence = 2
  MaxSilence = 3
  GraceSpeech = 5
  QueueSize = 2
  MaxHeard = 5
  MaxWindows = 2
  Partials = {"", "en", "ar1", "ar2", "mix"}
  Mixed = {"mix"}
  Arabic = {"ar1", "ar2"}
  MaxCalls = 2
  Models = 2
  MaxLine = 3
  MaxAsked = 2
  Cities = {home, away}
  Home = home
  MaxTurns = 3
INVARIANTS
  EarlyIsHandledOnce
  RecordingIsWhole
  TranscriptIsChecked
  AnswerIsSpoken
PROPERTIES
  TurnEnds
CHECK_DEADLOCK FALSE
