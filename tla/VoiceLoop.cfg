CONSTANTS
  FollowUpEnabled = TRUE
  Announcers = {timer}
SPECIFICATION FairSpec
INVARIANTS
  TypeOK
  RecordingIsExclusive
  TranscriptionProtected
  InterruptSilencesAnswer

PROPERTIES
  FollowUpSignalServed
