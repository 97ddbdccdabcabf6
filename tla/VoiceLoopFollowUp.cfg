CONSTANTS
  FollowUpEnabled = TRUE
  Announcers = {timer}
SPECIFICATION Spec
PROPERTY FollowUpWindowHonoured
