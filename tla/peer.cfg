SPECIFICATION Spec
CONSTANTS
  None = None
  TheLog = "ann"
  Claim <- MCClaim
  Log <- MCLog
  Blob = {photo}
  LogOf <- MCLogOf
  RedactTarget <- MCRedactTarget
  Refs <- MCRefs
  Pins <- MCPins
  Batch = 1
  Scenes <- MCScenes
INVARIANTS
  TypeOK
  PullSound
  PushSound
PROPERTIES
  Converges
  MediaArrives
CHECK_DEADLOCK FALSE
