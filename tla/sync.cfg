SPECIFICATION Spec
CONSTANTS
  None = None
  TheLog = "ann"
  Claim <- MCClaim
  Log <- MCLog
  Blob = {}
  LogOf <- MCLogOf
  RedactTarget <- MCRedactTarget
  Refs <- MCRefs
  Pins <- MCPins
  Batch = 1
  Settings <- MCSettings
INVARIANTS
  TypeOK
  PullSound
  PushSound
  NothingToLearn
  NothingToTeach
PROPERTIES
  SessionsEnd
  Converges
