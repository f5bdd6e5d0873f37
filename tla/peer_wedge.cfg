SPECIFICATION Spec
CONSTANTS
  None = None
  TheLog = "ann"
  Claim <- MCClaim
  Log <- MCLog
  Blob = {photo}
  LogOf <- MCLogOf
  RedactTarget <- MCRedactTarget
  Refs <- MCRefs
  Pins <- MCPins
  Batch = 1
  Scenes <- MCCongested
PROPERTY CongestionHeals
