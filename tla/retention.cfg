SPECIFICATION RetentionSpec
CONSTANTS
  None = None
  MaxTime = 3
  Retention = 1
  Claim <- MCClaim
  Log <- MCLog
  Blob <- MCBlob
  LogOf <- MCLogOf
  RedactTarget <- MCRedactTarget
  Refs <- MCRefs
  Pins <- MCPins
INVARIANTS
  IndexStaysExact
PROPERTIES
  PinnedBlobsKept
  OrphansReclaimed
