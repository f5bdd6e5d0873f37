SPECIFICATION Spec
CONSTANTS
  None = None
  Claim <- MCClaim
  Log <- MCLog
  Blob <- MCBlob
  LogOf <- MCLogOf
  RedactTarget <- MCRedactTarget
  Refs <- MCRefs
  Pins <- MCPins
INVARIANTS
  RowsHeal
  EdgesKept
PROPERTIES
  Atomic
