SPECIFICATION StoreSpec
CONSTANTS
  None = None
  Replica = {r1, r2}
  Claim <- MCClaim
  Log <- MCLog
  Blob <- MCBlob
  LogOf <- MCLogOf
  RedactTarget <- MCRedactTarget
  Refs <- MCRefs
  Pins <- MCPins
SYMMETRY MCSymmetry
CONSTRAINT MCDeliveries
INVARIANTS
  Canonicity
  ArrivalsDense
  DumpRestores
  Convergence
  FingerprintsDecide
PROPERTIES
  RedactionSticks
