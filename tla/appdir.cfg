SPECIFICATION Spec
CONSTANTS
  Friend <- MCFriend
  Own = "own"
  Blob <- MCBlob
  NClaims = 2
  MaxKills = 1
  MaxCuts = 1
  MaxFaults = 1
INVARIANTS
  CursorsLag
  ArrivalsKept
  AuthorKept
PROPERTY
  UnreadableUntouched
CHECK_DEADLOCK FALSE
