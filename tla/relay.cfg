SPECIFICATION Spec
CONSTANTS
  Client = {"phone", "laptop", "friend", "stranger"}
  Asks = {"phone", "laptop", "stranger"}
  Keyed = {"phone", "laptop"}
  Post = {"post", "note", "forged"}
  Ours = {"post", "note", "forged"}
  Drafts <- MCDrafts
  MaxConns = 2
  MaxRestarts = 1
  MaxBreaks = 1
  MaxPurges = 1
INVARIANTS
  DiskEarned
  OneActor
  OnlyOwners
PROPERTY
  Delivered
CHECK_DEADLOCK FALSE
