SPECIFICATION Spec
CONSTANTS
  Hash <- MCHash
  Device <- MCDevice
  Author <- MCAuthor
  TapSize = 1
  Scenes <- MCScenes
INVARIANTS
  TypeOK
  EditsSupersede
  ConflictsStand
  RecordMeant
PROPERTY
  FeedSettles
CHECK_DEADLOCK FALSE
