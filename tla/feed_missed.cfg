SPECIFICATION Spec
CONSTANTS
  Hash <- MCHash
  Device <- MCDevice
  Author <- MCAuthor
  TapSize = 1
  Scenes <- MCLive
PROPERTY
  FeedLive
CHECK_DEADLOCK FALSE
