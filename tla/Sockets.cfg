SPECIFICATION FairSpec
CONSTANTS
  Channels = {"market", "chat"}
  QueueCap = 1
  StreamCap = 1
  Page = 1
  MaxChanges = 2
  MaxFrames = 3
INVARIANTS
  ConnectionInv
  QuietStateIsCurrent
PROPERTIES
  JoinsEnd
  EveryItemForwarded
CHECK_DEADLOCK FALSE
