SPECIFICATION FairSpec
CONSTANTS
  Bets = {b1, b2}
  Markets = {m1}
  Processors = {p1}
  Batch = 2
INVARIANTS
  FeedsInv
PROPERTIES
  PriceFeedNeverGoesBack
  EveryBetBroadcast
CHECK_DEADLOCK FALSE
