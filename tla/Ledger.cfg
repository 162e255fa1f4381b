SPECIFICATION Spec
CONSTANTS
  SCALE = 10000
  I64MAX = 2000000000
  MaxLimit = 1
  Bucket = 2
  Users = {u1, u2}
  OutcomeCounts = {3}
  MaxMarkets = 2
  StakeSizes = {1, 5}
  StartingBalance = 6
  MaxWrites = 4
  BettingTime = 3
  Walks <- MCWalks
SYMMETRY Symmetry
INVARIANTS
  BoardInv
  RepositoriesAgree
  WalkMissesNothing
  ChartEndsAtPrice
PROPERTY BackingRaisesPrice
CHECK_DEADLOCK FALSE
