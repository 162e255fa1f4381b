SPECIFICATION FairSpec
CONSTANTS
  SCALE = 10000
  I64MAX = 2000000000
  Users = {u1, u2}
  Markets = {m1}
  BetIds = {b1}
  Resolvers = {s1, s2}
  MaxOutcomes = 2
  StakeSizes = {1}
  StartingBalance = 1
PROPERTY SettlementFinal
CHECK_DEADLOCK FALSE
