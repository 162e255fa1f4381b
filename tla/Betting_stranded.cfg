SPECIFICATION Spec
CONSTANTS
  SCALE = 10000
  I64MAX = 2000000000
  Users = {u1, u2}
  Markets = {m1}
  BetIds = {b1, b2}
  Resolvers = {s1}
  MaxOutcomes = 2
  StakeSizes = {1, 2}
  StartingBalance = 3
INVARIANT ResolvedLeavesNoActiveBet
SYMMETRY Symmetry
CHECK_DEADLOCK FALSE
