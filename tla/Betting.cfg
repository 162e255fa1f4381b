SPECIFICATION ScenarioSpec
CONSTANTS
  SCALE = 10000
  I64MAX = 2000000000
  Users = {u1, u2}
  Markets = {m1}
  BetIds = {b1, b2}
  Resolvers = {s1, s2}
  MaxOutcomes = 2
  StakeSizes = {0, 1, 2}
  StartingBalance = 2
INVARIANTS
  BooksBalance
  BooksInv
  BalanceNeverNegative
PROPERTIES
  SettledAgainOnlyByRace
  BalanceChangesAnnounced
  FreshBoardCorrectsPrices
  RequestsEnd
CHECK_DEADLOCK FALSE
