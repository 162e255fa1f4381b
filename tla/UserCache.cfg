SPECIFICATION FairSpec
CONSTANTS
  Requests = {r1, r2}
  Aliases = {"email"}
  Kinds = {"role", "avatar", "top_up", "account", "login", "refresh"}
  StartingBalance = 1
  MaxChanges = 1
INVARIANTS
  CacheInv
  StaleIsExplained
PROPERTY SettlesDown
CHECK_DEADLOCK FALSE
