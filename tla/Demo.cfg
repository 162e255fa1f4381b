SPECIFICATION DemoSpec
CONSTANTS
  Names = {oracle, hana, leo}
  Host = oracle
  Titles = {t1, t2}
  Ids = {1, 2, 3, 4}
  Sample = 3
  MaxOthers = 1
  MaxFaults = 1
INVARIANT DemoInv
PROPERTY BoardTurnsOver
