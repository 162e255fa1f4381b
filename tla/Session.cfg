SPECIFICATION SessionSpec
CONSTANTS
  Registers = {a1, a2}
  Logins = {l1}
  Refreshers = {f1, f2}
  Logouts = {o1}
  Emails = {"e1", "e2"}
  Usernames = {"n1", "n2"}
INVARIANTS
  SingleUse
  LogoutRevokes
  NoSessionLost
  IdentitiesUnique
CHECK_DEADLOCK FALSE
