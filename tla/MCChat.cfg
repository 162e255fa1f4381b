SPECIFICATION ChatSpec
CONSTANTS
  Messages = {1, 2, 3, 4}
  Rooms = {global, market}
  Readers = {reader}
  Limit = 2
  MaxTime = 3
  Users = {u1, u2}
  Requests = {r1, r2, r3}
  Processors = {p1}
  Batch = 2
INVARIANTS
  MessagesInv
  PagesNeverRepeat
  PagesLeaveNoHole
  ReactionsInv
  FlagWrongOnlyAfterFailure
CHECK_DEADLOCK FALSE
