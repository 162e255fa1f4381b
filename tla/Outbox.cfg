SPECIFICATION FairSpec
CONSTANTS
  Events = {e1, e2, e3}
  Txs = {{e1, e2}, {e3}}
  Processors = {p1, p2}
  Batch = 2
  Poison = {e1}
  Undecodable = {e3}
INVARIANT DeliveryInv
PROPERTIES
  HandledOnlyWhilePending
  DeliversAsPromised
  EventuallyProcessed
CHECK_DEADLOCK FALSE
