\* The comment of the heartbeat handler on a feed that reorders.
CONSTANTS
  btc = btc
  Products = {btc}
  MaxTrade = 3
  MaxWire = 3
  MaxReplays = 0
  MaxSessions = 2
  Overtaking = 1
SPECIFICATION Spec
INVARIANTS CountedLossIsReal
