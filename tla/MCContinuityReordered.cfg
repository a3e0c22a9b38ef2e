\* Two products on a feed where a message may overtake one other.
CONSTANTS
  btc = btc
  eth = eth
  Products = {btc, eth}
  MaxTrade = 2
  MaxWire = 2
  MaxReplays = 1
  MaxSessions = 2
  Overtaking = 1
SPECIFICATION Spec
INVARIANTS LossNeverUnderstated BaselineIsHighestTold ReceivedIsPublished
PROPERTIES BaselineNeverRewinds
SYMMETRY ProductSymmetry
