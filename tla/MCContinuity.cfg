\* One product, every fault, a feed that keeps order.
CONSTANTS
  btc = btc
  Products = {btc}
  MaxTrade = 4
  MaxWire = 3
  MaxReplays = 1
  MaxSessions = 2
  Overtaking = 0
SPECIFICATION FairSpec
INVARIANTS TypeOK LossIsExact TwoLedgersAgree
PROPERTIES LossIsNoticed
