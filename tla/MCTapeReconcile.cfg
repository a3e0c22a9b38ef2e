\* assert_bar_volume_reconciles: "Bars must account for every trade, exactly once."
CONSTANTS
  MaxTrade = 3
  MaxCopies = 1
  Republished = {}
  MaxRows = 3
  LastDay = 2
  Lookback = 1
  Overnight = FALSE
  Builds = {b1}
SPECIFICATION Spec
INVARIANTS BarsAccountForEveryTrade
