\* docs/runbook.md, of the lake: "every mart is a pure function of them".
CONSTANTS
  MaxTrade = 2
  MaxCopies = 1
  Republished = {}
  MaxRows = 2
  LastDay = 3
  Lookback = 1
  Overnight = FALSE
  Builds = {b1}
SPECIFICATION Spec
PROPERTIES RebuildKeepsTheTape
