\* Two overlapping builds; three days and a window of one.  Two rows land: both copies
\* of one trade, or the first and the last of three trades with a hole between them,
\* for which tests fail.
CONSTANTS
  MaxTrade = 3
  MaxCopies = 2
  Republished = {1}
  MaxRows = 2
  LastDay = 2
  Lookback = 1
  Overnight = TRUE
  Builds = {b1, b2}
SPECIFICATION Spec
INVARIANTS TypeOK OneRowPerTrade LateIsNotLost NeverAhead MartsAgree
PROPERTIES TapeOnlyImproves
SYMMETRY Interchangeable
