\* The window is one tick and the grace period another.  Two bursts; one trade is
\* replayed; the first two windows may leave the lookback at any time.
CONSTANTS
  Made <- OneTwoOne
  Replayed = {2}
  WindowTicks = 1
  Lateness = 1
  MaxJobs = 2
  MaxEdge = 2
SPECIFICATION FairSpec
INVARIANTS TypeOK FinalIsWhole LateIsLate BrokenHasCause
PROPERTIES FalseAlarmsHeal
\* After the last burst, with every trade landed, nothing is left to do.
CHECK_DEADLOCK FALSE
