\* The nap is two ticks, so that heartbeats fall between two looks of the
\* watchdog; the backoff is 2, 4 and then capped at 6.  The loop ends on shutdown.
CONSTANTS
  HalfTimeout = 2
  InitialBackoff = 2
  MaxBackoff = 6
  MaxFailures = 3
SPECIFICATION FairSpec
INVARIANTS TypeOK StallSeenInTime CleanSlate ReconnectsAreCounted
PROPERTIES WaitIsEarned StallIsReal StopIsHonoured
CHECK_DEADLOCK FALSE
