\* docs/runbook.md: "The heartbeat watchdog forces a reconnect".
CONSTANTS
  HalfTimeout = 1
  InitialBackoff = 1
  MaxBackoff = 2
  MaxFailures = 2
SPECIFICATION TimerSpec
PROPERTIES StallForcesReconnect
CHECK_DEADLOCK FALSE
