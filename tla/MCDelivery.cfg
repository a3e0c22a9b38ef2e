\* Pages of one trade, so that every trade is at the edge of a page; reports every
\* two ticks, refused within two.  The second process is the last.
CONSTANTS
  MaxFailures = 1
  FlushInterval = 2
  MinWriteInterval = 2
  MaxTrade = 4
  PageSize = 1
  Withheld <- OneWithheld
  MaxProcesses = 2
SPECIFICATION FairSpec
INVARIANTS TypeOK OneRefusalPerPause ReportsKeepUp LastReportLosesLittle CompleteIsComplete BackfillFindsAll
PROPERTIES OutboxSpec ShutdownEnds HolesHeal
