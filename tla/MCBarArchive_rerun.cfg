\* docs: rerunning the incremental download completes the archive.
CONSTANTS
  Symbols <- TwoSymbols
  NumDays = 3
  TradingDays <- OpenDays
  Slots <- TwoThenOne
  MaxBars = 2
  Formats = {"jsonl"}
  MaxFaults = 1
  Contracts <- DailySeries
  SnapshotLogs <- Holdings
  Days30 = 2
  Days3 = 1
  Span = 1
  KnownClosed <- ClosedDay
  MaxRuns = 1
  MaxFailures = 1
  Directories = {"dataset"}
  Downloads <- Requests
SPECIFICATION Spec
PROPERTIES
  RerunCompletes
CHECK_DEADLOCK FALSE
