\* The platform with either archive, two symbols, four days, one failure.
CONSTANTS
  Symbols <- TwoSymbols
  NumDays = 4
  TradingDays <- OpenDays
  Slots <- TwoThenOne
  MaxBars = 2
  Formats = {"jsonl", "parquet"}
  MaxFaults = 1
  Contracts <- DailySeries
  SnapshotLogs <- Holdings
  Days30 = 3
  Days3 = 1
  Span = 1
  KnownClosed <- ClosedDay
  MaxRuns = 1
  MaxFailures = 1
  Directories = {"dataset", "collected"}
  Downloads <- Requests
SPECIFICATION Spec
INVARIANTS
  OneRowPerBar
  DamageIsInterruption
  DayFromOneAnswer
PROPERTIES
  RowsLostOnlyByFault
  ReportTrue
  CatchesUp
CHECK_DEADLOCK FALSE
