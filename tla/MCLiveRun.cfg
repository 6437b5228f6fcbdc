\* Two symbols, two runs, a trading day before the one the runs are in.
CONSTANTS
  Symbols <- Funds
  DayLength = 5
  Open = 1
  Close = 3
  TradingDays <- OpenDays
  PollSeconds = 1
  QuoteFill = "last"
  Answers <- Quoted
  FirstTick = 7
  LastTick = 11
  Past <- Before
  TradeTicks <- Seconds
  Configs <- Setups
  MaxRuns = 2
SPECIFICATION Spec
INVARIANTS
  NeverRefused
  HistoryWhole
PROPERTIES
  RunEnds
CHECK_DEADLOCK FALSE
