CONSTANTS
  FeeNum = 0
  FeeDen = 1
  MoneyQuantum = 1
  Slip = 0
  Symbols <- TwoSymbols
  FundA = 1
  FundB = 2
  Window = 2
  MinSamples = 2
  MinGap = 1
  ZNum = 1
  ZDen = 2
  Capital = 5
  Length = 2
  Threshold = 1
  MaWindow = 2
  MaSymbol = 1
  Band = 10
  Quantity = 2
  Setups <- ShortSetups
  Snapshots <- ShortSnaps
  Gaps = {0, 1}
  InitialCash = 1
  MaxEvents = 4
  MaxRuns = 2
SPECIFICATION Spec
INVARIANTS
  EntryWholeOrRolledBack
CHECK_DEADLOCK FALSE
