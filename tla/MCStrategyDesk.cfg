CONSTANTS
  FeeNum = 1
  FeeDen = 4
  MoneyQuantum = 1
  Slip = 0
  Symbols <- TwoSymbols
  FundA = 1
  FundB = 2
  Window = 2
  MinSamples = 2
  MinGap = 1
  ZNum = 1
  ZDen = 2
  Capital = 4
  Length = 2
  Threshold = 1
  MaWindow = 2
  MaSymbol = 1
  Band = 10
  Quantity = 2
  Setups <- AllSetups
  Snapshots <- MixedSnaps
  Gaps = {0, 1}
  InitialCash = 100
  MaxEvents = 4
  MaxRuns = 2
SPECIFICATION Spec
INVARIANTS
  BeliefHeld
  OneEntryInFlight
  RemembersShown
  BooksBalance
CHECK_DEADLOCK FALSE
