CONSTANTS
  FeeNum = 1
  FeeDen = 4
  MoneyQuantum = 1
  Slip = 0
  Accounts <- TwoAccounts
  Symbols <- TwoSymbols
  OrderIds <- BookOrders
  OrderSpec <- BookSpec
  EventIds = {e1, e2, e3}
  SettleIds = {s1}
  NoEvent = NoEvent
  Snapshots <- BookSnaps
  MaxTime = 2
  WallClock = 1
  Latency = 1
  InitialCash = 20
  Confirm = {TRUE, FALSE}
SPECIFICATION Spec
INVARIANTS
  MemoryMatchesFile
  NoFillBeforeActive
PROPERTIES
  EventsInOrder
  LateFillCloses
  EventSettlesCancel
