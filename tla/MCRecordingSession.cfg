CONSTANTS
  Symbols <- TwoSymbols
  OrderIds <- FourOrders
  OrderSpec <- FourSpec
  Snapshots <- Prices
  InitialCash = 4
  AllowShort = FALSE
  MaxEvents = 3
SPECIFICATION Spec
INVARIANTS
  LedgerTellsFills
  AcceptedQueuedOnce
  NeverShort
  ToldInOrder
  FreshWhenDeciding
CHECK_DEADLOCK FALSE
