CONSTANTS
  FeeNum = 1
  FeeDen = 4
  MoneyQuantum = 1
  Slip = 1
  Symbols <- OneSymbol
  Intents <- TwoIntents
  OrderSpec <- TwoSpec
  Keyed <- BuyKeyed
  OrderIds = {1, 2}
  Snapshots <- Quotes
  InitialCash = 12
  MaxCalls = 3
  MaxMoves = 2
  MaxRestarts = 1
SPECIFICATION Spec
INVARIANTS
  ClientIdOnce
  VenueMatchesFills
PROPERTIES
  AnswerMirrored
  FillsCoverOrders
  LifecycleSpec
CHECK_DEADLOCK FALSE
