CONSTANTS
  FeeNum = 1
  FeeDen = 4
  MoneyQuantum = 2
  Slip = 1
  Accounts <- OneAccount
  Symbols <- OneSymbol
  OrderIds <- FaultOrders
  OrderSpec <- FaultSpec
  EventIds = {e1, e2}
  SettleIds = {}
  NoEvent = NoEvent
  Snapshots <- FaultQuotes
  MaxTime = 2
  WallClock = 0
  Latency = 0
  InitialCash = 16
  Confirm = {TRUE, FALSE}
SPECIFICATION Spec
INVARIANTS
  ResentOrderExists
