CONSTANTS
  OrderIds   <- MCOrderIds
  ClientKeys <- MCClientKeys
  MaxQty     <- MCMaxQty
SPECIFICATION Spec
INVARIANTS
  ClientKeysInjective
  LogTellsOrder
PROPERTIES
  ClosedLogIsFinal
  LifecycleSpec
CHECK_DEADLOCK FALSE
