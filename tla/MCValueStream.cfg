CONSTANTS
  SIZE_MAX = 65535
  Jobs <- MCJobs
SPECIFICATION Spec
INVARIANTS
  PositionInsideValue
  IInv
PROPERTIES
  ReadsDeliverTheValue
  EveryReadReturns
CHECK_DEADLOCK FALSE
