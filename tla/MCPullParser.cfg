CONSTANTS
  SIZE_MAX = 65535
  Inputs <- MCInputs
  ReadSizes <- MCReadSizes
  MaxHeaders = 4
  MaxSkips = 1
SPECIFICATION Spec
INVARIANTS
  HeadersAreElements
  OwnValues
  NothingMissed
  ErrorsOnlyOnCut
  OneWayToValue
  IInv
PROPERTY CachedAnswers
CHECK_DEADLOCK FALSE
