CONSTANTS
  CHAR_BIT = 3
  SIZEOF_INT = 2
  SIZEOF_LONG = 4
  MaxLongs = 2
  HAVE_RB_BIG_PACK = TRUE
  INT_MAX = 2147483647
  SIZE_MAX = 2147483647
  Values <- MCValues
  Received <- MCReceived
  Columns <- MCColumns
SPECIFICATION Spec
INVARIANTS
  IntegersExact
  ObjectIdsExact
  ValuesSurvive
  HeadersSurvive
  SetsCanonical
  TextsSurvive
CHECK_DEADLOCK FALSE
