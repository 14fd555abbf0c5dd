CONSTANTS
  SIZE_MAX = 65535
  Jobs <- EarlyEndJobs
SPECIFICATION Spec
INVARIANT HandsOutTheValue
CHECK_DEADLOCK FALSE
