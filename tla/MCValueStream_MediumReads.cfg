CONSTANTS
  SIZE_MAX = 65535
  Jobs <- MediumReadJobs
SPECIFICATION Spec
PROPERTY AtMostAsked
CHECK_DEADLOCK FALSE
