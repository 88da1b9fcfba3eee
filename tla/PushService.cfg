CONSTANTS
  Jobs = {1}
  Workers = {w1, w2}
  MaxAttempts = 2
  MaxEntries = 4
  Faults = TRUE
  NJobs = 2
  MaxCrashes = 2
SPECIFICATION ServiceSpec
INVARIANTS JobsAreStored FilesSurvive
PROPERTIES AtLeastOnce EverySettled
CHECK_DEADLOCK FALSE
