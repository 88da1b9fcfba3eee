CONSTANTS
  t1 = t1
  t2 = t2
  Tasks = {t1, t2}
  Settings <- AllSettings
SPECIFICATION FairSpec
INVARIANTS ReleasedIsSafe
PROPERTIES StopIsKept ReleaseHappens
CHECK_DEADLOCK FALSE
