CONSTANTS
  Nodes = {n1, n2}
  Home = n1
  PerNode = 2
  Files = {meta, log}
  Meta = meta
  None = None
  Attempts = 2
  Settings <- AllSettings
SPECIFICATION FairSpec
INVARIANTS CapturesAreWhole
PROPERTIES OneHistory FailureCostsNothing FailuresSettle
CHECK_DEADLOCK FALSE
