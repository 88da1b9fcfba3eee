CONSTANTS
  loop = loop
  tool = tool
  Tasks = {loop, tool}
  Parent <- MCParent
  Settings <- AllSettings
SPECIFICATION FairSpec
INVARIANTS ControlFileTrue
PROPERTIES PausedWhenQuiet ResumeIsDurable TimeoutHitsItsPause HoldEnds
CHECK_DEADLOCK FALSE
