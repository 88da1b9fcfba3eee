SPECIFICATION Spec
CONSTANTS
    Settings <- SeparatedOnly
    FlushAt = 2
    MaxEvents = 4
    MaxFaults = 2
    MaxKills = 2
    None = None
INVARIANTS AppendedIsReadable
CHECK_DEADLOCK FALSE
