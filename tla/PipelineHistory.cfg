SPECIFICATION Spec
CONSTANTS
    Settings <- AllSettings
    FlushAt = 2
    MaxEvents = 4
    MaxFaults = 2
    MaxKills = 2
    None = None
INVARIANTS HistorySurvives RecoveryComplete NumbersIdentify
CHECK_DEADLOCK FALSE
