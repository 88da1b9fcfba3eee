SPECIFICATION Spec
CONSTANTS
    N = 3
    Deps <- ChainDeps
    Settings <- AllSettings
    None = None
INVARIANTS PositionAgrees RedoneAfterRollback FinishedIsCurrent AdvanceNeedsAnswer
CHECK_DEADLOCK FALSE
