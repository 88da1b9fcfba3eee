CONSTANTS
  Workers = {w1, w2}
  Tasks = {k1}
  None = None
  Settings <- AllSettings
SPECIFICATION Spec
SYMMETRY WorkerSymmetry
INVARIANTS OwnerHoldsControl NeverLockedOut
PROPERTIES ClaimFindsNoOrphan
CHECK_DEADLOCK FALSE
