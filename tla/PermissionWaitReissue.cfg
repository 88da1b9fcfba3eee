SPECIFICATION ServedSpec
CONSTANTS
  HasResident = TRUE
  GraceZero = FALSE
  WebGraceZero = FALSE
  NB = 1
  Requests = {q1, q2, f}
  Foreign = {f}
  Answers = {"allow_once", "deny"}
  Surface = "a2a"
  Faults = TRUE
  MaxReactivations = 1
  Live = live
  None = none
SYMMETRY Symmetry
INVARIANTS OutcomesAgree CanceledIsNotActedOn OneContinuation
PROPERTIES CheckpointLedger
