SPECIFICATION ServedSpec
CONSTANTS
  HasResident = TRUE
  GraceZero = FALSE
  WebGraceZero = TRUE
  NB = 2
  Requests = {q1}
  Foreign = {}
  Answers = {"allow_once", "deny"}
  Surface = "a2a"
  Faults = TRUE
  MaxReactivations = 0
  Live = live
  None = none
INVARIANTS TypeOK ServedExecutedWithPermission SuccessorReady A2AOwnerRespected
PROPERTIES FinishedIsFinal
