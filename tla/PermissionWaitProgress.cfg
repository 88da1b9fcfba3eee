SPECIFICATION A2AFairSpec
CONSTANTS
  HasResident = TRUE
  GraceZero = FALSE
  WebGraceZero = FALSE
  NB = 1
  Requests = {q1, q2}
  Foreign = {}
  Answers = {"allow_once", "deny"}
  Surface = "a2a"
  Faults = FALSE
  MaxReactivations = 0
  Live = live
  None = none
PROPERTIES WaitEnds DecisionConcludes
CHECK_DEADLOCK FALSE
