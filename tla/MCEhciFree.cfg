SPECIFICATION EhSpec
CONSTANTS
  Quadros = {"f1", "f2"}
  EhCallers = {"exec"}
INVARIANT RemovedIsLeft
CHECK_DEADLOCK FALSE
