SPECIFICATION UbSpec
CONSTANTS
  Tarefas = {"exec"}
  MaxComandos = 2
INVARIANT OwnTag
CHECK_DEADLOCK FALSE
