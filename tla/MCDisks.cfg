SPECIFICATION MCSpec
CONSTANTS
  AhCallers = {"exec", "shell"}
  Setores = {"s1", "s2"}
  PollLimit = 2
  U32 = 8
  Discos = {0, 1}
  Quadros = {"f1", "f2", "f3", "f4"}
  EhCallers = {"exec", "shell"}
  Tarefas = {"exec", "shell"}
  MaxComandos = 2
  CHUNK = 8
  MaxPaginas = 3
  Pedidos = {1, 3, 7}
  Ids = {"a", "b"}
INVARIANTS OwnSector   OwnData HeapSound
CHECK_DEADLOCK FALSE
