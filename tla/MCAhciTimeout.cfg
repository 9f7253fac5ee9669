SPECIFICATION AhSpec
CONSTANTS
  AhCallers = {"a"}
  Setores = {"s1", "s2"}
  PollLimit = 2
  Discos = {0}
  U32 = 8
INVARIANT TimeoutReported
CHECK_DEADLOCK FALSE
