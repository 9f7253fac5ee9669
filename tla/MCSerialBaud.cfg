SPECIFICATION SeSpec
CONSTANTS
  Portas = {1, 3}
  Donos = {"a", "b"}
  FifoSize = 1
  RxSize = 2
  Bauds = {230400}
INVARIANT HotSwapKeepsPort
CHECK_DEADLOCK FALSE
