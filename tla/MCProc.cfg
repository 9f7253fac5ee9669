SPECIFICATION Spec
CONSTANTS
  MaxProcs = 6
  MaxPid = 6
  MaxAttempts = 5
  SleepTicks = {2}
  ShellTicks = 1
  KillTargets = {5}
  Faults = FALSE
INVARIANTS CpuHeldByTheLiving FocusFlagAgrees
PROPERTIES DeadStaysDead RequestNotLost
