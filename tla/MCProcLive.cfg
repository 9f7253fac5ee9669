SPECIFICATION FairSpec
CONSTANTS
  MaxProcs = 5
  MaxPid = 5
  MaxAttempts = 4
  SleepTicks = {1, 2, 3}
  ShellTicks = 1
  KillTargets = {5}
  Faults = TRUE
PROPERTIES ExecServed ReadyRuns WakesOnlyWhenDue
