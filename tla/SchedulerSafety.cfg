SPECIFICATION SaveSchedSpec
CONSTANTS
  Ctx = {m, a, b}
  Main = m
  NoCtx = none
  MaxSleep = 2
  KillAllCallers = {m}
  ShareJoined = FALSE
  SuspendExpired = FALSE
  VmFull = FALSE
SYMMETRY Spawned
INVARIANTS TypeOK QueuesSound WaitersSafe
PROPERTIES SleepIsMinimum
