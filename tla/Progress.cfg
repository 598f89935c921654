SPECIFICATION ProgressSpec
CONSTANTS
  Ctx = {m, a, b}
  Main = m
  NoCtx = none
  MaxSleep = 1
  KillAllCallers = {}
  ShareJoined = FALSE
  SuspendExpired = FALSE
  VmFull = TRUE
  Msg = {hit}
  Matching = {hit}
  Capacity = 1
  MainSends = FALSE
  Meddle = FALSE
  Fragile = FALSE
  ReleasePending = FALSE
  Coroutine = {m, a, b}
  Quanta = {0, 2, 3, 4}
INVARIANTS SliceEnds
PROPERTIES EveryoneRuns ReceiveReturns NobodyStarves
