SPECIFICATION ActorSpec
CONSTANTS
  Ctx = {m, a, b, c}
  Main = m
  NoCtx = none
  MaxSleep = 1
  KillAllCallers = {}
  ShareJoined = FALSE
  SuspendExpired = FALSE
  VmFull = FALSE
  Msg = {hit}
  Matching = {hit}
  Capacity = 1
  MainSends = FALSE
  Meddle = FALSE
  Fragile = FALSE
  ReleasePending = FALSE
SYMMETRY Spawned
INVARIANTS SlotWakeups
