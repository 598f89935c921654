SPECIFICATION ActorSpec
CONSTANTS
  Ctx = {m, a, b}
  Main = m
  NoCtx = none
  MaxSleep = 1
  KillAllCallers = {}
  ShareJoined = FALSE
  SuspendExpired = FALSE
  VmFull = FALSE
  Msg = {hit}
  Matching = {hit}
  Capacity = 1
  MainSends = TRUE
  Meddle = FALSE
  Fragile = FALSE
  ReleasePending = FALSE
INVARIANT ChainsClosed
