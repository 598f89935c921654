SPECIFICATION ActorSpec
CONSTANTS
  Ctx = {m, a, b}
  Main = m
  NoCtx = none
  MaxSleep = 1
  KillAllCallers = {}
  ShareJoined = FALSE
  SuspendExpired = FALSE
  VmFull = FALSE
  Msg = {hit, miss}
  Matching = {hit}
  Capacity = 2
  MainSends = FALSE
  Meddle = TRUE
  Fragile = TRUE
  ReleasePending = FALSE
SYMMETRY Spawned
INVARIANTS ActorsSound NoMissedMessage
