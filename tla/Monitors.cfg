SPECIFICATION MonSpec
CONSTANTS
  Actor = {m, a, b, c}
  Main = m
  Nil = nil
  Entry = {e1, e2, e3, e4}
  MaxRef = 1
  MainLinked = FALSE
  Room <- OneEach
SYMMETRY Peers
INVARIANTS ListsSound DeathsExact
