SPECIFICATION ChannelsSpec
CONSTANTS
  Co = {c1, c2}
  Buf = {p, q}
  Null = null
  PipeClasses <- SmallPipeClasses
  MaxCapacity = 3
  MaxSent = 3
  MaxGen = 2
  ForeignClose = FALSE
  Msg = {x, y}
  Capacity = 4
  LengthMax = 4
  Blocks = {b1, b2, b3}
  Classes <- SmallClasses
  MaxRequest = 5
SYMMETRY PipeSym
INVARIANTS InOrder PipesSound RingSound PoolSound
PROPERTIES ImplementsQueue
