SPECIFICATION MemorySpec
CONSTANTS
  Co = {a, b}
  Words = 5
  MaxSaveLevel = 3
  GenMod = 1
  MaxHeld = 2
  MaxWrites = 3
  MaxWork = 4
  StaleTokens = FALSE
  SaveThenYield = FALSE
  CellWords = 6
  CellLevels = 2
  Tags = {1, 2}
  MixedWidths = FALSE
  SkCells = {1, 2}
  SkNumbers = {1}
  SkWide = {1}
  SkSlots = 4
  SkExecSlots = 5
  SkHeld = 4
  SkLengths = {0, 1}
  SkFragile = FALSE
  HeapLimit = 14
  MinBlock = 2
  BinLimit = 4
  ScratchWords = 2
  AskedSizes = {2, 3, 5}
  GBlocks = {g1, g2}
  GNames = {n1}
  LBoxes = {home, l1}
  Home = home
  Nil = nil
  MaxHand = 2
  VrgDepth = 1
  VisitedCap = 0
  GrowFails = FALSE
  JournalsGlobals = FALSE
  RSize = 6
  RCoros = 1
  RDepth = 2
  RMaxSaves = 1
  RSpawnInside = FALSE
  RYieldInside = FALSE
  RTryInside = FALSE
  RRestoreInside = FALSE
SYMMETRY Alike
INVARIANTS SaveSound WideSound RegionsSound
PROPERTIES HeapSound CollectorSound RestoreUndoes
