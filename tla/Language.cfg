SPECIFICATION LanguageSpec
CONSTANTS
  MaxExec = 3
  MaxOp <- OperandBound
  MaxIds = 2
  MaxConts <- ContinuationBound
  ErrorNames = {"type-check"}
  Programs <- Programs2
  Loose = {}
  FWidth = 3
  LPrograms <- LazyPrograms
  LMaxProd = 9
  LMaxInt = 100000
  LLeave = FALSE
  GPrograms <- LogicPrograms
  GVars = 2
  GSaveCount = 4
  GMaxDepth = 4
  IOps = {"any","all","count","find","filter","take_while","drop_while","filter_dict","partition","map_dict","map","map_indexed","scan","reduce","min_by","max_by","sort_by"}
  IVals = {1, 2}
  ILen = 3
  IMuts = 1
  IOwnEntry = FALSE
  INull = FALSE
  ILeakFree = {"any","all","count","find","filter","take_while","drop_while","filter_dict","partition","map_dict","map","map_indexed","reduce","sort_by"}
  NBits <- MCNBits
  NMant <- MCNMant
  NPrimes <- MCNPrimes
  NOps = {"add","sub","mul","div","mod","gcd","lcm","midpoint","ncr","min","max","lt","le","gt","ge","eq","and","or","xor","shl","shr","rotl","rotr","not","bit_ceil","bit_floor","popcount","bit_width","clz","clo","ctz","cto","neg","abs","sign","has_single_bit","isqrt","quotrem","clamp","between","powmod","prime","promote","promote_array","cast","coerce","reinterpret"}
  ScTexts <- MCScTexts
  ScBits <- MCScBits
  ScReach <- MCScReach
  ScTargets = {"Null", "Byte", "ULong", "Double"}
  VScalars <- MCVScalars
  VComposite = {"Array", "Set", "Dict", "Tagged", "Record"}
  VStore = 2
  VTop = 3
  VDepth = 2
  VMant = 9
  BNames = {x}
  BDicts = {d, f}
  Frames = {f}
  BCo = {p, q}
  MaxDicts = 1
  NewKinds = {"own"}
  PersistNew = FALSE
  SharedStore = FALSE
INVARIANTS ControlSound LazySound LogicSound IterationSound NumbersExact ValuesSound BindingSound
CHECK_DEADLOCK FALSE
