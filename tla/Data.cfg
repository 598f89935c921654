SPECIFICATION DataSpec
CONSTANTS
  DKeys = {"a", "b", "c"}
  DVals <- MCVals
  Hash <- MCHash
  Buckets = 2
  Capacity = 2
  MaxEntries = 3
  MaxSaves = 1
  MaxLog = 2
  MaxLoops = 1
  PersistTouched = FALSE
  RemoveCurrent = FALSE
  RestoreInLoop = FALSE
  Bases <- MCBases
  Comps <- MCComps
  Reads <- MCReads
  Watched <- MCWatched
  BaseValues = {0, 1}
  Runners = {p}
  MaxInvalidate = 4
  MaxCollect = 4
  MaxBatch = 1
  SwitchInProc = FALSE
  ComputeInSave = FALSE
  StSlots = 2
  StFiles = {"f"}
  StIds = 2
  StBuf = 2
  StLen = 4
  StOpens = 2
  StSaves = 1
  StModes = {"r", "R", "a"}
  StSloppy = {}
  SnSlots = 3
  SnKinds = {"file", "append", "memory", "pipe"}
  SnFile = 2
  SnScript = 3
  SnChunk = 2
  SnWork = 1
  SnHosts <- SnHostsMC
  SnActs = 3
  SnSnaps = 2
  SnFaults = 1
  SnUses = {}
INVARIANTS ReactiveSound StreamsSound SnapshotSound
PROPERTIES DictSound
CHECK_DEADLOCK FALSE
