SPECIFICATION ServicesSpec
CONSTANTS
  Controls <- Requests
  MaxControls = 1
  Specs <- TwoChildren
  Strategies = {"OneForOne", "OneForAll", "RestForOne"}
  Spare = 1
  Headroom = 0
  MaxIntensity = 1
  Period = 2
  ClockWrap = 6
  Boot = 5
  Horizon = 2
  Askers = {p}
  GClients = {"a", "b"}
  GBoxSize <- SmallBoxes
  MaxSerial = 2
  RefSpan = 100
  Handlers = {"call", "cast", "terminate"}
  MainCalls = TRUE
  Programs <- SmallPrograms
  Capacities = {1, 2, 3}
  MaxPipeCoroutines = 5
  HostIRQs = {"L0", "L1", "L2", "error", "suspend", "resume", "invoke", "exit"}
  IMaxWork = 3
  IMaxRaised = 3
  Masking = TRUE
INVARIANTS SupervisorSound CallsSound PipelineSound InterruptsSound
PROPERTIES ServicesProceed
CHECK_DEADLOCK FALSE
