SPECIFICATION MCSpec
CONSTANTS
  Parts = {"paths", "endpoint"}
  Addrs = {"a", "b", "c"}
  FirstAddr = "a"
  MaxPaths = 2
  DcidLimit = 2
  ScidLimit = 2
  MaxProbing = 2
  AmplFactor = 3
  Scenarios <- MCScenarios
  MaxAmpl = 3
  Attempts = {1, 2}
  CidLimit = 2
  BatchSize = 2
  BufferSize = 1
  BufferPkts = 2
  MaxOut = 1
  MaxBlocked = 1
  Modes <- MCModes
INVARIANTS RetiredIsNotUsed PathDcidIsOwn  WorkIsQueued TimerIsArmed
CHECK_DEADLOCK FALSE
