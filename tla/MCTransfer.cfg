SPECIFICATION MCSpec
CONSTANTS
  Parts = {"live", "safe", "reset"}
  MaxOff = 2
  MaxRecv = 2
  MaxFrames = 9
  MaxCtl = 6
  MaxQueued = 4
  MaxConn = 9
  MaxConnWindow = 9
  ConnWindow = 9
  MaxLoss = 1
  Window = 2
  MaxWindow = 4
  InitMaxData = 2
  MayReset = FALSE
  MayStop = FALSE
  None = None
  NoOff = None
  IsBidi = FALSE
  RecvBidi = FALSE
  SafeMaxFrames = 3
  SafeMaxCtl = 2
  ResetMaxFrames = 2
  ResetMaxCtl = 2
  SafeMaxQueued = 2
  SafeWindow = 1
  SafeMaxWindow = 2
  SafeConn = 2
  SafeMaxConn = 4
INVARIANTS
  AckedIsReceived ErrorIsMiscount
PROPERTIES
  DataArrives CreditArrives
CHECK_DEADLOCK FALSE
