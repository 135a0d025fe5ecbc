SPECIFICATION MCSpec
CONSTANTS
  Builds = {"reactor"}
  Dgrams = {d1, d2, d3}
  ControlCap = 2
  DataCap = 2
  IncomingCap = 1
  Bytes = 2
  Modes <- DgramModes
  AIncomingCap = 1
  ABytes = 2
  AModes <- ForgetModes
INVARIANT GoneMeansStopped
CHECK_DEADLOCK FALSE
