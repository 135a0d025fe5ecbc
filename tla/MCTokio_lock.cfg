SPECIFICATION MCSpec
CONSTANTS
  Builds = {"mutex"}
  Dgrams = {d1, d2, d3}
  ControlCap = 2
  DataCap = 2
  IncomingCap = 1
  Bytes = 2
  Modes <- MCModes
  AIncomingCap = 1
  ABytes = 2
  AModes <- ForgetModes
PROPERTY StateIsReleased
CHECK_DEADLOCK FALSE
