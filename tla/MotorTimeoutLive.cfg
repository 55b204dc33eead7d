SPECIFICATION LiveSpec
CONSTANTS
  Commanders = {}
  AdcApps = {}
  PpmApps = {p1}
  Requests = {"duty", "pid", "drive"}
  Storers = {}
  Detectors = {}
  TimeoutThd = tmo
  PidThd = pid
  Faults = {}
  NoFault = none
  StopTime = 1
  KillTime = 2
  TimeoutLoops = 2
  BrakeDrives = TRUE
  KillSwitch = FALSE
PROPERTIES TimeoutStops
