SPECIFICATION Spec
CONSTANTS
  Commanders = {}
  AdcApps = {}
  PpmApps = {}
  Requests = {}
  Storers = {}
  Detectors = {d1}
  TimeoutThd = tmo
  PidThd = pid
  Faults = {}
  NoFault = none
  StopTime = 1
  KillTime = 2
  TimeoutLoops = 0
  BrakeDrives = FALSE
  KillSwitch = TRUE
INVARIANTS KillReleased
