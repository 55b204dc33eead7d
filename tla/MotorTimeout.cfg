SPECIFICATION Spec
CONSTANTS
  Commanders = {c1}
  AdcApps = {}
  PpmApps = {}
  Requests = {"pid", "drive"}
  Storers = {}
  Detectors = {}
  TimeoutThd = tmo
  PidThd = pid
  Faults = {f1}
  NoFault = none
  StopTime = 1
  KillTime = 2
  TimeoutLoops = 2
  BrakeDrives = TRUE
  KillSwitch = FALSE
INVARIANTS TimedOutReleased
