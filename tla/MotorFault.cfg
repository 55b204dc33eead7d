SPECIFICATION Spec
CONSTANTS
  Commanders = {}
  AdcApps = {a1}
  PpmApps = {}
  Requests = {"duty", "pid", "drive", "release", "brake"}
  Storers = {s1}
  Detectors = {}
  TimeoutThd = tmo
  PidThd = pid
  Faults = {f1, f2}
  NoFault = none
  StopTime = 1
  KillTime = 2
  TimeoutLoops = 0
  BrakeDrives = FALSE
  KillSwitch = FALSE
INVARIANTS TypeOK NoOrphanOutput FaultDelivered NoOrphanLock
PROPERTIES FaultStops IgnoreArmed
