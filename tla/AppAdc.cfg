SPECIFICATION Spec
CONSTANTS
  Configurers = {c1, c2}
  Disablers = {d1}
  PassTicks = 1
  MsTicks = 1
  MinTicks = 3
  MaxCalls = 3
  MaxConfigs = 2
INVARIANTS TypeOK OneThread DisabledForever
PROPERTIES SafeStart EnabledAgain Reconfigured
CHECK_DEADLOCK FALSE
