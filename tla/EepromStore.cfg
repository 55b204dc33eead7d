SPECIFICATION Spec
CONSTANTS
  Vars = {v1, v2}
  Table = {v1, v2}
  Data = {d1, ffff}
  Blank = ffff
  NoVar = novar
  None = none
  NoJob = nojob
  Slots = 5
  BootLosses = 1
  WindowLoss = FALSE
  FailIn = {"write"}
INVARIANTS TypeOK OnePage ReadBack RoomForCopy
PROPERTIES IsStore
