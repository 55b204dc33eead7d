SPECIFICATION Spec
CONSTANTS
  Vars = {v1, v2}
  Table = {v1}
  Data = {d1, ffff}
  Blank = ffff
  NoVar = novar
  None = none
  NoJob = nojob
  Slots = 4
  BootLosses = 0
  WindowLoss = FALSE
  FailIn = {}
PROPERTIES KeptBySwap
