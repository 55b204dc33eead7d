SPECIFICATION Spec
CONSTANTS
  Threads = {usb, can}
  NoThread = nothread
  Chunks = 3
  Pieces = 2
  MaxOps = 3
  MaxFaults = 2
INVARIANTS TypeOK IntactRuns WorkProtected CacheTrue
PROPERTIES NoNeedlessReset CorruptHalts
CHECK_DEADLOCK FALSE
