SPECIFICATION Spec
CONSTANTS
  Senders = {s1, s2}
  IdOf <- OwnId
  Lengths = {1, 2, 6}
  ShortMax = 1
  FillLen = 3
  FillMax = 2
  LongLen = 2
  RX_BUFFER_SIZE = 6
  RX_FRAMES_SIZE = 3
  MaxSends = 2
  MaxLost = 1
  NoFrame = noframe
INVARIANTS TypeOK InOrder CleanAccepted
PROPERTIES IsLink AllFetched
CHECK_DEADLOCK FALSE
