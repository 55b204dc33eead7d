SPECIFICATION Spec
CONSTANTS
  Bytes = {0, 1, 2, 3}
  MaxPayload = 3
  MaxShort = 2
  Crc <- WeakCrc
  Sendable <- SomePayloads
  NoFrame = noframe
INVARIANTS TypeOK HasSpace Delivered
PROPERTIES IsStream
