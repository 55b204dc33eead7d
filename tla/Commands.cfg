SPECIFICATION Spec
CONSTANTS
  Wired = {usb}
  Can = can
  Peers = {p1, p2}
  NoFunc = null
  SendPacket = commands_send_packet
  NoPacket = nopacket
  MaxPackets = 3
INVARIANTS TypeOK AnswersOwn AloneOwn BlockingOwn
PROPERTIES BlockingEnds
CHECK_DEADLOCK FALSE
