SPECIFICATION Spec
CONSTANTS
  Header = 3
  Base = 3
  PacketSize = 4
  Sizes = {0, 3}
  MaxPackets = 2
  Kinds = {"RESULT", "SHOWN", "STORED"}
  PeerEnds = {"closed", "reset"}
  Closes = TRUE
  MaxHandled = 4
CHECK_DEADLOCK FALSE
INVARIANTS Assembly ClientOutlivesThread
PROPERTIES IsPacketStream PacketsHandled WindowClosed
