SPECIFICATION Spec
CONSTANTS
  Header = 3
  Base = 3
  PacketSize = 4
  Sizes = {0, 1, 2, 5, 8}
  MaxPackets = 3
  Paced = TRUE
CHECK_DEADLOCK FALSE
INVARIANT Assembly
PROPERTIES IsPacketStream PacketsHandled SendsEnd
