SPECIFICATION Spec
CONSTANTS
  Header = 3
  Base = 3
  PacketSize = 4
  Sizes = {0, 2, 5}
  MaxPackets = 3
  Kinds = {"RESULT", "SHOWN", "STORED"}
  PeerEnds = {"reset"}
  Closes = FALSE
  MaxHandled = 4
CHECK_DEADLOCK FALSE
PROPERTY EndNoticed
