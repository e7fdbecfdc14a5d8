SPECIFICATION Spec
CONSTANTS
  Packets <- AllPackets
  PeerBytes <- ForeignBytes
  EditValues = {0, 1, 2, 3, 4, 38, 127, 128, 255}
  MaxEdits = 1
  MaxEdited = 17
INVARIANTS NewKeepsPacket SizeIsExact PrefixesAreRefused
CHECK_DEADLOCK FALSE
