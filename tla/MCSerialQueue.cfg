SPECIFICATION Spec
CONSTANTS
  Size = 9
  Lens = {1, 2, 3}
  MaxPackets = 6
INVARIANT TypeOK
INVARIANT FindsHeader
INVARIANT DeliveredInOrder
INVARIANT SignalPerPacket
PROPERTY EverythingRead
CHECK_DEADLOCK FALSE
