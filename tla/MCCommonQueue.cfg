SPECIFICATION Spec
CONSTANTS
  Size = 17
  Lens = {1, 4}
  EvictLimit = 2
  MaxPushed = 9
  MaxLen = 4
  RingCap = 9
  RingKeep = 1
INVARIANTS WellFormed EmptyIffMeet
PROPERTY IsPeerBuffer
CHECK_DEADLOCK FALSE
