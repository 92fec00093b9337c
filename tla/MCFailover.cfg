SPECIFICATION MCSpec
CONSTANTS
  MaxPackets = 3
  QueueCap = 2
  Keep = 1
  ReadLimit = 1
INVARIANT OncePerNet
PROPERTIES ImplementsBest NoGap
CHECK_DEADLOCK FALSE
