SPECIFICATION Spec
CONSTANTS
  Packets <- MCPackets
  Fcs <- MCFcs
  MaxPackets = 2
INVARIANTS EndsWellFormed Transparent
CHECK_DEADLOCK FALSE
