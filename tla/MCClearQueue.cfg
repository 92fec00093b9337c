SPECIFICATION SpecWithClear
CONSTANTS
  Size = 10
  Lens = {1, 2}
  EvictLimit = 30
  MaxPushed = 6
INVARIANT ReadsBehindWrites
CHECK_DEADLOCK FALSE
