SPECIFICATION FairBootSpec
CONSTANTS
  Nil = Nil
  Absent = Absent
  NoFrame = NoFrame
  Bsp = Bsp
  HEAP_START = 8192
  HEAP_SIZE = 8193
  MemoryMaps <- Maps
  TABLES = 2
  Platforms <- Boards
  Machines <- Boots
  PERIOD = 20
  Lag = 1
  MAX = 1000
  Micros = {999}
  Millis = {9, 20}
  MaxIrqs = 12
CHECK_DEADLOCK FALSE
INVARIANTS HeapSound HeapFits TickSource Calibrated DelaysLast TicksCounted
PROPERTIES Settled BootEnds
