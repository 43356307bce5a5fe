SPECIFICATION Spec
CONSTANTS
  Depth = 2
  b1 = b1
  b2 = b2
  Buffers = {b1, b2}
  Bindings = {{b1}, {b2}}
  NoJob = NoJob
  MaxFlushes = 2
PROPERTIES
  AcceptedWorkSettles
  DropReturns
CHECK_DEADLOCK FALSE
