SPECIFICATION Spec
CONSTANTS
  Depth = 2
  b1 = b1
  b2 = b2
  Buffers = {b1, b2}
  Bindings <- AnyBindings
  NoJob = NoJob
  MaxFlushes = 3
INVARIANT QuarantineHolds
CHECK_DEADLOCK FALSE
