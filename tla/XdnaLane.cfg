INIT Init
NEXT Next
CONSTANTS
  Depth = 2
  b1 = b1
  b2 = b2
  Buffers = {b1, b2}
  Bindings <- AnyBindings
  NoJob = NoJob
  MaxFlushes = 3
SYMMETRY Symmetry
INVARIANTS
  
  CapacityIsExact
  PendingSlotsAreOwnedOnce
  GatesAreExact
  GatesGuardTheDevice
  WorkIsRetained
PROPERTIES
  LostLaneIsLeftAlone
CHECK_DEADLOCK FALSE
