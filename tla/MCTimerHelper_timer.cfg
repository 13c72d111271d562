SPECIFICATION Spec
CONSTANTS
  Worker = {w1, w2}
  Due <- MCDue
  Start <- MCStart
  MinClock <- MCMinClock
  MaxClock = 4
  Lease = 1
  MaxFence = 3
  None = None
SYMMETRY Symmetry
CHECK_DEADLOCK FALSE
INVARIANTS
  NeverEarly
PROPERTIES
  ImplementsOnceTimer
