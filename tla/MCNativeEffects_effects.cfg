\* Three attempts, two payloads, a lease of one reading of the clock.
CONSTANTS
  Payload = {p1, p2}
  Mapped = {"succeeded", "cancelled"}
  Lease = 1
  MaxFence = 3
  MaxTime = 2
  MaxRoute = 2
  MaxSubmit = 2
SPECIFICATION Spec
CHECK_DEADLOCK FALSE
INVARIANTS
  PairNeverTorn
  AdmittedOnce
  ActsOnce
PROPERTIES
  OutcomeReachesCore
