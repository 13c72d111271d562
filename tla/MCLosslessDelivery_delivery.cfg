\* Two acknowledgements race over two source items while operations commit.
CONSTANTS
  Op = {o1, o2}
  Source = {s1, s2}
  Invocation = {}
  Fault = {}
  Process = {p1}
  AckProcess = {a1, a2}
  MaxStep = 1
  MaxAttempts = 2
  NoInvocation = NoInvocation
  NoOp = NoOp
SPECIFICATION Spec
SYMMETRY Symmetry
INVARIANTS
  AckedAfterTransfer
  AckedStaysHeld
  AckedOnce
