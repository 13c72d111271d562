\* Two store processes at a time, with timers and cuts; no source item matters.
CONSTANTS
  Op = {o1, o2}
  Source = {}
  Invocation = {i1, i2}
  Fault = {"crash_before_commit", "crash_after_commit"}
  Process = {p1, p2}
  MaxStep = 1
  NoInvocation = NoInvocation
  NoOp = NoOp
SPECIFICATION StoreSpec
SYMMETRY Symmetry
INVARIANTS
  TimerJoined
  CutsTellFate
