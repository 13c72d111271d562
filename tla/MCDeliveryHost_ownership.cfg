CONSTANTS
  Worker = {w1, w2}
  s1 = s1
  s2 = s2
  c1 = c1
  c2 = c2
  Items <- TwoItems
  Event <- Events
  Content <- FirstChanges
  Effect = {e1}
  MaxCommit = 5
  MaxEpoch = 2
SPECIFICATION Spec
SYMMETRY Symmetry
INVARIANTS
  OneOwner
  FencedInOrder
  DecidedOnce
CHECK_DEADLOCK FALSE
