\* Two sessions, two workers, three calls.
CONSTANTS
  Session = {s1, s2}
  Operation <- MCOperation
  Worker = {w1, w2}
  Participants = {"journal:journal-1"}
  Capability = {"guarded_commit", "freeze_scope", "fence_worker", "prove_retirement"}
  MaxCalls = 3
SPECIFICATION Spec
CHECK_DEADLOCK FALSE
INVARIANTS
  AppliedOnce
  FreezeCoversStorage
  FateStands
  OneLiveClaim
PROPERTY
  EveryCallEnds
