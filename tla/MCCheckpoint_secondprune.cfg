\* Two deliveries are processed and pruned one after the other.
CONSTANTS
  EventId = {e1, e2}
  EventName = {"increment"}
  Writer = {w1}
  Sends = 1
  Report = {"confirmed"}
  MaxBatch = 2
  UpdateHorizon = 0
  MaxCutoff = 4
SPECIFICATION FairSpec
PROPERTY IdentityNeverForgotten
