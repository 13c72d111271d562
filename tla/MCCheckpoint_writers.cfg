\* Two writers race on roots that fault, complete and are tombstoned, and against
\* the abstract delivery ledger, and accepted work is processed all the same.
CONSTANTS
  EventId = {e1, e2}
  EventName = {"increment", "ignored", "fail", "complete", "reject", "emit_outputs"}
  Writer = {w1, w2}
  Sends = 1
  Report = {"confirmed"}
  MaxBatch = 2
  UpdateHorizon = 3
  MaxCutoff = 2
SPECIFICATION FairSpec
INVARIANTS
  EventLocatedOnce
  AtMostOnce
  TypeOK
  EffectLocatedOnce
PROPERTIES
  RequestsAnswered
  IdentityNeverForgotten
  ImplementsLedger
  AcceptedEventuallyTerminal
