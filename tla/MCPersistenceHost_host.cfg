\* Two workers, every kind of delivery, one migration, one quarantine.
CONSTANTS
  Starts = {start, again}
  Pays = {full}
  Short = {}
  Commits = {write}
  Terminal = TRUE
  Worker = {w1, w2}
  Persisted = {write, again}
  Migrating = {write}
  Faulty = {again}
  MaxFaults = 1
  NoRequest = NoRequest
  NoWriter = NoWriter
SPECIFICATION FairSpec
CHECK_DEADLOCK FALSE
INVARIANTS
  EvidenceLinked
  TransactionWhole
  AcknowledgedStays
PROPERTIES
  EveryDeliveryAnswered
