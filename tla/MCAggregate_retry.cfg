CONSTANTS
  t1 = t1
  t2 = t2
  p1 = p1
  p2 = p2
  p3 = p3
  a = a
  b = b
  c = c
  m = m
  n = n
  Definitions <- DefinitionsDef
  Chart <- ChartDef
  Capacity <- CapacityDef
  Removed <- RemovedDef
  Requests <- RequestsDef
  Plans <- PlansDef
  Operations = {m}
  MaxBatch = 2
  MaxAccepted = 3
  MaxMigrations = 1
SPECIFICATION MigrationSpec
INVARIANTS
  MaintenanceRetryReplayed
CHECK_DEADLOCK FALSE
