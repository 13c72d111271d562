\* Every case, with one wrong commit, one retry and one upgrade of the bridge.
CONSTANTS
  Case <- MCCase
  Tested = {"strict_quarantine", "standalone_equal_replay",
            "abandon_ambiguous_with_evidence", "clone_activate",
            "standalone_terminated_namespace_reuse", "quarantine_admit_denied",
            "local_consumed_grant", "local_old_worker_fenced", "local_in_doubt_source",
            "local_activate"}
  Plan <- MCPlan
  MaxDefects = 1
  MaxRetry = 1
  MaxBuild = 1
SPECIFICATION Spec
CHECK_DEADLOCK FALSE
INVARIANTS
  ActivationAfterRetirement
  FrozenSourceKept
  AppliedOnce
