----------------------------- MODULE MCRecovery -----------------------------
(* The cases of recovery-cases-v1.json and recovery-namespace-vectors-v1.json *)
(* that differ in what the driver does for them.                             *)
EXTENDS Recovery, TLC

Record(scope, ns, mode, state, work) ==
  {[scope |-> scope, ns |-> ns, mode |-> mode, state |-> state, work |-> work]}

Strict == Record("q1", None, "strict", "quarantined", "ambiguous")
Takeover(state, work) == Record("d1", "n1", "standalone", state, work)
Clone(state, work) == Record("c1", "n2", "clone", state, work)
Moved(state) == Record("source", "n0", "relocation", state, "ambiguous")

Row(op, prior, succeeds, record, proof) ==
  [op |-> op, prior |-> prior, succeeds |-> succeeds, record |-> record, proof |-> proof,
   local |-> FALSE, ended |-> FALSE, reads |-> op = "guarded_action"]
Succeeds(op, prior, record) == Row(op, prior, TRUE, record, None)
Refuses(op, prior) == Row(op, prior, FALSE, {}, None)
Local(row) == [row EXCEPT !.local = TRUE]

MCCase ==
  "strict_quarantine" :> Succeeds("strict_restore", None, Strict) @@
  "quarantine_admit_denied" :> Refuses("guarded_action", "strict_quarantine") @@
  "standalone_takeover" :> Succeeds("standalone_takeover", None, Takeover("inactive", "ambiguous")) @@
  "standalone_equal_replay" :>
    [Succeeds("standalone_takeover", "standalone_inactive", Takeover("inactive", "ambiguous"))
       EXCEPT !.reads = TRUE] @@
  "standalone_resume" :> Succeeds("resume_takeover", "standalone_inactive", Takeover("active", "ambiguous")) @@
  "old_worker_matching_effect_rejected" :> Refuses("guarded_action", "standalone_resumed") @@
  "abandon_ambiguous_with_evidence" :>
    Succeeds("reconcile_work", "standalone_resumed", Takeover("active", "abandoned")) @@
  "clone_scope" :> Succeeds("clone_scope", None, Clone("inactive", "ambiguous")) @@
  "clone_cancel_pending" :> Succeeds("reconcile_work", "clone_inactive", Clone("inactive", "cancelled")) @@
  "clone_activate" :> Succeeds("activate_clone", "clone_resolved", Clone("active", "cancelled")) @@
  "standalone_terminated_namespace_reuse" :>
    [Refuses("standalone_takeover", "standalone_inactive") EXCEPT !.ended = TRUE] @@
  "local_prepare" :> Local(Row("prepare_transfer", None, TRUE, {}, "prepared")) @@
  "local_stage" :> Local(Row("stage_transfer", "local_prepare", TRUE, Moved("inactive"), "prepared")) @@
  "local_commit" :> Local(Row("commit_transfer", "local_stage", TRUE, Moved("inactive"), "committed")) @@
  "local_activate" :> Local(Row("activate_import", "local_commit", TRUE, Moved("active"), "committed")) @@
  "local_consumed_grant" :> Local(Refuses("commit_transfer", "local_commit")) @@
  "local_old_worker_fenced" :> Local(Refuses("guarded_action", "local_activate")) @@
  "local_in_doubt_source" :> Local(Refuses("prepare_transfer", None))

MCPlan ==
  <<"configure_scope", "allocate_scope", "create_root", "admit_event", "step_root",
    "append_host_journal", "claim_worker">>
=============================================================================
