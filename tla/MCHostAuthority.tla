--------------------------- MODULE MCHostAuthority ---------------------------
(* Two commits that compete, a worker's fence, the freeze and the retirement. *)
EXTENDS HostAuthority, TLC

MCOperation ==
  "commit-1" :> "guarded_commit" @@ "commit-race-2" :> "guarded_commit" @@
  "fence-1" :> "fence_worker" @@ "freeze-1" :> "freeze_scope" @@
  "retire-1" :> "prove_retirement"
=============================================================================
