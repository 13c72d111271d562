--------------------------- MODULE MCCheckpoint ----------------------------
(* Instances of Checkpoint for the model checker.                            *)
EXTENDS CheckpointRefinement, CheckpointInvariant, TLC

Symmetry == Permutations(EventId) \cup Permutations(Writer)
=============================================================================
