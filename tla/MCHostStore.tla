---------------------------- MODULE MCHostStore ----------------------------
(* Instances of HostStore for the model checker.                             *)
EXTENDS HostStore, TLC

Symmetry == Permutations(Op) \cup Permutations(Source) \cup Permutations(Invocation)
              \cup Permutations(Process)
=============================================================================
