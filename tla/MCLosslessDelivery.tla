------------------------- MODULE MCLosslessDelivery -------------------------
(* Instances of LosslessDelivery for the model checker.                      *)
EXTENDS LosslessDelivery, TLC

Symmetry == Permutations(Op) \cup Permutations(Source) \cup Permutations(Process)
              \cup Permutations(AckProcess)
=============================================================================
