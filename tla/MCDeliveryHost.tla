--------------------------- MODULE MCDeliveryHost ---------------------------
(* Instances of DeliveryHost for the model checker.                          *)
EXTENDS DeliveryHost, TLC

CONSTANTS s1, s2, c1, c2
TwoItems == <<s1, s2>>
Events == s1 :> "new_request" @@ s2 :> "received"
FirstChanges == s1 :> {c1, c2} @@ s2 :> {c1}
Symmetry == Permutations(Worker)
=============================================================================
