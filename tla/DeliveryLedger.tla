--------------------------- MODULE DeliveryLedger ---------------------------
(***************************************************************************)
(* What a durable host promises its senders and its destinations, with       *)
(* nothing of the document that keeps the promise: a delivery is taken into  *)
(* ownership once, finished once, and hands over its effects in the step     *)
(* that finishes it; every effect is settled at most once; a closed ledger   *)
(* owes nothing and takes nothing.                                           *)
(***************************************************************************)
CONSTANTS
  EventId,   \* delivery identities
  Effect     \* effects, each a record with the cause it belongs to

VARIABLES
  phase,     \* per identity: "unknown", "owned" or "finished"
  promised,  \* effects handed over so far
  open,      \* promised effects without a terminal report
  closed     \* the ledger is closed for good

vars == <<phase, promised, open, closed>>

Init ==
  /\ phase = [e \in EventId |-> "unknown"]
  /\ promised = {}
  /\ open = {}
  /\ closed = FALSE

(* A batch is owned as a whole or not at all.                                *)
Accept(batch) ==
  /\ ~closed
  /\ batch # {}
  /\ \A e \in batch : phase[e] = "unknown"
  /\ phase' = [e \in EventId |-> IF e \in batch THEN "owned" ELSE phase[e]]
  /\ UNCHANGED <<promised, open, closed>>

Finish(e, effects) ==
  /\ ~closed
  /\ phase[e] = "owned"
  /\ effects \cap promised = {}
  /\ \A x \in effects : x.cause = e
  /\ phase' = [phase EXCEPT ![e] = "finished"]
  /\ promised' = promised \cup effects
  /\ open' = open \cup effects
  /\ UNCHANGED closed

Settle(x) ==
  /\ x \in open
  /\ open' = open \ {x}
  /\ UNCHANGED <<phase, promised, closed>>

Close ==
  /\ ~closed
  /\ open = {}
  /\ \A e \in EventId : phase[e] # "owned"
  /\ closed' = TRUE
  /\ UNCHANGED <<phase, promised, open>>

Next ==
  \/ \E batch \in SUBSET EventId : Accept(batch)
  \/ \E e \in EventId, effects \in SUBSET Effect : Finish(e, effects)
  \/ \E x \in Effect : Settle(x)
  \/ Close

Spec == Init /\ [][Next]_vars
=============================================================================
