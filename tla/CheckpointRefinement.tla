------------------------ MODULE CheckpointRefinement ------------------------
(* The execution checkpoint implements the delivery ledger.                  *)
EXTENDS CheckpointSemantics

(* One event identity runs at most once, so the logical step in an effect    *)
(* identity adds nothing to its cause and action.                            *)
Promise(effect) == [cause |-> effect.cause, action |-> effect.action]

PhaseOf(e) ==
  IF \E m \in ready : m.env.id = e THEN "owned"
  ELSE IF \E r \in terminals \cup tombs : r.env.id = e THEN "finished"
  ELSE "unknown"

Ledger == INSTANCE DeliveryLedger WITH
  Effect <- [cause : EventId, action : 1..Sends],
  phase <- [e \in EventId |-> PhaseOf(e)],
  promised <- {Promise(x) : x \in AvailableEffects},
  open <- {Promise(p.effect) : p \in pending},
  closed <- (rootStatus = "tombstone")

(* Every step of the checkpoint is a step of the ledger or leaves it as it   *)
(* is: replays, stale writers, lost responses, outbox reports, compaction    *)
(* and pruning are invisible to senders and destinations.                    *)
ImplementsLedger == Ledger!Spec
=============================================================================
