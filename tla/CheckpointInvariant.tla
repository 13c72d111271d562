------------------------ MODULE CheckpointInvariant ------------------------
(***************************************************************************)
(* What every step of Checkpoint preserves while at most one pruning has     *)
(* taken place: the checks of CheckpointSemantics, and the facts about       *)
(* receipt numbers and the history of runs that make them inductive.         *)
(***************************************************************************)
EXTENDS CheckpointSemantics

(* Receipt numbers lie between the cutoff and the counter, and a number      *)
(* belongs to one receipt.                                                   *)
ReceiptNumbers ==
  /\ cutoff < nextReceipt
  /\ \A r \in accepted : cutoff < r.seq /\ r.seq < nextReceipt
  /\ \A t \in terminals : cutoff < t.seq /\ t.seq < nextReceipt
  /\ \A r, s \in accepted : r.seq = s.seq => r = s
  /\ \A t, u \in terminals : t.seq = u.seq => t = u
  /\ \A r \in accepted, t \in terminals : r.seq # t.seq

(* No receipt is from a later revision than the document's.                  *)
ReceiptsNotInFuture ==
  /\ \A r \in accepted : r.revision <= revision
  /\ \A t \in terminals : t.revision <= revision

(* A retained terminal receipt still has the acceptance it answers.          *)
TerminalsAccepted ==
  \A t \in terminals : \E r \in accepted : r.env = t.env /\ r.acc = t.acc

(* The core ran exactly the deliveries with a terminal receipt or tombstone. *)
HandledIsRecorded ==
  \A e \in EventId :
    handledCount[e] = IF \E t \in terminals \cup tombs : t.env.id = e THEN 1 ELSE 0

(* Event tombstones come from a pruning, which removes two receipts.         *)
PrunedOnce == (cutoff = 0 /\ tombs = {}) \/ cutoff >= 2

(* The bookkeeping of deliveries: the inductive invariant.                   *)
Bookkeeping ==
  /\ TypeOK
  /\ ReceiptNumbers
  /\ ReceiptsNotInFuture
  /\ EventLocatedOnce
  /\ AcceptanceEvidence
  /\ DistinctIn(accepted)
  /\ TerminalsAccepted
  /\ HandledIsRecorded
  /\ PrunedOnce
  /\ AckedRetained

-----------------------------------------------------------------------------
(* Effects.  What is retained of an effect is older than the counters: its   *)
(* output number, the number of its terminal report and the logical step     *)
(* that emitted it.                                                          *)
EffectNumbers ==
  /\ \A p \in pending \cup settled :
       p.sequence < nextOutput /\ p.effect.step < nextStep
  /\ \A s \in settled : s.terminalSeq < nextTerminal
  /\ \A i \in DOMAIN effectTombs : /\ effectTombs[i].terminalSeq < nextTerminal
                                   /\ effectTombs[i].effect.step < nextStep

(* EffectLocatedOnce, with the tombstones by their position.                 *)
EffectPlaces ==
  /\ \A p, q \in pending \cup settled :
       (p.effect = q.effect \/ p.sequence = q.sequence) => p = q
  /\ \A s, t \in settled :
       (s.terminalSeq = t.terminalSeq \/ s.effect = t.effect) => s = t
  /\ \A s \in settled, i \in DOMAIN effectTombs :
       /\ s.terminalSeq # effectTombs[i].terminalSeq
       /\ s.effect # effectTombs[i].effect
  /\ \A i, j \in DOMAIN effectTombs :
       (\/ effectTombs[i].terminalSeq = effectTombs[j].terminalSeq
        \/ effectTombs[i].effect = effectTombs[j].effect) => i = j
  /\ \A p \in pending, i \in DOMAIN effectTombs : p.effect # effectTombs[i].effect

(* The bookkeeping of effects, which no pruning touches.                     *)
OutboxBooks == TypeOK /\ EffectNumbers /\ EffectPlaces

(* Every effect has a cause that was processed, all effects of one cause come *)
(* from one logical step, and no action has more effects than its handler.   *)
EffectCauses ==
  /\ \A x \in AvailableEffects :
       /\ \E t \in terminals \cup tombs : t.env.id = x.cause
       /\ x.action \in 1..Sends
  /\ \A x, y \in AvailableEffects : x.cause = y.cause => x.step = y.step

(* The mapping of the document to the abstract ledger rests on all three.    *)
LedgerBooks == Bookkeeping /\ OutboxBooks /\ EffectCauses
=============================================================================
