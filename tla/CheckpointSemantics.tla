------------------------ MODULE CheckpointSemantics -------------------------
(***************************************************************************)
(* The checks that validate_execution_checkpoint_v1_semantics and            *)
(* validate_aggregate_v1_semantics (scripts/validate_conformance.py) make on *)
(* one stored document, as predicates on the state of Checkpoint, and the    *)
(* promises of the durable-host profile that relate several documents.       *)
(* The transition functions and the validator are written independently, so  *)
(* each predicate relates two programs of the repository.                    *)
(***************************************************************************)
EXTENDS Checkpoint

Receipts == accepted \cup terminals


(* An event identity, or an acceptance number, found in one of the three     *)
(* places a delivery can be.                                                 *)
Live == ready
Done == terminals
Gone == tombs

DistinctIn(S) == \A x, y \in S :
  (x.env.id = y.env.id \/ x.acc = y.acc) => x = y

NoneShared(S, T) == \A x \in S, y \in T : x.env.id # y.env.id /\ x.acc # y.acc

-----------------------------------------------------------------------------
(* Type of every variable.                                                   *)

ReadyEntry == [env : Envelope, acc : Nat, queue : Nat]
AcceptanceReceipt == [seq : Nat, env : Envelope, acc : Nat, revision : Nat]
TerminalReceiptType ==
  [seq : Nat, env : Envelope, acc : Nat, queue : Nat, revision : Nat,
   disposition : Disposition, status : {"running", "completed", "faulted"},
   emissions : SUBSET EffectId]
EventTombstone ==
  [env : Envelope, acc : Nat, terminalSeq : Nat, disposition : Disposition]
PendingIntent ==
  [effect : EffectId, sequence : Nat, revision : Nat, status : PendingStatus]
SettledRecord ==
  [terminalSeq : Nat, effect : EffectId, sequence : Nat, revision : Nat,
   outcome : TerminalStatus]
EffectTombstone ==
  [terminalSeq : Nat, effect : EffectId, revision : Nat, outcome : TerminalStatus]

TypeOK ==
  /\ rootStatus \in {"absent", "retained", "tombstone"}
  /\ status \in {"running", "completed", "faulted"}
  /\ revision \in Nat
  /\ ready \subseteq ReadyEntry
  /\ nextAcc \in Nat /\ nextQueue \in Nat
  /\ nextStep \in Nat /\ nextOutput \in Nat
  /\ handledCount \in [EventId -> Nat]
  /\ accepted \subseteq AcceptanceReceipt
  /\ terminals \subseteq TerminalReceiptType
  /\ tombs \subseteq EventTombstone
  /\ nextReceipt \in Nat /\ cutoff \in Nat
  /\ pending \subseteq PendingIntent
  /\ settled \subseteq SettledRecord
  /\ effectTombs \in Seq(EffectTombstone)
  /\ nextTerminal \in Nat
  /\ current \subseteq Writer
  /\ acked \subseteq Envelope

-----------------------------------------------------------------------------
(* Checks of one document.                                                   *)

(* A delivery identity, and the acceptance number given to it, is in one     *)
(* place: the mailbox, a terminal receipt or a tombstone; numbers already    *)
(* handed out stay below the counters.                                       *)
EventLocatedOnce ==
  /\ DistinctIn(Live) /\ DistinctIn(Done) /\ DistinctIn(Gone)
  /\ NoneShared(Live, Done) /\ NoneShared(Live, Gone) /\ NoneShared(Done, Gone)
  /\ \A r \in Live \cup Done \cup Gone \cup accepted : r.acc < nextAcc
  /\ \A m \in Live \cup Done : m.queue < nextQueue

(* Acceptance receipts and the places of their deliveries agree: each live   *)
(* entry has its receipt, a terminal receipt follows the acceptance of the   *)
(* same envelope, a tombstone replaces it, and no acceptance is orphaned.    *)
AcceptanceEvidence ==
  /\ \A m \in Live : \E r \in accepted : r.env = m.env /\ r.acc = m.acc
  /\ \A t \in Done, r \in accepted :
       (r.env.id = t.env.id \/ r.acc = t.acc) =>
         /\ r.env = t.env /\ r.acc = t.acc
         /\ r.seq < t.seq /\ r.revision <= t.revision
  /\ NoneShared(accepted, Gone)
  /\ \A r \in accepted : \E x \in Live \cup Done : x.env = r.env /\ x.acc = r.acc

(* An effect is pending, terminal or compacted, never two of them; terminal  *)
(* numbers are used once; intents keep distinct output numbers.              *)
EffectLocatedOnce ==
  LET compacted == {effectTombs[i] : i \in DOMAIN effectTombs}
  IN /\ \A p, q \in pending \cup settled :
          (p.effect = q.effect \/ p.sequence = q.sequence) => p = q
     /\ \A s \in settled \cup compacted : s.terminalSeq < nextTerminal
     /\ \A s, t \in settled \cup compacted :
          (s.terminalSeq = t.terminalSeq \/ s.effect = t.effect) => s = t
     /\ \A p \in pending, t \in compacted : p.effect # t.effect
     /\ Cardinality(compacted) = Len(effectTombs)

(* Every effect that the outbox, or its history, still knows.                *)
AvailableEffects ==
  {p.effect : p \in pending} \cup {s.effect : s \in settled}
    \cup {effectTombs[i].effect : i \in DOMAIN effectTombs}

(* What a response is built from: the receipt or tombstone of an admitted    *)
(* delivery, the record of an effect that a report changed, ...              *)
AdmissionEvidence(id) ==
  {r \in accepted : r.env.id = id} \cup {t \in tombs : t.env.id = id}

OutboxEvidence(effect) == {r \in pending \cup settled : r.effect = effect}

(* ... the last terminal receipt, whichever delivery was asked for, ...      *)
LastTerminal == CHOOSE t \in terminals : \A u \in terminals : u.seq <= t.seq

(* ... with the intents of the emissions the receipt refers to, ...          *)
EmissionEvidence(t) ==
  [e \in t.emissions |-> {p \in pending : p.effect = e}]

(* ... and, for a repeated report, the dispositions kept of its effect.      *)
RetainedDispositions(effect) ==
  {p.status : p \in {p \in pending : p.effect = effect}}
    \cup {s.outcome : s \in {s \in settled : s.effect = effect}}
    \cup {effectTombs[i].outcome : i \in {i \in DOMAIN effectTombs :
                                            effectTombs[i].effect = effect}}

(* The requests that may be sent again: a step of a delivery in the mailbox  *)
(* or of one that has its receipt, with the numbers found there, ...         *)
StepRequests ==
  {[env |-> r.env, acc |-> r.acc, queue |-> r.queue] : r \in ready \cup terminals}

(* ... and the terminal report of an effect.                                 *)
ReportRequests == {[effect |-> s.effect, disposition |-> s.outcome] : s \in settled}

-----------------------------------------------------------------------------
(* Promises over several operations.                                         *)

(* The core runs a delivery at most once, whatever is redelivered, replayed, *)
(* lost or pruned in between.                                                *)
AtMostOnce == \A e \in EventId : handledCount[e] <= 1

(* What the broker was told to forget is still known to the document, so a   *)
(* late duplicate is answered and not processed again.                       *)
AckedRetained == acked \subseteq RetainedEnvelopes

(* A delivery identity, once retained, is retained in every later document   *)
(* with the same envelope: retention history is irreversible.                *)
IdentityNeverForgotten == [][RetainedEnvelopes \subseteq RetainedEnvelopes']_vars

(* A commit's own response finds its evidence: the last terminal receipt is  *)
(* that of the step just made, with one pending intent for every emission,   *)
(* and an effect just reported has one record.                               *)
CommitAnswered ==
  /\ \A t \in terminals' \ terminals :
       /\ t = LastTerminal'
       /\ \A e \in t.emissions : Cardinality(EmissionEvidence(t)[e])' = 1
  /\ \A r \in (pending \cup settled)' \ (pending \cup settled) :
       Cardinality(OutboxEvidence(r.effect))' = 1

(* A request whose response was lost is recognised when it is sent again,    *)
(* after any later commit, compaction and pruning included: a step by the    *)
(* numbers its delivery had when it was ready, a batch by the one receipt or *)
(* tombstone of each member, a terminal report by its disposition.           *)
RetryAnswered ==
  /\ \A q \in StepRequests : StepDisposition(q.env, q.acc, q.queue)' = "replayed"
  /\ \A id \in RetainedIds : Cardinality(AdmissionEvidence(id))' = 1
  /\ \A q \in ReportRequests : q.disposition \in RetainedDispositions(q.effect)'

(* Whatever a step does, its request can be answered from the document it    *)
(* leaves, and so can every request answered before.                         *)
RequestsAnswered == [][CommitAnswered /\ RetryAnswered]_vars

(* Accepted work is processed unless the root completes or faults before it; *)
(* a root that did keeps the rest of its mailbox and takes no further step.  *)
AcceptedEventuallyTerminal ==
  \A e \in EventId :
    (\E m \in ready : m.env.id = e)
      ~> (status # "running" \/ ~\E m \in ready : m.env.id = e)
=============================================================================
