----------------------------- MODULE Checkpoint -----------------------------
(***************************************************************************)
(* The native schema-version-1 execution checkpoint: one root instance, the *)
(* durable document a host keeps for it, and the operations that rewrite     *)
(* the document.  The transition functions are those of                      *)
(* scripts/generate_execution_checkpoint_profile.py (admit, admit_batch,     *)
(* process, update_pending, terminalize, compact, prune, tombstone); the     *)
(* conditions under which a request commits, is replayed or is refused are   *)
(* those of validate_checkpoint_derivation and its helpers in                *)
(* scripts/validate_conformance.py.                                          *)
(*                                                                           *)
(* Abstractions.  A canonical digest is an injective image of what it seals, *)
(* so an envelope stands for its own digest and the pair (root, revision)    *)
(* for a checkpoint identity.  The lists that seal_aggregate sorts, or that  *)
(* only grow at the end under a growing counter, are sets whose elements     *)
(* carry that counter; the effect tombstones, which compact appends in the   *)
(* order of the requests, stay a sequence.  There is one runtime, the root.  *)
(***************************************************************************)
EXTENDS Naturals, Sequences, FiniteSets

CONSTANTS
  EventId,        \* delivery identities the senders use
  EventName,      \* the events of the bundle that are exercised
  Writer,         \* concurrent writers of the same stored checkpoint
  Sends,          \* external sends in the handler of "emit_outputs"
  Report,         \* terminal delivery reports the workers make
  MaxBatch,       \* bound: new members of one admission batch
  UpdateHorizon,  \* bound: pending outbox updates stop at this revision
  MaxCutoff       \* bound: no pruning beyond this receipt sequence

(* The handlers of the profile's machines: a count, an event no state        *)
(* handles, one the core rejects, a failing expression, a transition to a    *)
(* final state, and a handler whose actions are external sends.              *)
AllEventNames ==
  {"increment", "ignored", "reject", "fail", "complete", "emit_outputs"}

TerminalStatus == {"confirmed", "permanently_rejected", "operator_cancelled",
                   "discarded", "dead_lettered"}

ASSUME EventNameAssumption == EventName \subseteq AllEventNames
ASSUME SendsAssumption == Sends \in Nat
ASSUME ReportAssumption == Report \subseteq TerminalStatus
ASSUME BoundAssumption ==
  MaxBatch \in Nat /\ UpdateHorizon \in Nat /\ MaxCutoff \in Nat

Envelope == [id : EventId, event : EventName]

EffectId == [cause : EventId, step : Nat, action : Nat]

PendingStatus == {"not_attempted", "retryable_failure", "ambiguous"}

Disposition == {"handled", "unhandled", "rejected", "faulted"}

VARIABLES
  rootStatus,    \* "absent" before creation, then "retained" or "tombstone"
  status,        \* status of the root runtime
  revision,      \* checkpoint revision
  ready,         \* ready mailbox of the root runtime
  nextAcc,       \* next_acceptance_sequence
  nextQueue,     \* next_queue_sequence
  nextStep,      \* next_logical_step_sequence
  nextOutput,    \* next_output_sequence
  accepted,      \* retained acceptance receipts
  terminals,     \* retained event_terminal receipts
  tombs,         \* event_identity_tombstones
  nextReceipt,   \* next_operation_receipt_sequence
  cutoff,        \* pruned_through_receipt_sequence; 0 while nothing is pruned
  pending,       \* pending_outbox_intents
  settled,       \* terminal_outbox_records
  effectTombs,   \* outbox_effect_tombstones, in document order
  nextTerminal,  \* next_outbox_terminal_sequence
  current,       \* writers whose presented identity is the stored one
  acked,         \* deliveries the broker was told it may forget
  handledCount   \* history: how often the core ran each event id

rootVars   == <<rootStatus, status>>
mailVars   == <<ready, nextAcc, nextQueue>>
stepVars   == <<nextStep, nextOutput, handledCount>>
logVars    == <<accepted, terminals, tombs, nextReceipt, cutoff>>
outboxVars == <<pending, settled, effectTombs, nextTerminal>>
hostVars   == <<current, acked>>
vars == <<rootVars, revision, mailVars, stepVars, logVars, outboxVars, hostVars>>

-----------------------------------------------------------------------------
(* What the document still knows about a delivery identity.                  *)

(* Slip: the tombstones of pruned deliveries are not consulted.              *)
RetainedWithoutTombstones ==
  {r.env : r \in accepted} \cup {t.env : t \in terminals}
    \cup {m.env : m \in ready}

RetainedEnvelopes ==
  {r.env : r \in accepted} \cup {t.env : t \in terminals}
    \cup {t.env : t \in tombs} \cup {m.env : m \in ready}

RetainedIds == {e.id : e \in RetainedEnvelopes}

(* Equal retained identities replay and different ones conflict, before any  *)
(* comparison of revisions; an unknown member leaves the decision to CAS.    *)
(* Slip: digests are not compared, so a conflict is taken for a replay.      *)
AdmissionByIdOnly(members) ==
  IF \E m \in members : m.id \notin RetainedIds THEN "unknown" ELSE "replayed"

AdmissionDisposition(members) ==
  IF \E m \in members : m.id \notin RetainedIds THEN "unknown"
  ELSE IF members \subseteq RetainedEnvelopes THEN "replayed"
  ELSE "event_id_conflict"

(* New members are refused once the root can no longer process them.         *)
NewMembersAllowed == rootStatus = "retained" /\ status = "running"

Batches == UNION {[1..n -> Envelope] : n \in 1..MaxBatch}

(* Slip: new means absent from the mailbox, whatever was processed before.   *)
FreshForMailbox ==
  {b \in Batches :
     /\ \A i \in DOMAIN b : \A m \in ready : m.env.id # b[i].id
     /\ \A i, j \in DOMAIN b : b[i].id = b[j].id => i = j}

FreshBatches ==
  {b \in Batches :
     /\ \A i \in DOMAIN b : b[i].id \notin RetainedIds
     /\ \A i, j \in DOMAIN b : b[i].id = b[j].id => i = j}

-----------------------------------------------------------------------------
(* Optimistic concurrency: only the writer that presents the stored identity *)
(* commits; every commit advances the revision once and leaves all the other *)
(* views stale.  A response lost after the commit leaves the writer itself   *)
(* with a stale view.                                                        *)

Commit(w, answered) ==
  /\ w \in current
  /\ revision' = revision + 1
  /\ current' = IF answered THEN {w} ELSE {}

Load(w) ==
  /\ rootStatus # "absent"
  /\ w \notin current
  /\ current' = current \cup {w}
  /\ UNCHANGED <<rootVars, revision, mailVars, stepVars, logVars, outboxVars, acked>>

Create(w, answered) ==
  /\ rootStatus = "absent"
  /\ rootStatus' = "retained"
  /\ current' = IF answered THEN {w} ELSE {}
  /\ UNCHANGED <<status, revision, mailVars, stepVars, logVars, outboxVars, acked>>

-----------------------------------------------------------------------------
(* Admission.  The new members of a batch get consecutive acceptance, queue  *)
(* and receipt numbers in batch order, under one revision.  Members already  *)
(* retained with the same envelope take no number, whatever their position.  *)

(* Slips: one number for the whole batch; the number before the counter.     *)
EntriesShareNumber(fresh) ==
  {[env |-> fresh[i], acc |-> nextAcc, queue |-> nextQueue + (i - 1)] :
     i \in DOMAIN fresh}

EntriesBeforeCounter(fresh) ==
  {[env |-> fresh[i], acc |-> nextAcc - i, queue |-> nextQueue + (i - 1)] :
     i \in DOMAIN fresh}

AllocatedEntries(fresh) ==
  {[env |-> fresh[i], acc |-> nextAcc + (i - 1), queue |-> nextQueue + (i - 1)] :
     i \in DOMAIN fresh}

AllocatedReceipts(fresh) ==
  {[seq |-> nextReceipt + (i - 1), env |-> fresh[i], acc |-> nextAcc + (i - 1),
    revision |-> revision + 1] : i \in DOMAIN fresh}

Admit(w, fresh, repeats, answered) ==
  /\ NewMembersAllowed
  /\ fresh \in FreshBatches
  /\ repeats \subseteq RetainedEnvelopes
  /\ Commit(w, answered)
  /\ ready' = ready \cup AllocatedEntries(fresh)
  /\ nextAcc' = nextAcc + Len(fresh)
  /\ nextQueue' = nextQueue + Len(fresh)
  /\ accepted' = accepted \cup AllocatedReceipts(fresh)
  /\ nextReceipt' = nextReceipt + Len(fresh)
  /\ acked' = IF answered
              THEN acked \cup {fresh[i] : i \in DOMAIN fresh} \cup repeats
              ELSE acked
  /\ UNCHANGED <<rootVars, stepVars, terminals, tombs, cutoff, outboxVars>>

(* A batch of nothing but retained members is read-only at any revision and  *)
(* is acknowledged.  Its writer learns nothing about the stored revision.    *)
AdmitReplay(members) ==
  /\ rootStatus # "absent"
  /\ AdmissionDisposition(members) = "replayed"
  /\ acked' = acked \cup members
  /\ UNCHANGED <<rootVars, revision, mailVars, stepVars, logVars, outboxVars, current>>

-----------------------------------------------------------------------------
(* Processing pops the oldest ready entry and records its terminal receipt.  *)
(* A root that completed or faulted is not stepped (validate_conformance.py  *)
(* 3687-3723, invalid_instance_target): what its mailbox still holds stays.  *)

(* Slip: the comparison excludes the entry itself by strictness.             *)
StrictlyOldest(m) == \A other \in ready : m.queue < other.queue

Oldest(m) == \A other \in ready : m.queue <= other.queue

DispositionOf(event) ==
  CASE event = "ignored" -> "unhandled"
    [] event = "reject" -> "rejected"
    [] event = "fail" -> "faulted"
    [] OTHER -> "handled"

StatusAfter(event) ==
  CASE event = "complete" -> "completed"
    [] event = "fail" -> "faulted"
    [] OTHER -> status

StepAllocation(event) ==
  IF DispositionOf(event) = "unhandled" THEN nextStep ELSE nextStep + 1

SendCount(event) == IF event = "emit_outputs" THEN Sends ELSE 0

EmittedEffect(env, k) == [cause |-> env.id, step |-> nextStep, action |-> k]

(* Slip: the effects of every step are numbered from zero.                   *)
IntentsFromZero(env) ==
  {[effect |-> EmittedEffect(env, k), sequence |-> k - 1,
    revision |-> revision + 1, status |-> "not_attempted"] :
     k \in 1..SendCount(env.event)}

NewIntents(env) ==
  {[effect |-> EmittedEffect(env, k), sequence |-> nextOutput + (k - 1),
    revision |-> revision + 1, status |-> "not_attempted"] :
     k \in 1..SendCount(env.event)}

(* Slip: the receipt takes the queue number the next delivery will get.      *)
ReceiptWithNextQueue(m) ==
  [seq |-> nextReceipt, env |-> m.env, acc |-> m.acc, queue |-> nextQueue,
   revision |-> revision + 1, disposition |-> DispositionOf(m.env.event),
   status |-> StatusAfter(m.env.event),
   emissions |-> {EmittedEffect(m.env, k) : k \in 1..SendCount(m.env.event)}]

TerminalReceipt(m) ==
  [seq |-> nextReceipt, env |-> m.env, acc |-> m.acc, queue |-> m.queue,
   revision |-> revision + 1, disposition |-> DispositionOf(m.env.event),
   status |-> StatusAfter(m.env.event),
   emissions |-> {EmittedEffect(m.env, k) : k \in 1..SendCount(m.env.event)}]

Step(w, m, answered) ==
  /\ rootStatus = "retained" /\ status = "running"
  /\ m \in ready
  /\ Oldest(m)
  /\ Commit(w, answered)
  /\ ready' = ready \ {m}
  /\ nextStep' = StepAllocation(m.env.event)
  /\ status' = StatusAfter(m.env.event)
  /\ terminals' = terminals \cup {TerminalReceipt(m)}
  /\ nextReceipt' = nextReceipt + 1
  /\ pending' = pending \cup NewIntents(m.env)
  /\ nextOutput' = nextOutput + SendCount(m.env.event)
  /\ handledCount' = [handledCount EXCEPT ![m.env.id] = @ + 1]
  /\ UNCHANGED <<rootStatus, nextAcc, nextQueue, accepted, tombs, cutoff,
                 settled, effectTombs, nextTerminal, acked>>

(* The identity comparison made for a step request before its revision is    *)
(* compared: n is the acceptance number and q the queue number it names.     *)
StepDisposition(env, n, q) ==
  LET live == {m \in ready : m.env.id = env.id}
      done == {t \in terminals : t.env.id = env.id}
      gone == {t \in tombs : t.env.id = env.id}
  IN IF live \cup done \cup gone = {} THEN "unknown"
     ELSE IF \E r \in live \cup done \cup gone : r.env # env THEN "event_id_conflict"
     ELSE IF \/ \E m \in live : m.acc = n /\ m.queue = q
             \/ \E t \in done : t.acc = n /\ t.queue = q
             \/ \E t \in gone : t.acc = n
     THEN "replayed" ELSE "event_id_conflict"

-----------------------------------------------------------------------------
(* The outbox.  A worker reports what became of a pending intent; a terminal *)
(* report takes the intent out of the pending list and numbers it; a terminal*)
(* record is later replaced by an effect tombstone.  A report equal to the   *)
(* retained state is a replay and changes nothing.                           *)

Reported(p, report) ==
  [effect |-> p.effect, sequence |-> p.sequence, revision |-> revision + 1,
   status |-> report]

UpdateOutbox(w, p, report, answered) ==
  /\ revision < UpdateHorizon
  /\ p \in pending
  /\ report # p.status
  /\ Commit(w, answered)
  /\ pending' = (pending \ {p}) \cup {Reported(p, report)}
  /\ UNCHANGED <<rootVars, mailVars, stepVars, logVars, settled, effectTombs,
                 nextTerminal, acked>>

Terminalize(w, p, report, answered) ==
  /\ p \in pending
  /\ Commit(w, answered)
  /\ pending' = pending \ {p}
  /\ settled' = settled \cup
       {[terminalSeq |-> nextTerminal, effect |-> p.effect, sequence |-> p.sequence,
         revision |-> revision + 1, outcome |-> report]}
  /\ nextTerminal' = nextTerminal + 1
  /\ UNCHANGED <<rootVars, mailVars, stepVars, logVars, effectTombs, acked>>

Compact(w, s, answered) ==
  /\ s \in settled
  /\ Commit(w, answered)
  /\ settled' = settled \ {s}
  /\ effectTombs' = Append(effectTombs,
       [terminalSeq |-> s.terminalSeq, effect |-> s.effect,
        revision |-> s.revision, outcome |-> s.outcome])
  /\ UNCHANGED <<rootVars, mailVars, stepVars, logVars, pending, nextTerminal, acked>>

-----------------------------------------------------------------------------
(* Retention.  Pruning takes the two receipts that follow the creation       *)
(* receipt, an acceptance and a terminal one, drops every receipt up to the  *)
(* second and makes a tombstone of the two the only event tombstone.         *)

PruneTombstone(a, t) ==
  [env |-> t.env, acc |-> a.acc, terminalSeq |-> t.seq,
   disposition |-> t.disposition]

AfterCutoff(receipts, c) == {r \in receipts : r.seq > c}

Prune(w, a, t, answered) ==
  /\ a \in accepted /\ a.seq = cutoff + 1
  /\ t \in terminals /\ t.seq = cutoff + 2
  /\ t.seq <= MaxCutoff
  /\ Commit(w, answered)
  /\ cutoff' = t.seq
  /\ accepted' = AfterCutoff(accepted, t.seq)
  /\ terminals' = AfterCutoff(terminals, t.seq)
  /\ tombs' = {PruneTombstone(a, t)}
  /\ UNCHANGED <<rootVars, mailVars, stepVars, nextReceipt, outboxVars, acked>>

(* Slip: only one of the two kinds of owned work is looked at.               *)
OutboxDrained == pending = {}

Drained == ready = {} /\ pending = {}

Tombstone(w, answered) ==
  /\ rootStatus = "retained"
  /\ status \in {"completed", "faulted"}
  /\ Drained
  /\ Commit(w, answered)
  /\ rootStatus' = "tombstone"
  /\ UNCHANGED <<status, mailVars, stepVars, logVars, outboxVars, acked>>

-----------------------------------------------------------------------------

Init ==
  /\ rootStatus = "absent"
  /\ status = "running"
  /\ revision = 0
  /\ ready = {} /\ nextAcc = 0 /\ nextQueue = 0
  /\ nextStep = 1 /\ nextOutput = 0
  /\ handledCount = [e \in EventId |-> 0]
  /\ accepted = {} /\ terminals = {} /\ tombs = {}
  /\ nextReceipt = 1 /\ cutoff = 0
  /\ pending = {} /\ settled = {} /\ effectTombs = <<>> /\ nextTerminal = 0
  /\ current = {} /\ acked = {}

Next ==
  \/ \E w \in Writer : Load(w)
  \/ \E batch \in Batches : AdmitReplay({batch[i] : i \in DOMAIN batch})
  \/ \E w \in Writer, answered \in BOOLEAN :
       \/ Create(w, answered)
       \/ \E fresh \in FreshBatches, repeats \in SUBSET RetainedEnvelopes :
            Admit(w, fresh, repeats, answered)
       \/ \E m \in ready : Step(w, m, answered)
       \/ \E p \in pending, report \in PendingStatus \ {"not_attempted"} :
            UpdateOutbox(w, p, report, answered)
       \/ \E p \in pending, report \in Report :
            Terminalize(w, p, report, answered)
       \/ \E s \in settled : Compact(w, s, answered)
       \/ \E a \in accepted, t \in terminals : Prune(w, a, t, answered)
       \/ Tombstone(w, answered)

Spec == Init /\ [][Next]_vars

(* The host keeps reading the stored document and keeps processing ready     *)
(* work; a rejected writer reads again.  Nothing else is promised.           *)
Fairness ==
  /\ WF_vars(\E w \in Writer : Load(w))
  /\ WF_vars(\E w \in Writer, m \in ready, answered \in BOOLEAN : Step(w, m, answered))

FairSpec == Spec /\ Fairness
=============================================================================
