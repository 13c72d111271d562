------------------------ MODULE PersistenceHostProofs ------------------------
(***************************************************************************)
(* Theorems about SpawnedRuntimes and PersistenceHost, for any number of     *)
(* workers and of deliveries of every kind.                                  *)
(***************************************************************************)
EXTENDS PersistenceHost, SequenceTheorems, FiniteSetTheorems, TLAPS

-----------------------------------------------------------------------------
(* The type of a checkpoint.                                                 *)

Id == Deliveries \cup NativeId

Entry == [id : Id, acceptance : Nat, queue : Nat]

QueuedReference == [kind : {"internal_mailbox"}, id : NativeId, acceptance : Nat, queue : Nat]
EndedReference == [kind : {"internal_terminal"}, id : NativeId, acceptance : Nat, terminal : Nat]
EffectReference == [kind : {"external_outbox"}, effect : NativeId]
Reference == QueuedReference \cup EndedReference \cup EffectReference

(* A handler emits one event or one effect at most.                          *)
Emissions == {s \in Seq(Reference) : Len(s) <= 1}

CreationReceipt == [kind : {"creation"}, revision : Nat]
AcceptanceReceipt ==
  [kind : {"acceptance"}, id : Deliveries, revision : Nat, acceptance : Nat]
TerminalReceipt ==
  [kind : {"terminal"}, id : Id, revision : Nat, acceptance : Nat, queue : Nat,
   disposition : {"handled", "unhandled"}, status : {"running", "completed"},
   emissions : Emissions]
Receipt == CreationReceipt \cup AcceptanceReceipt \cup TerminalReceipt

Intent == [effect : NativeId, sequence : Nat, revision : Nat]
Audit == [source : {"source", "target"}, target : {"target"}, sourceRevision : Nat]

Checkpoint ==
  [revision : Nat, definition : {"source", "target"},
   state : {"idle", "checkout", "paid"}, status : {"running", "completed"},
   payment : {"absent", "running", "removed"},
   ready : [Runtimes -> Seq(Entry)],
   nextAcceptance : Nat, nextQueue : Nat, nextStep : Nat, nextOutput : Nat,
   receipts : Seq(Receipt), intents : Seq(Intent), audits : Seq(Audit)]

-----------------------------------------------------------------------------
(* The links of a checkpoint, receipt by receipt.                            *)

Admissions(c) == {i \in DOMAIN c.receipts : c.receipts[i].kind = "acceptance"}

Same(x, y) == x.id = y.id \/ x.acceptance = y.acceptance

(* A delivery is in one place, under numbers handed out before.              *)
Places(c) ==
  /\ \A i, j \in Ends(c) : Same(c.receipts[i], c.receipts[j]) => i = j
  /\ \A x, y \in Live(c) : Same(x, y) => x = y
  /\ \A x \in Live(c), i \in Ends(c) : ~Same(x, c.receipts[i])
  /\ \A x \in Live(c) : x.acceptance < c.nextAcceptance /\ x.queue < c.nextQueue
  /\ \A i \in Ends(c) : /\ c.receipts[i].acceptance < c.nextAcceptance
                        /\ c.receipts[i].queue < c.nextQueue

(* A mailbox is in the order of its queue numbers, which are above those of  *)
(* what its runtime has ended; a payment runtime holds one delivery.         *)
Ordered(c) ==
  /\ \A r \in Runtimes : \A k \in DOMAIN c.ready[r] : MailboxOf(c.ready[r][k].id) = r
  /\ \A r \in Runtimes : \A k, l \in DOMAIN c.ready[r] :
       k < l => c.ready[r][k].queue < c.ready[r][l].queue
  /\ \A x \in Live(c), i \in Ends(c) :
       MailboxOf(x.id) = MailboxOf(c.receipts[i].id) => c.receipts[i].queue < x.queue
  /\ \A i, j \in Ends(c) :
       i < j /\ MailboxOf(c.receipts[i].id) = MailboxOf(c.receipts[j].id)
         => c.receipts[i].queue < c.receipts[j].queue
  /\ Len(c.ready["payment"]) <= 1

(* A delivery of the host is accepted once, under the number it has where it *)
(* is, and is somewhere.                                                     *)
Accepts(c, x) ==
  \E i \in Admissions(c) : c.receipts[i].id = x.id /\ c.receipts[i].acceptance = x.acceptance

Somewhere(c, id) ==
  (\E x \in Live(c) : x.id = id) \/ (\E j \in Ends(c) : c.receipts[j].id = id)

Evidence(c) ==
  /\ \A i, j \in Admissions(c) : Same(c.receipts[i], c.receipts[j]) => i = j
  /\ \A i \in Admissions(c) : c.receipts[i].acceptance < c.nextAcceptance
  /\ \A x \in Live(c) : x.id \in Deliveries => Accepts(c, x)
  /\ \A j \in Ends(c) : c.receipts[j].id \in Deliveries => Accepts(c, c.receipts[j])
  /\ \A i \in Admissions(c) : Somewhere(c, c.receipts[i].id)

(* The receipts with an emission of one kind, and that emission.             *)
Emitting(c, kind) ==
  {i \in Ends(c) : c.receipts[i].emissions # <<>> /\ c.receipts[i].emissions[1].kind = kind}
Emission(c, i) == c.receipts[i].emissions[1]
Kinds == {"internal_mailbox", "internal_terminal", "external_outbox"}
Producing(c) == Emitting(c, "internal_mailbox") \cup Emitting(c, "internal_terminal")

(* A native event has one producer, which says where it is and came before   *)
(* it; the steps that gave identities are over.                              *)
ProducersKnown(c) ==
  /\ \A i, j \in Producing(c) : Emission(c, i).id = Emission(c, j).id => i = j
  /\ \A i \in Producing(c) : Emission(c, i).id.step < c.nextStep
  /\ \A x \in Live(c) : x.id \notin Deliveries =>
       \E i \in Emitting(c, "internal_mailbox") : Emission(c, i).id = x.id
  /\ \A j \in Ends(c) : c.receipts[j].id \notin Deliveries =>
       \E i \in Emitting(c, "internal_terminal") : Emission(c, i).id = c.receipts[j].id
  /\ \A i \in Emitting(c, "internal_mailbox") :
       \E x \in Live(c) : Emission(c, i) = [kind |-> "internal_mailbox", id |-> x.id,
                                            acceptance |-> x.acceptance, queue |-> x.queue]
  /\ \A i \in Emitting(c, "internal_terminal") :
       LET j == Emission(c, i).terminal
       IN /\ j \in Ends(c) /\ i < j
          /\ c.receipts[j].id = Emission(c, i).id
          /\ c.receipts[j].acceptance = Emission(c, i).acceptance

(* The effects that receipts name are those of the intents.                  *)
EffectsKnown(c) ==
  /\ \A i \in Emitting(c, "external_outbox") :
       \E k \in DOMAIN c.intents : c.intents[k].effect = Emission(c, i).effect
  /\ \A k \in DOMAIN c.intents :
       \E i \in Emitting(c, "external_outbox") : Emission(c, i).effect = c.intents[k].effect

(* Revisions grow from receipt to receipt.                                   *)
Dated(c) ==
  /\ \A i, j \in DOMAIN c.receipts : i < j => c.receipts[i].revision <= c.receipts[j].revision
  /\ \A i \in DOMAIN c.receipts : c.receipts[i].revision <= c.revision
  /\ \A k \in DOMAIN c.intents : c.intents[k].revision <= c.revision
  /\ \A k \in DOMAIN c.audits : c.audits[k].sourceRevision < c.revision

Linked(c) ==
  /\ c \in Checkpoint
  /\ Places(c) /\ Ordered(c) /\ Evidence(c) /\ ProducersKnown(c) /\ EffectsKnown(c)

-----------------------------------------------------------------------------
(* The host.                                                                 *)

Requests ==
  [kind : {"persist", "admit"}, id : Deliveries, expected : Nat, migrates : BOOLEAN]

RequestsMade ==
  \A d \in Deliveries : request[d] # NoRequest =>
    LET q == request[d] IN
      /\ q \in Requests /\ q.id = d
      /\ q.kind = (IF d \in Persisted THEN "persist" ELSE "admit")
      /\ q.migrates => d \in Migrating
      /\ q.expected <= store.checkpoint.revision
      /\ q.expected = store.checkpoint.revision => Presentable(store.checkpoint, d)

(* What a worker staged after reading the checkpoint that is still stored.   *)
StagedFrom(c, job) ==
  \/ /\ job.kind = "persist" /\ job.id \in Persisted
     /\ job.id \notin Rows("committed")
     /\ TargetRuns(c, job.id) /\ c.ready[MailboxOf(job.id)] = <<>>
     /\ \E m \in BOOLEAN : /\ m => job.id \in Migrating
                           /\ job.checkpoint = Combined(c, job.id, m)
  \/ /\ job.kind = "admit" /\ job.id \in Deliveries \ Persisted
     /\ ~AcceptedIn(c, job.id)
     /\ job.id \in Pays => c.ready["payment"] = <<>>
     /\ job.checkpoint = Admitted(c, job.id)
  \/ /\ job.kind = "step"
     /\ \E r \in Runtimes : Runnable(c, r) /\ job.checkpoint = Processed(c, r)

Staging ==
  \A w \in Worker : worker[w] # Idle =>
    /\ worker[w].read \in Nat /\ worker[w].read <= store.checkpoint.revision
    /\ ReadIsCurrent(w) => StagedFrom(store.checkpoint, worker[w])

HostTypeOK ==
  /\ TypeOK
  /\ store = [checkpoint |-> store.checkpoint, inbox |-> store.inbox, rows |-> store.rows,
              quarantine |-> store.quarantine]
  /\ DOMAIN request = Deliveries /\ DOMAIN worker = Worker

HostBooks ==
  /\ HostTypeOK
  /\ Linked(store.checkpoint) /\ Dated(store.checkpoint)
  /\ TransactionWhole /\ RequestsMade /\ Staging /\ AcknowledgedStays

-----------------------------------------------------------------------------
(* Lemmas about sequences and records.                                       *)

(* A sequence with an element at its end.                                    *)
LEMMA Appended ==
  ASSUME NEW S, NEW s \in Seq(S), NEW e \in S
  PROVE  /\ Append(s, e) \in Seq(S)
         /\ DOMAIN s = 1 .. Len(s) /\ Len(s) \in Nat
         /\ DOMAIN Append(s, e) = 1 .. Len(s) + 1
         /\ \A i \in DOMAIN s : Append(s, e)[i] = s[i]
         /\ Append(s, e)[Len(s) + 1] = e
         /\ Range(Append(s, e)) = Range(s) \cup {e}
<1>1. /\ Append(s, e) \in Seq(S) /\ Len(Append(s, e)) = Len(s) + 1
      /\ \A i \in 1 .. Len(s) : Append(s, e)[i] = s[i]
      /\ Append(s, e)[Len(s) + 1] = e
  BY AppendProperties
<1>2. DOMAIN s = 1 .. Len(s) /\ Len(s) \in Nat /\ DOMAIN Append(s, e) = 1 .. Len(s) + 1
  BY <1>1, LenProperties
<1>3. Range(Append(s, e)) = Range(s) \cup {e}
  <2>1. ASSUME NEW x \in Range(Append(s, e)) PROVE x \in Range(s) \cup {e}
    <3>1. PICK i \in 1 .. Len(s) + 1 : x = Append(s, e)[i]
      BY <1>2 DEF Range
    <3> QED
      BY <3>1, <1>1, <1>2 DEF Range
  <2>2. ASSUME NEW x \in Range(s) \cup {e} PROVE x \in Range(Append(s, e))
    <3>1. CASE x = e
      BY <3>1, <1>1, <1>2 DEF Range
    <3>2. CASE x \in Range(s)
      <4>1. PICK i \in 1 .. Len(s) : x = s[i]
        BY <3>2, <1>2 DEF Range
      <4> QED
        BY <4>1, <1>1, <1>2 DEF Range
    <3> QED
      BY <3>1, <3>2
  <2> QED
    BY <2>1, <2>2
<1> QED
  BY <1>1, <1>2, <1>3

(* A sequence without its first element.                                     *)
LEMMA Headed ==
  ASSUME NEW S, NEW s \in Seq(S), s # <<>>
  PROVE  /\ Tail(s) \in Seq(S) /\ Head(s) \in S
         /\ DOMAIN s = 1 .. Len(s) /\ Len(s) \in Nat /\ Len(s) > 0
         /\ Head(s) = s[1]
         /\ DOMAIN Tail(s) = 1 .. Len(s) - 1 /\ Len(Tail(s)) = Len(s) - 1
         /\ \A i \in DOMAIN Tail(s) : Tail(s)[i] = s[i + 1]
         /\ Range(s) = Range(Tail(s)) \cup {Head(s)}
<1>1. /\ Tail(s) \in Seq(S) /\ Head(s) \in S /\ Len(Tail(s)) = Len(s) - 1
      /\ \A i \in 1 .. Len(Tail(s)) : Tail(s)[i] = s[i + 1]
  BY HeadTailProperties
<1>2. /\ DOMAIN s = 1 .. Len(s) /\ Len(s) \in Nat /\ Len(s) > 0
      /\ DOMAIN Tail(s) = 1 .. Len(s) - 1
  BY <1>1, LenProperties, EmptySeq
<1>3. Head(s) = s[1]
  OBVIOUS
<1>4. ASSUME NEW x \in Range(s) PROVE x \in Range(Tail(s)) \cup {Head(s)}
  <2>1. PICK i \in 1 .. Len(s) : x = s[i]
    BY <1>2 DEF Range
  <2>2. CASE i = 1
    BY <2>1, <2>2, <1>3
  <2>3. CASE i # 1
    <3>1. i - 1 \in 1 .. Len(s) - 1 /\ Tail(s)[i - 1] = s[(i - 1) + 1] /\ (i - 1) + 1 = i
      BY <2>3, <1>1, <1>2
    <3> QED
      BY <3>1, <2>1, <1>2 DEF Range
  <2> QED
    BY <2>2, <2>3
<1>5. ASSUME NEW x \in Range(Tail(s)) \cup {Head(s)} PROVE x \in Range(s)
  <2>1. CASE x = Head(s)
    BY <2>1, <1>2, <1>3 DEF Range
  <2>2. CASE x \in Range(Tail(s))
    <3>1. PICK i \in 1 .. Len(s) - 1 : x = Tail(s)[i]
      BY <2>2, <1>2 DEF Range
    <3>2. x = s[i + 1] /\ i + 1 \in 1 .. Len(s)
      BY <3>1, <1>1, <1>2
    <3> QED
      BY <3>2, <1>2 DEF Range
  <2> QED
    BY <2>1, <2>2
<1> QED
  BY <1>1, <1>2, <1>3, <1>4, <1>5

(* The fields of a checkpoint, and a checkpoint from its fields.             *)
LEMMA CheckpointFields ==
  ASSUME NEW c \in Checkpoint
  PROVE  /\ c.revision \in Nat /\ c.definition \in {"source", "target"}
         /\ c.state \in {"idle", "checkout", "paid"} /\ c.status \in {"running", "completed"}
         /\ c.payment \in {"absent", "running", "removed"}
         /\ c.ready \in [Runtimes -> Seq(Entry)]
         /\ c.nextAcceptance \in Nat /\ c.nextQueue \in Nat
         /\ c.nextStep \in Nat /\ c.nextOutput \in Nat
         /\ c.receipts \in Seq(Receipt) /\ c.intents \in Seq(Intent) /\ c.audits \in Seq(Audit)
  BY DEF Checkpoint

LEMMA EntryFields ==
  ASSUME NEW x \in Entry
  PROVE  x.id \in Id /\ x.acceptance \in Nat /\ x.queue \in Nat
  BY DEF Entry

LEMMA ReceiptFields ==
  ASSUME NEW x \in Receipt
  PROVE  /\ x.kind \in {"creation", "acceptance", "terminal"} /\ x.revision \in Nat
         /\ x.kind = "acceptance" => /\ x \in AcceptanceReceipt
                                     /\ x.id \in Deliveries /\ x.acceptance \in Nat
         /\ x.kind = "terminal" => /\ x \in TerminalReceipt
                                   /\ x.id \in Id /\ x.acceptance \in Nat /\ x.queue \in Nat
                                   /\ x.emissions \in Seq(Reference) /\ Len(x.emissions) <= 1
  BY DEF Receipt, CreationReceipt, AcceptanceReceipt, TerminalReceipt, Emissions

(* The entries and receipts that operations add.                             *)
EntryOf(c, id) == [id |-> id, acceptance |-> c.nextAcceptance, queue |-> c.nextQueue]

AcceptanceOf(c, id) ==
  [kind |-> "acceptance", id |-> id, revision |-> c.revision + 1,
   acceptance |-> c.nextAcceptance]

TerminalOf(c, x, disposition, emissions) ==
  [kind |-> "terminal", id |-> x.id, revision |-> c.revision,
   acceptance |-> x.acceptance, queue |-> x.queue,
   disposition |-> disposition, status |-> c.status, emissions |-> emissions]

-----------------------------------------------------------------------------
(* What the operations make of a checkpoint.                                 *)

LEMMA EnqueuedFields ==
  ASSUME NEW c \in Checkpoint, NEW id \in Id
  PROVE  /\ Enqueued(c, id) \in Checkpoint
         /\ EntryOf(c, id) \in Entry
         /\ Enqueued(c, id).ready =
              [c.ready EXCEPT ![MailboxOf(id)] = Append(c.ready[MailboxOf(id)], EntryOf(c, id))]
         /\ Enqueued(c, id).nextAcceptance = c.nextAcceptance + 1
         /\ Enqueued(c, id).nextQueue = c.nextQueue + 1
         /\ Enqueued(c, id).receipts = c.receipts
         /\ Enqueued(c, id).intents = c.intents
         /\ Enqueued(c, id).audits = c.audits
         /\ Enqueued(c, id).revision = c.revision
         /\ Enqueued(c, id).nextStep = c.nextStep
<1> DEFINE ready == [c.ready EXCEPT ![MailboxOf(id)] =
                       Append(c.ready[MailboxOf(id)], EntryOf(c, id))]
           acceptance == c.nextAcceptance + 1
           queue == c.nextQueue + 1
<1>1. MailboxOf(id) \in Runtimes
  BY DEF MailboxOf, Runtimes
<1>2. EntryOf(c, id) \in Entry
  BY CheckpointFields DEF EntryOf, Entry
<1>3. Append(c.ready[MailboxOf(id)], EntryOf(c, id)) \in Seq(Entry)
  BY <1>1, <1>2, CheckpointFields, AppendProperties
<1>4. ready \in [Runtimes -> Seq(Entry)] /\ acceptance \in Nat /\ queue \in Nat
  BY <1>1, <1>3, CheckpointFields
<1>5. Enqueued(c, id) =
        [c EXCEPT !.ready = ready, !.nextAcceptance = acceptance, !.nextQueue = queue]
  BY DEF Enqueued, EntryOf
<1> HIDE DEF ready, acceptance, queue
<1>6. Enqueued(c, id) \in Checkpoint
  <2>1. \A rd \in [Runtimes -> Seq(Entry)], n \in Nat, m \in Nat :
          [c EXCEPT !.ready = rd, !.nextAcceptance = n, !.nextQueue = m] \in Checkpoint
    BY DEF Checkpoint
  <2>2. [c EXCEPT !.ready = ready, !.nextAcceptance = acceptance, !.nextQueue = queue]
          \in Checkpoint
    BY <2>1, <1>4
  <2> QED
    BY <2>2, <1>5
<1>7. /\ Enqueued(c, id).ready = ready
      /\ Enqueued(c, id).nextAcceptance = acceptance /\ Enqueued(c, id).nextQueue = queue
      /\ Enqueued(c, id).receipts = c.receipts /\ Enqueued(c, id).intents = c.intents
      /\ Enqueued(c, id).audits = c.audits /\ Enqueued(c, id).revision = c.revision
      /\ Enqueued(c, id).nextStep = c.nextStep
  BY <1>5 DEF Checkpoint
<1> QED
  BY <1>2, <1>6, <1>7 DEF ready, acceptance, queue

LEMMA AdmittedFields ==
  ASSUME NEW c \in Checkpoint, NEW id \in Deliveries
  PROVE  /\ Admitted(c, id) \in Checkpoint
         /\ EntryOf(c, id) \in Entry
         /\ Admitted(c, id).ready =
              [c.ready EXCEPT ![MailboxOf(id)] = Append(c.ready[MailboxOf(id)], EntryOf(c, id))]
         /\ Admitted(c, id).nextAcceptance = c.nextAcceptance + 1
         /\ Admitted(c, id).nextQueue = c.nextQueue + 1
         /\ AcceptanceOf(c, id) \in Receipt
         /\ Admitted(c, id).receipts = Append(c.receipts, AcceptanceOf(c, id))
         /\ Admitted(c, id).intents = c.intents
         /\ Admitted(c, id).audits = c.audits
         /\ Admitted(c, id).revision = c.revision + 1
         /\ Admitted(c, id).nextStep = c.nextStep
         /\ Admitted(c, id).state = c.state /\ Admitted(c, id).status = c.status
<1> DEFINE e == Enqueued(c, id)
           revision == c.revision + 1
           receipts == Append(c.receipts, AcceptanceOf(c, id))
<1>1. id \in Id
  BY DEF Id
<1>2. AcceptanceOf(c, id) \in Receipt
  BY CheckpointFields DEF AcceptanceOf, Receipt, AcceptanceReceipt
<1>3. revision \in Nat /\ receipts \in Seq(Receipt)
  BY <1>2, CheckpointFields, AppendProperties
<1>4. e \in Checkpoint /\ e.receipts = c.receipts /\ e.revision = c.revision
  BY <1>1, EnqueuedFields
<1>5. Admitted(c, id) = [e EXCEPT !.revision = revision, !.receipts = receipts]
  BY <1>4 DEF Admitted, AcceptanceOf
<1>6. e.state = c.state /\ e.status = c.status
  BY DEF Enqueued, Checkpoint
<1> HIDE DEF e, revision, receipts
<1>7. Admitted(c, id) \in Checkpoint
  <2>1. \A n \in Nat, rc \in Seq(Receipt) : [e EXCEPT !.revision = n, !.receipts = rc] \in Checkpoint
    BY <1>4 DEF Checkpoint
  <2> QED
    BY <2>1, <1>3, <1>5
<1>8. /\ Admitted(c, id).revision = revision /\ Admitted(c, id).receipts = receipts
      /\ Admitted(c, id).ready = e.ready /\ Admitted(c, id).nextAcceptance = e.nextAcceptance
      /\ Admitted(c, id).nextQueue = e.nextQueue /\ Admitted(c, id).intents = e.intents
      /\ Admitted(c, id).audits = e.audits /\ Admitted(c, id).nextStep = e.nextStep
      /\ Admitted(c, id).state = e.state /\ Admitted(c, id).status = e.status
  BY <1>4, <1>5 DEF Checkpoint
<1> QED
  BY <1>1, <1>2, <1>6, <1>7, <1>8, EnqueuedFields DEF e, revision, receipts

(* Taking the oldest entry of a mailbox, and the step it is taken by.        *)
LEMMA TakenFields ==
  ASSUME NEW c \in Checkpoint, NEW r \in Runtimes, c.ready[r] # <<>>
  PROVE  /\ Taken(c, r) \in Checkpoint
         /\ Taken(c, r).ready = [c.ready EXCEPT ![r] = Tail(c.ready[r])]
         /\ Taken(c, r).revision = c.revision + 1
         /\ Taken(c, r).nextAcceptance = c.nextAcceptance /\ Taken(c, r).nextQueue = c.nextQueue
         /\ Taken(c, r).nextStep = c.nextStep /\ Taken(c, r).nextOutput = c.nextOutput
         /\ Taken(c, r).receipts = c.receipts /\ Taken(c, r).intents = c.intents
         /\ Taken(c, r).audits = c.audits /\ Taken(c, r).status = c.status
<1> DEFINE ready == [c.ready EXCEPT ![r] = Tail(c.ready[r])]
           revision == c.revision + 1
<1>1. ready \in [Runtimes -> Seq(Entry)] /\ revision \in Nat
  BY CheckpointFields, Headed
<1>2. Taken(c, r) = [c EXCEPT !.ready = ready, !.revision = revision]
  BY DEF Taken
<1> HIDE DEF ready, revision
<1>3. Taken(c, r) \in Checkpoint
  <2>1. \A rd \in [Runtimes -> Seq(Entry)], n \in Nat :
          [c EXCEPT !.ready = rd, !.revision = n] \in Checkpoint
    BY DEF Checkpoint
  <2> QED
    BY <2>1, <1>1, <1>2
<1>4. /\ Taken(c, r).ready = ready /\ Taken(c, r).revision = revision
      /\ Taken(c, r).nextAcceptance = c.nextAcceptance /\ Taken(c, r).nextQueue = c.nextQueue
      /\ Taken(c, r).nextStep = c.nextStep /\ Taken(c, r).nextOutput = c.nextOutput
      /\ Taken(c, r).receipts = c.receipts /\ Taken(c, r).intents = c.intents
      /\ Taken(c, r).audits = c.audits /\ Taken(c, r).status = c.status
  BY <1>2 DEF Checkpoint
<1> QED
  BY <1>3, <1>4 DEF ready, revision

LEMMA SteppedFields ==
  ASSUME NEW c \in Checkpoint, NEW r \in Runtimes, c.ready[r] # <<>>
  PROVE  /\ Stepped(c, r) \in Checkpoint
         /\ Stepped(c, r).ready = [c.ready EXCEPT ![r] = Tail(c.ready[r])]
         /\ Stepped(c, r).revision = c.revision + 1
         /\ Stepped(c, r).nextAcceptance = c.nextAcceptance
         /\ Stepped(c, r).nextQueue = c.nextQueue
         /\ Stepped(c, r).nextStep = c.nextStep + 1 /\ Stepped(c, r).nextOutput = c.nextOutput
         /\ Stepped(c, r).receipts = c.receipts /\ Stepped(c, r).intents = c.intents
         /\ Stepped(c, r).audits = c.audits /\ Stepped(c, r).status = c.status
<1> DEFINE t == Taken(c, r)
           step == c.nextStep + 1
<1>1. t \in Checkpoint /\ t.nextStep = c.nextStep
  BY TakenFields
<1>2. Stepped(c, r) = [t EXCEPT !.nextStep = step] /\ step \in Nat
  BY <1>1, CheckpointFields DEF Stepped
<1> HIDE DEF t, step
<1>3. Stepped(c, r) \in Checkpoint
  <2>1. \A n \in Nat : [t EXCEPT !.nextStep = n] \in Checkpoint
    BY <1>1 DEF Checkpoint
  <2> QED
    BY <2>1, <1>1, <1>2
<1>4. /\ Stepped(c, r).nextStep = step /\ Stepped(c, r).ready = t.ready
      /\ Stepped(c, r).revision = t.revision
      /\ Stepped(c, r).nextAcceptance = t.nextAcceptance /\ Stepped(c, r).nextQueue = t.nextQueue
      /\ Stepped(c, r).nextOutput = t.nextOutput
      /\ Stepped(c, r).receipts = t.receipts /\ Stepped(c, r).intents = t.intents
      /\ Stepped(c, r).audits = t.audits /\ Stepped(c, r).status = t.status
  BY <1>1, <1>2 DEF Checkpoint
<1> QED
  BY <1>3, <1>4, TakenFields DEF t, step

LEMMA ConcludedFields ==
  ASSUME NEW c \in Checkpoint, NEW x \in Entry, NEW disposition \in {"handled", "unhandled"},
         NEW emissions \in Emissions
  PROVE  /\ TerminalOf(c, x, disposition, emissions) \in TerminalReceipt
         /\ Concluded(c, x, disposition, emissions) \in Checkpoint
         /\ Concluded(c, x, disposition, emissions).receipts =
              Append(c.receipts, TerminalOf(c, x, disposition, emissions))
         /\ Concluded(c, x, disposition, emissions).ready = c.ready
         /\ Concluded(c, x, disposition, emissions).revision = c.revision
         /\ Concluded(c, x, disposition, emissions).nextAcceptance = c.nextAcceptance
         /\ Concluded(c, x, disposition, emissions).nextQueue = c.nextQueue
         /\ Concluded(c, x, disposition, emissions).nextStep = c.nextStep
         /\ Concluded(c, x, disposition, emissions).intents = c.intents
         /\ Concluded(c, x, disposition, emissions).audits = c.audits
<1> DEFINE n == Concluded(c, x, disposition, emissions)
           receipt == TerminalOf(c, x, disposition, emissions)
           receipts == Append(c.receipts, receipt)
<1>1. receipt \in TerminalReceipt
  BY CheckpointFields, EntryFields DEF TerminalOf, TerminalReceipt
<1>2. receipts \in Seq(Receipt)
  BY <1>1, CheckpointFields, AppendProperties DEF Receipt
<1>3. n = [c EXCEPT !.receipts = receipts]
  BY DEF Concluded, TerminalOf
<1> HIDE DEF n, receipts, receipt
<1>4. n \in Checkpoint
  <2>1. \A rc \in Seq(Receipt) : [c EXCEPT !.receipts = rc] \in Checkpoint
    BY DEF Checkpoint
  <2> QED
    BY <2>1, <1>2, <1>3
<1>5. /\ n.receipts = receipts /\ n.ready = c.ready /\ n.revision = c.revision
      /\ n.nextAcceptance = c.nextAcceptance /\ n.nextQueue = c.nextQueue
      /\ n.nextStep = c.nextStep /\ n.intents = c.intents /\ n.audits = c.audits
  BY <1>3 DEF Checkpoint
<1> QED
  BY <1>1, <1>4, <1>5 DEF n, receipts, receipt

-----------------------------------------------------------------------------
(* Lemmas about the places of deliveries.                                    *)

(* A receipt that says of its delivery what another one said.                *)
Repeats(x, y) ==
  /\ y.kind = x.kind
  /\ x.kind = "acceptance" => y.id = x.id /\ y.acceptance = x.acceptance
  /\ x.kind = "terminal" => y.id = x.id /\ y.acceptance = x.acceptance /\ y.queue = x.queue

Follows(c, n) ==
  \A i \in DOMAIN c.receipts : /\ i \in DOMAIN n.receipts
                               /\ Repeats(c.receipts[i], n.receipts[i])

LEMMA ReceiptAt ==
  ASSUME NEW c \in Checkpoint
  PROVE  /\ DOMAIN c.receipts = 1 .. Len(c.receipts) /\ Len(c.receipts) \in Nat
         /\ \A i \in DOMAIN c.receipts : c.receipts[i] \in Receipt
         /\ Ends(c) \subseteq DOMAIN c.receipts /\ Admissions(c) \subseteq DOMAIN c.receipts
         /\ \A i \in Ends(c) : c.receipts[i] \in TerminalReceipt /\ c.receipts[i] \in Receipt
         /\ \A i \in Admissions(c) : c.receipts[i] \in AcceptanceReceipt
<1>1. c.receipts \in Seq(Receipt)
  BY CheckpointFields
<1>2. /\ DOMAIN c.receipts = 1 .. Len(c.receipts) /\ Len(c.receipts) \in Nat
      /\ \A i \in DOMAIN c.receipts : c.receipts[i] \in Receipt
  BY <1>1, LenProperties, ElementOfSeq
<1> QED
  BY <1>2, ReceiptFields DEF Ends, Admissions

LEMMA RecordAt ==
  ASSUME NEW c \in Checkpoint
  PROVE  /\ DOMAIN c.intents = 1 .. Len(c.intents) /\ Len(c.intents) \in Nat
         /\ \A k \in DOMAIN c.intents : c.intents[k] \in Intent
         /\ DOMAIN c.audits = 1 .. Len(c.audits) /\ Len(c.audits) \in Nat
         /\ \A k \in DOMAIN c.audits : c.audits[k] \in Audit
<1>1. c.intents \in Seq(Intent) /\ c.audits \in Seq(Audit)
  BY CheckpointFields
<1> QED
  BY <1>1, LenProperties, ElementOfSeq

LEMMA ReadyAt ==
  ASSUME NEW c \in Checkpoint, NEW r \in Runtimes
  PROVE  /\ DOMAIN c.ready[r] = 1 .. Len(c.ready[r]) /\ Len(c.ready[r]) \in Nat
         /\ c.ready[r] \in Seq(Entry)
         /\ \A k \in DOMAIN c.ready[r] : c.ready[r][k] \in Entry /\ c.ready[r][k] \in Live(c)
<1>1. c.ready[r] \in Seq(Entry)
  BY CheckpointFields
<1>2. /\ DOMAIN c.ready[r] = 1 .. Len(c.ready[r]) /\ Len(c.ready[r]) \in Nat
      /\ \A k \in DOMAIN c.ready[r] : c.ready[r][k] \in Entry
  BY <1>1, LenProperties, ElementOfSeq
<1> QED
  BY <1>1, <1>2 DEF Live, Range

LEMMA LiveEntry ==
  ASSUME NEW c \in Checkpoint, NEW x \in Live(c)
  PROVE  /\ x \in Entry
         /\ \E r \in Runtimes : \E k \in DOMAIN c.ready[r] : x = c.ready[r][k]
<1>1. PICK r \in Runtimes : x \in Range(c.ready[r])
  BY DEF Live
<1>2. PICK k \in DOMAIN c.ready[r] : x = c.ready[r][k]
  BY <1>1 DEF Range
<1> QED
  BY <1>1, <1>2, ReadyAt

LEMMA KeptEnds ==
  ASSUME NEW c \in Checkpoint, NEW n \in Checkpoint, Follows(c, n)
  PROVE  /\ Ends(c) \subseteq Ends(n) /\ Admissions(c) \subseteq Admissions(n)
         /\ Ends(n) \cap DOMAIN c.receipts = Ends(c)
         /\ Admissions(n) \cap DOMAIN c.receipts = Admissions(c)
         /\ \A i \in Ends(c) : /\ n.receipts[i].id = c.receipts[i].id
                               /\ n.receipts[i].acceptance = c.receipts[i].acceptance
                               /\ n.receipts[i].queue = c.receipts[i].queue
         /\ \A i \in Admissions(c) : /\ n.receipts[i].id = c.receipts[i].id
                                     /\ n.receipts[i].acceptance = c.receipts[i].acceptance
  BY DEF Follows, Repeats, Ends, Admissions

(* A new checkpoint with the same receipts, but for revisions and emissions, *)
(* and the same mailboxes.                                                   *)
LEMMA PlacesSame ==
  ASSUME NEW c \in Checkpoint, NEW n \in Checkpoint, Follows(c, n),
         DOMAIN n.receipts = DOMAIN c.receipts, n.ready = c.ready,
         n.nextAcceptance = c.nextAcceptance, n.nextQueue = c.nextQueue,
         Places(c), Ordered(c), Evidence(c)
  PROVE  /\ Places(n) /\ Ordered(n) /\ Evidence(n)
         /\ Ends(n) = Ends(c) /\ Live(n) = Live(c)
<1>1. Ends(n) = Ends(c) /\ Admissions(n) = Admissions(c) /\ Live(n) = Live(c)
  BY KeptEnds DEF Ends, Admissions, Live
<1>2. Places(n)
  BY <1>1, KeptEnds DEF Places, Same
<1>3. Ordered(n)
  BY <1>1, KeptEnds DEF Ordered
<1>4. Evidence(n)
  BY <1>1, KeptEnds DEF Evidence, Same, Accepts, Somewhere
<1> QED
  BY <1>1, <1>2, <1>3, <1>4

(* The oldest entry leaves its mailbox.                                      *)
LEMMA LiveTaken ==
  ASSUME NEW c \in Checkpoint, NEW n \in Checkpoint, NEW r \in Runtimes, c.ready[r] # <<>>,
         n.ready = [c.ready EXCEPT ![r] = Tail(c.ready[r])], Ordered(c)
  PROVE  /\ Head(c.ready[r]) \in Live(c) /\ MailboxOf(Head(c.ready[r]).id) = r
         /\ Live(n) = Live(c) \ {Head(c.ready[r])}
         /\ \A x \in Live(n) : MailboxOf(x.id) = r => Head(c.ready[r]).queue < x.queue
         /\ Len(n.ready["payment"]) <= 1
         /\ \A q \in Runtimes : \A k \in DOMAIN n.ready[q] : MailboxOf(n.ready[q][k].id) = q
         /\ \A q \in Runtimes : \A k, l \in DOMAIN n.ready[q] :
              k < l => n.ready[q][k].queue < n.ready[q][l].queue
<1> DEFINE s == c.ready[r]
           h == Head(s)
<1>1. s \in Seq(Entry)
  BY CheckpointFields
<1>2. /\ DOMAIN s = 1 .. Len(s) /\ Len(s) \in Nat /\ Len(s) > 0 /\ h = s[1]
      /\ DOMAIN Tail(s) = 1 .. Len(s) - 1 /\ Len(Tail(s)) = Len(s) - 1
      /\ \A i \in DOMAIN Tail(s) : Tail(s)[i] = s[i + 1]
      /\ Range(s) = Range(Tail(s)) \cup {h}
  BY <1>1, Headed
<1>3. c.ready \in [Runtimes -> Seq(Entry)] /\ n.ready[r] = Tail(s)
      /\ \A q \in Runtimes : q # r => n.ready[q] = c.ready[q]
  BY CheckpointFields
<1>4. h \in Live(c) /\ MailboxOf(h.id) = r
  BY <1>2 DEF Live, Ordered
<1>5. \A k, l \in DOMAIN Tail(s) : /\ k + 1 \in DOMAIN s /\ l + 1 \in DOMAIN s
                                   /\ k < l => k + 1 < l + 1
                                   /\ 1 < k + 1
  BY <1>2
<1>6. /\ \A k \in DOMAIN Tail(s) : MailboxOf(Tail(s)[k].id) = r /\ h.queue < Tail(s)[k].queue
      /\ \A k, l \in DOMAIN Tail(s) : k < l => Tail(s)[k].queue < Tail(s)[l].queue
  <2>1. /\ \A k \in DOMAIN s : MailboxOf(s[k].id) = r
        /\ \A k, l \in DOMAIN s : k < l => s[k].queue < s[l].queue
    BY DEF Ordered
  <2>2. 1 \in DOMAIN s
    BY <1>2
  <2> HIDE DEF s, h
  <2> QED
    BY <2>1, <2>2, <1>2, <1>5
<1>7. /\ \A q \in Runtimes : \A k \in DOMAIN n.ready[q] : MailboxOf(n.ready[q][k].id) = q
      /\ \A q \in Runtimes : \A k, l \in DOMAIN n.ready[q] :
              k < l => n.ready[q][k].queue < n.ready[q][l].queue
  BY <1>3, <1>6 DEF Ordered
<1>8. \A x \in Live(n) : MailboxOf(x.id) = r => h.queue < x.queue
  <2>1. SUFFICES ASSUME NEW x \in Live(n), MailboxOf(x.id) = r PROVE h.queue < x.queue
    OBVIOUS
  <2>2. PICK q \in Runtimes : \E k \in DOMAIN n.ready[q] : x = n.ready[q][k]
    BY LiveEntry
  <2>3. PICK k \in DOMAIN n.ready[q] : x = n.ready[q][k]
    BY <2>2
  <2>4. q = r
    BY <2>1, <2>3, <1>7
  <2> QED
    BY <2>3, <2>4, <1>3, <1>6
<1>9. h.queue \in Nat
  BY <1>1, <1>2, EntryFields, ElementOfSeq
<1>10. h \notin Live(n)
  BY <1>4, <1>8, <1>9
<1>11. Live(n) \cup {h} = Live(c)
  <2>1. \A q \in Runtimes : Range(n.ready[q]) = IF q = r THEN Range(Tail(s)) ELSE Range(c.ready[q])
    BY <1>3
  <2> HIDE DEF s, h
  <2>2. Live(n) \cup {h} \subseteq Live(c)
    BY <2>1, <1>2, <1>4 DEF Live, s
  <2>3. Live(c) \subseteq Live(n) \cup {h}
    BY <2>1, <1>2 DEF Live, s
  <2> QED
    BY <2>2, <2>3
<1>12. Len(n.ready["payment"]) <= 1
  <2>1. "payment" \in Runtimes /\ Len(c.ready["payment"]) <= 1
    BY DEF Ordered, Runtimes
  <2>2. CASE r = "payment"
    BY <2>1, <2>2, <1>2, <1>3
  <2>3. CASE r # "payment"
    BY <2>1, <2>3, <1>3
  <2> QED
    BY <2>2, <2>3
<1> QED
  BY <1>4, <1>7, <1>8, <1>10, <1>11, <1>12

(* ... and has its terminal receipt at the end.                              *)
Concludes(c, n, x) ==
  LET last == Len(c.receipts) + 1
  IN /\ Follows(c, n) /\ DOMAIN n.receipts = 1 .. last
     /\ n.receipts[last].kind = "terminal" /\ n.receipts[last].id = x.id
     /\ n.receipts[last].acceptance = x.acceptance /\ n.receipts[last].queue = x.queue

LEMMA EndsConcluded ==
  ASSUME NEW c \in Checkpoint, NEW n \in Checkpoint, NEW x, Concludes(c, n, x)
  PROVE  /\ Ends(n) = Ends(c) \cup {Len(c.receipts) + 1}
         /\ Len(c.receipts) + 1 \notin Ends(c)
         /\ Admissions(n) = Admissions(c)
<1>1. DOMAIN n.receipts = DOMAIN c.receipts \cup {Len(c.receipts) + 1}
      /\ Len(c.receipts) + 1 \notin DOMAIN c.receipts
  BY ReceiptAt DEF Concludes
<1>2. Ends(n) \cap DOMAIN c.receipts = Ends(c) /\ Admissions(n) \cap DOMAIN c.receipts = Admissions(c)
  BY KeptEnds DEF Concludes
<1>3. n.receipts[Len(c.receipts) + 1].kind = "terminal"
  BY DEF Concludes
<1> QED
  BY <1>1, <1>2, <1>3 DEF Ends, Admissions

LEMMA PlacesTaken ==
  ASSUME NEW c \in Checkpoint, NEW n \in Checkpoint, NEW r \in Runtimes, c.ready[r] # <<>>,
         n.ready = [c.ready EXCEPT ![r] = Tail(c.ready[r])],
         n.nextAcceptance = c.nextAcceptance, n.nextQueue = c.nextQueue,
         Concludes(c, n, Head(c.ready[r])),
         Places(c), Ordered(c), Evidence(c)
  PROVE  Places(n) /\ Ordered(n) /\ Evidence(n)
<1> DEFINE h == Head(c.ready[r])
           last == Len(c.receipts) + 1
<1>1. /\ h \in Live(c) /\ MailboxOf(h.id) = r
      /\ Live(n) = Live(c) \ {h}
      /\ \A x \in Live(n) : MailboxOf(x.id) = r => h.queue < x.queue
      /\ Len(n.ready["payment"]) <= 1
      /\ \A q \in Runtimes : \A k \in DOMAIN n.ready[q] : MailboxOf(n.ready[q][k].id) = q
      /\ \A q \in Runtimes : \A k, l \in DOMAIN n.ready[q] :
              k < l => n.ready[q][k].queue < n.ready[q][l].queue
  BY LiveTaken
<1>2. /\ Ends(n) = Ends(c) \cup {last} /\ last \notin Ends(c)
      /\ Admissions(n) = Admissions(c)
  BY EndsConcluded
<1>3. /\ \A i \in Ends(c) : /\ n.receipts[i].id = c.receipts[i].id
                            /\ n.receipts[i].acceptance = c.receipts[i].acceptance
                            /\ n.receipts[i].queue = c.receipts[i].queue
      /\ \A i \in Admissions(c) : /\ n.receipts[i].id = c.receipts[i].id
                                  /\ n.receipts[i].acceptance = c.receipts[i].acceptance
  BY KeptEnds DEF Concludes
<1>4. /\ n.receipts[last].id = h.id /\ n.receipts[last].acceptance = h.acceptance
      /\ n.receipts[last].queue = h.queue
  BY DEF Concludes
<1>5. \A i \in Ends(c) : i < last /\ i \in Nat
  BY ReceiptAt
<1> HIDE DEF h, last
<1>6. Places(n)
  BY <1>1, <1>2, <1>3, <1>4 DEF Places, Same
<1>7. Ordered(n)
  <2>1. \A x \in Live(n), i \in Ends(n) :
          MailboxOf(x.id) = MailboxOf(n.receipts[i].id) => n.receipts[i].queue < x.queue
    BY <1>1, <1>2, <1>3, <1>4 DEF Ordered
  <2>2. \A i, j \in Ends(n) :
          i < j /\ MailboxOf(n.receipts[i].id) = MailboxOf(n.receipts[j].id)
            => n.receipts[i].queue < n.receipts[j].queue
    <3>1. SUFFICES ASSUME NEW i \in Ends(n), NEW j \in Ends(n), i < j,
                          MailboxOf(n.receipts[i].id) = MailboxOf(n.receipts[j].id)
                   PROVE  n.receipts[i].queue < n.receipts[j].queue
      OBVIOUS
    <3>2. CASE j = last
      <4>1. i \in Ends(c)
        BY <3>1, <3>2, <1>2, ReceiptAt DEF last
      <4> QED
        BY <3>1, <3>2, <4>1, <1>1, <1>3, <1>4 DEF Ordered
    <3>3. CASE j # last
      <4>1. j \in Ends(c)
        BY <3>3, <1>2
      <4>2. i \in Ends(c)
        BY <4>1, <3>1, <1>2, <1>5, ReceiptAt DEF last
      <4> QED
        BY <3>1, <4>1, <4>2, <1>3 DEF Ordered
    <3> QED
      BY <3>2, <3>3
  <2> QED
    BY <2>1, <2>2, <1>1 DEF Ordered
<1>8. Evidence(n)
  <2>1. /\ \A i, j \in Admissions(n) : Same(n.receipts[i], n.receipts[j]) => i = j
        /\ \A i \in Admissions(n) : n.receipts[i].acceptance < n.nextAcceptance
    BY <1>2, <1>3 DEF Evidence, Same
  <2>2. /\ \A x \in Live(n) : x.id \in Deliveries => Accepts(n, x)
        /\ \A j \in Ends(n) : n.receipts[j].id \in Deliveries => Accepts(n, n.receipts[j])
    BY <1>1, <1>2, <1>3, <1>4 DEF Evidence, Accepts
  <2>3. \A i \in Admissions(n) : Somewhere(n, n.receipts[i].id)
    BY <1>1, <1>2, <1>3, <1>4 DEF Evidence, Somewhere
  <2> QED
    BY <2>1, <2>2, <2>3 DEF Evidence
<1> QED
  BY <1>6, <1>7, <1>8

(* An entry joins the mailbox of its runtime.                                *)
Enqueues(c, n, id) ==
  /\ n.ready = [c.ready EXCEPT ![MailboxOf(id)] =
                  Append(c.ready[MailboxOf(id)], EntryOf(c, id))]
  /\ n.nextAcceptance = c.nextAcceptance + 1 /\ n.nextQueue = c.nextQueue + 1
  /\ Follows(c, n) /\ Ends(n) = Ends(c)

LEMMA LiveEnqueued ==
  ASSUME NEW c \in Checkpoint, NEW n \in Checkpoint, NEW id \in Id, Enqueues(c, n, id),
         id \in Pays => c.ready["payment"] = <<>>,
         Places(c), Ordered(c)
  PROVE  /\ EntryOf(c, id) \in Entry
         /\ Live(n) = Live(c) \cup {EntryOf(c, id)}
         /\ Len(n.ready["payment"]) <= 1
         /\ \A q \in Runtimes : \A k \in DOMAIN n.ready[q] : MailboxOf(n.ready[q][k].id) = q
         /\ \A q \in Runtimes : \A k, l \in DOMAIN n.ready[q] :
              k < l => n.ready[q][k].queue < n.ready[q][l].queue
<1> DEFINE r == MailboxOf(id)
           s == c.ready[r]
           e == EntryOf(c, id)
<1>1. r \in Runtimes
  BY DEF MailboxOf, Runtimes
<1>2. s \in Seq(Entry) /\ e \in Entry /\ e.queue = c.nextQueue /\ e.id = id
  BY <1>1, CheckpointFields, EnqueuedFields DEF EntryOf
<1>3. /\ DOMAIN s = 1 .. Len(s) /\ Len(s) \in Nat
      /\ DOMAIN Append(s, e) = 1 .. Len(s) + 1
      /\ \A i \in DOMAIN s : Append(s, e)[i] = s[i]
      /\ Append(s, e)[Len(s) + 1] = e
      /\ Range(Append(s, e)) = Range(s) \cup {e}
  BY <1>2, Appended
<1>4. c.ready \in [Runtimes -> Seq(Entry)] /\ n.ready[r] = Append(s, e)
      /\ \A q \in Runtimes : q # r => n.ready[q] = c.ready[q]
  BY <1>1, CheckpointFields DEF Enqueues
<1>5. /\ \A k \in DOMAIN s : MailboxOf(s[k].id) = r /\ s[k].queue < c.nextQueue
      /\ \A k, l \in DOMAIN s : k < l => s[k].queue < s[l].queue
  BY <1>1, ReadyAt DEF Ordered, Places
<1>6. /\ \A k \in DOMAIN Append(s, e) : MailboxOf(Append(s, e)[k].id) = r
      /\ \A k, l \in DOMAIN Append(s, e) : k < l => Append(s, e)[k].queue < Append(s, e)[l].queue
  <2>1. MailboxOf(e.id) = r
    BY <1>2
  <2> HIDE DEF s, e
  <2>2. \A k \in DOMAIN Append(s, e) : k \in DOMAIN s \/ k = Len(s) + 1
    BY <1>3
  <2>3. \A k, l \in DOMAIN Append(s, e) : k < l => k \in DOMAIN s
    BY <1>3
  <2> QED
    BY <2>1, <2>2, <2>3, <1>2, <1>3, <1>5
<1>7. /\ \A q \in Runtimes : \A k \in DOMAIN n.ready[q] : MailboxOf(n.ready[q][k].id) = q
      /\ \A q \in Runtimes : \A k, l \in DOMAIN n.ready[q] :
              k < l => n.ready[q][k].queue < n.ready[q][l].queue
  BY <1>4, <1>6 DEF Ordered
<1>8. Live(n) = Live(c) \cup {e}
  <2>1. \A q \in Runtimes :
          Range(n.ready[q]) = IF q = r THEN Range(c.ready[r]) \cup {e} ELSE Range(c.ready[q])
    BY <1>3, <1>4
  <2> HIDE DEF s, e, r
  <2> QED
    BY <2>1, <1>1 DEF Live
<1>9. Len(n.ready["payment"]) <= 1
  <2>1. "payment" \in Runtimes /\ Len(c.ready["payment"]) <= 1
    BY DEF Ordered, Runtimes
  <2>2. CASE r = "payment"
    <3>1. id \in Pays
      BY <2>2 DEF MailboxOf
    <3>2. s = <<>>
      BY <2>2, <3>1
    <3>3. n.ready["payment"] = Append(<<>>, e)
      BY <2>2, <3>2, <1>4
    <3> QED
      BY <3>3
  <2>3. CASE r # "payment"
    BY <2>1, <2>3, <1>4
  <2> QED
    BY <2>2, <2>3
<1> QED
  BY <1>2, <1>7, <1>8, <1>9

LEMMA PlacesEnqueued ==
  ASSUME NEW c \in Checkpoint, NEW n \in Checkpoint, NEW id \in Id, Enqueues(c, n, id),
         id \in Pays => c.ready["payment"] = <<>>, ~Somewhere(c, id),
         Places(c), Ordered(c)
  PROVE  Places(n) /\ Ordered(n)
<1> DEFINE e == EntryOf(c, id)
<1>1. /\ Live(n) = Live(c) \cup {e} /\ Ends(n) = Ends(c)
      /\ Len(n.ready["payment"]) <= 1
      /\ \A q \in Runtimes : \A k \in DOMAIN n.ready[q] : MailboxOf(n.ready[q][k].id) = q
      /\ \A q \in Runtimes : \A k, l \in DOMAIN n.ready[q] :
              k < l => n.ready[q][k].queue < n.ready[q][l].queue
  <2>1. Ends(n) = Ends(c)
    BY DEF Enqueues
  <2> QED
    BY <2>1, LiveEnqueued
<1>2. e.id = id /\ e.acceptance = c.nextAcceptance /\ e.queue = c.nextQueue
  BY DEF EntryOf
<1>3. \A i \in Ends(c) : /\ n.receipts[i].id = c.receipts[i].id
                         /\ n.receipts[i].acceptance = c.receipts[i].acceptance
                         /\ n.receipts[i].queue = c.receipts[i].queue
  BY KeptEnds DEF Enqueues
<1>4. /\ n.nextAcceptance = c.nextAcceptance + 1 /\ n.nextQueue = c.nextQueue + 1
      /\ c.nextAcceptance \in Nat /\ c.nextQueue \in Nat
  BY CheckpointFields DEF Enqueues
<1>5. \A x \in Live(c) : /\ x.id # id /\ x.acceptance \in Nat /\ x.queue \in Nat
                         /\ x.acceptance < c.nextAcceptance /\ x.queue < c.nextQueue
  BY LiveEntry, EntryFields DEF Somewhere, Places
<1>6. \A i \in Ends(c) : /\ c.receipts[i].id # id
                         /\ c.receipts[i].acceptance \in Nat /\ c.receipts[i].queue \in Nat
                         /\ c.receipts[i].acceptance < c.nextAcceptance
                         /\ c.receipts[i].queue < c.nextQueue
  BY ReceiptAt, ReceiptFields DEF Somewhere, Places, Ends
<1> HIDE DEF e
<1>7. Places(n)
  <2>1. \A i, j \in Ends(n) : Same(n.receipts[i], n.receipts[j]) => i = j
    BY <1>1, <1>3 DEF Places, Same
  <2>2. \A x, y \in Live(n) : Same(x, y) => x = y
    BY <1>1, <1>2, <1>4, <1>5 DEF Places, Same
  <2>3. \A x \in Live(n), i \in Ends(n) : ~Same(x, n.receipts[i])
    BY <1>1, <1>2, <1>3, <1>4, <1>6 DEF Places, Same
  <2>4. \A x \in Live(n) : x.acceptance < n.nextAcceptance /\ x.queue < n.nextQueue
    BY <1>1, <1>2, <1>4, <1>5
  <2>5. \A i \in Ends(n) : /\ n.receipts[i].acceptance < n.nextAcceptance
                           /\ n.receipts[i].queue < n.nextQueue
    BY <1>1, <1>3, <1>4, <1>6
  <2> QED
    BY <2>1, <2>2, <2>3, <2>4, <2>5 DEF Places
<1>8. Ordered(n)
  <2>1. \A x \in Live(n), i \in Ends(n) :
          MailboxOf(x.id) = MailboxOf(n.receipts[i].id) => n.receipts[i].queue < x.queue
    BY <1>1, <1>2, <1>3, <1>6 DEF Ordered
  <2>2. \A i, j \in Ends(n) :
          i < j /\ MailboxOf(n.receipts[i].id) = MailboxOf(n.receipts[j].id)
            => n.receipts[i].queue < n.receipts[j].queue
    BY <1>1, <1>3 DEF Ordered
  <2> QED
    BY <2>1, <2>2, <1>1 DEF Ordered
<1> QED
  BY <1>7, <1>8

(* A native event has no acceptance.                                         *)
LEMMA EvidenceNative ==
  ASSUME NEW c \in Checkpoint, NEW n \in Checkpoint, Follows(c, n),
         Admissions(n) = Admissions(c), Ends(n) = Ends(c),
         n.nextAcceptance = c.nextAcceptance + 1,
         NEW e, Live(n) = Live(c) \cup {e}, e.id \notin Deliveries, Evidence(c)
  PROVE  Evidence(n)
<1>1. /\ \A i \in Ends(c) : /\ n.receipts[i].id = c.receipts[i].id
                            /\ n.receipts[i].acceptance = c.receipts[i].acceptance
      /\ \A i \in Admissions(c) : /\ n.receipts[i].id = c.receipts[i].id
                                  /\ n.receipts[i].acceptance = c.receipts[i].acceptance
  BY KeptEnds
<1>2. \A i \in Admissions(c) : c.receipts[i].acceptance \in Nat
  BY ReceiptAt, ReceiptFields DEF AcceptanceReceipt
<1>3. c.nextAcceptance \in Nat
  BY CheckpointFields
<1>4. /\ \A i, j \in Admissions(n) : Same(n.receipts[i], n.receipts[j]) => i = j
      /\ \A i \in Admissions(n) : n.receipts[i].acceptance < n.nextAcceptance
  BY <1>1, <1>2, <1>3 DEF Evidence, Same
<1>5. /\ \A x \in Live(n) : x.id \in Deliveries => Accepts(n, x)
      /\ \A j \in Ends(n) : n.receipts[j].id \in Deliveries => Accepts(n, n.receipts[j])
  BY <1>1 DEF Evidence, Accepts
<1>6. \A i \in Admissions(n) : Somewhere(n, n.receipts[i].id)
  BY <1>1 DEF Evidence, Somewhere
<1> QED
  BY <1>4, <1>5, <1>6 DEF Evidence

(* A delivery of the host has its acceptance at the end of the receipts.     *)
LEMMA EvidenceAdmitted ==
  ASSUME NEW c \in Checkpoint, NEW n \in Checkpoint, NEW d \in Deliveries, Follows(c, n),
         Admissions(n) = Admissions(c) \cup {Len(c.receipts) + 1}, Ends(n) = Ends(c),
         n.receipts[Len(c.receipts) + 1] = AcceptanceOf(c, d),
         n.nextAcceptance = c.nextAcceptance + 1,
         Live(n) = Live(c) \cup {EntryOf(c, d)}, ~AcceptedIn(c, d), Evidence(c)
  PROVE  Evidence(n)
<1> DEFINE last == Len(c.receipts) + 1
           e == EntryOf(c, d)
<1>1. /\ \A i \in Ends(c) : /\ n.receipts[i].id = c.receipts[i].id
                            /\ n.receipts[i].acceptance = c.receipts[i].acceptance
      /\ \A i \in Admissions(c) : /\ n.receipts[i].id = c.receipts[i].id
                                  /\ n.receipts[i].acceptance = c.receipts[i].acceptance
  BY KeptEnds
<1>2. \A i \in Admissions(c) : /\ c.receipts[i].acceptance \in Nat
                               /\ c.receipts[i].acceptance < c.nextAcceptance
                               /\ c.receipts[i].id # d
  BY ReceiptAt, ReceiptFields DEF AcceptanceReceipt, Evidence, AcceptedIn, Accepted, Admissions
<1>3. c.nextAcceptance \in Nat
  BY CheckpointFields
<1>4. /\ n.receipts[last].id = d /\ n.receipts[last].acceptance = c.nextAcceptance
      /\ e.id = d /\ e.acceptance = c.nextAcceptance
  BY DEF AcceptanceOf, EntryOf
<1> HIDE DEF last, e
<1>5. /\ \A i, j \in Admissions(n) : Same(n.receipts[i], n.receipts[j]) => i = j
      /\ \A i \in Admissions(n) : n.receipts[i].acceptance < n.nextAcceptance
  BY <1>1, <1>2, <1>3, <1>4 DEF Evidence, Same, last
<1>6. /\ \A x \in Live(n) : x.id \in Deliveries => Accepts(n, x)
      /\ \A j \in Ends(n) : n.receipts[j].id \in Deliveries => Accepts(n, n.receipts[j])
  BY <1>1, <1>4 DEF Evidence, Accepts, last, e
<1>7. \A i \in Admissions(n) : Somewhere(n, n.receipts[i].id)
  BY <1>1, <1>4 DEF Evidence, Somewhere, last, e
<1> QED
  BY <1>5, <1>6, <1>7 DEF Evidence

-----------------------------------------------------------------------------
(* Lemmas about the producers of native events, and about effects.           *)

LEMMA EmissionAt ==
  ASSUME NEW c \in Checkpoint
  PROVE  /\ \A i \in Ends(c) : c.receipts[i].emissions \in Emissions
         /\ \A i \in Emitting(c, "internal_mailbox") : Emission(c, i) \in QueuedReference
         /\ \A i \in Emitting(c, "internal_terminal") : Emission(c, i) \in EndedReference
         /\ \A i \in Emitting(c, "external_outbox") : Emission(c, i) \in EffectReference
         /\ \A i \in Producing(c) : /\ i \in Ends(c) /\ Emission(c, i).id \in NativeId
                                    /\ Emission(c, i).id.step \in Nat
                                    /\ Emission(c, i).id \notin Deliveries
<1>1. \A i \in Ends(c) : c.receipts[i].emissions \in Emissions
  BY ReceiptAt DEF TerminalReceipt
<1>2. \A i \in Ends(c) : c.receipts[i].emissions # <<>> => Emission(c, i) \in Reference
  BY <1>1, LenProperties, EmptySeq, ElementOfSeq DEF Emissions, Emission
<1>3. /\ \A i \in Emitting(c, "internal_mailbox") : Emission(c, i) \in QueuedReference
      /\ \A i \in Emitting(c, "internal_terminal") : Emission(c, i) \in EndedReference
      /\ \A i \in Emitting(c, "external_outbox") : Emission(c, i) \in EffectReference
  BY <1>2 DEF Emitting, Emission, Reference, QueuedReference, EndedReference, EffectReference
<1>4. \A i \in Producing(c) : i \in Ends(c) /\ Emission(c, i).id \in NativeId
  BY <1>3 DEF Producing, QueuedReference, EndedReference, Emitting
<1>5. \A x \in NativeId : x.step \in Nat /\ x \notin Deliveries
  BY IdentityAssumption DEF NativeId
<1> QED
  BY <1>1, <1>3, <1>4, <1>5

(* A new checkpoint with the same producers and the same native events.      *)
LEMMA ProducersSame ==
  ASSUME NEW c \in Checkpoint, NEW n \in Checkpoint, Follows(c, n),
         Emitting(n, "internal_mailbox") = Emitting(c, "internal_mailbox"),
         Emitting(n, "internal_terminal") = Emitting(c, "internal_terminal"),
         \A i \in Producing(c) : Emission(n, i) = Emission(c, i),
         n.nextStep >= c.nextStep,
         \A x \in Live(n) : x.id \notin Deliveries => x \in Live(c),
         \A x \in Live(c) : x.id \notin Deliveries => x \in Live(n),
         \A j \in Ends(n) \ Ends(c) : n.receipts[j].id \in Deliveries,
         ProducersKnown(c)
  PROVE  ProducersKnown(n)
<1>1. Ends(c) \subseteq Ends(n)
      /\ \A i \in Ends(c) : /\ n.receipts[i].id = c.receipts[i].id
                            /\ n.receipts[i].acceptance = c.receipts[i].acceptance
  BY KeptEnds
<1>2. Producing(n) = Producing(c)
  BY DEF Producing
<1>3. n.nextStep \in Nat /\ c.nextStep \in Nat
  BY CheckpointFields
<1>4. /\ \A i, j \in Producing(n) : Emission(n, i).id = Emission(n, j).id => i = j
      /\ \A i \in Producing(n) : Emission(n, i).id.step < n.nextStep
  BY <1>2, <1>3, EmissionAt DEF ProducersKnown
<1>5. \A x \in Live(n) : x.id \notin Deliveries =>
        \E i \in Emitting(n, "internal_mailbox") : Emission(n, i).id = x.id
  BY DEF ProducersKnown, Producing
<1>6. \A j \in Ends(n) : n.receipts[j].id \notin Deliveries =>
        \E i \in Emitting(n, "internal_terminal") : Emission(n, i).id = n.receipts[j].id
  BY <1>1 DEF ProducersKnown, Producing
<1>7. \A i \in Emitting(n, "internal_mailbox") :
        \E x \in Live(n) : Emission(n, i) = [kind |-> "internal_mailbox", id |-> x.id,
                                             acceptance |-> x.acceptance, queue |-> x.queue]
  <2>1. SUFFICES ASSUME NEW i \in Emitting(c, "internal_mailbox")
                 PROVE  \E x \in Live(n) :
                          Emission(n, i) = [kind |-> "internal_mailbox", id |-> x.id,
                                            acceptance |-> x.acceptance, queue |-> x.queue]
    OBVIOUS
  <2>2. i \in Producing(c) /\ Emission(n, i) = Emission(c, i)
    BY DEF Producing
  <2>3. PICK x \in Live(c) : Emission(c, i) = [kind |-> "internal_mailbox", id |-> x.id,
                                               acceptance |-> x.acceptance, queue |-> x.queue]
    BY DEF ProducersKnown
  <2>4. x.id \notin Deliveries
    BY <2>2, <2>3, EmissionAt
  <2> QED
    BY <2>2, <2>3, <2>4
<1>8. \A i \in Emitting(n, "internal_terminal") :
        LET j == Emission(n, i).terminal
        IN /\ j \in Ends(n) /\ i < j
           /\ n.receipts[j].id = Emission(n, i).id
           /\ n.receipts[j].acceptance = Emission(n, i).acceptance
  BY <1>1 DEF ProducersKnown, Producing
<1> QED
  BY <1>4, <1>5, <1>6, <1>7, <1>8 DEF ProducersKnown

(* A step that produces a native event: the entry h of a delivery makes room *)
(* for the entry of the event, which has a fresh identity.                   *)
LEMMA ProducersQueued ==
  ASSUME NEW c \in Checkpoint, NEW n \in Checkpoint, Follows(c, n),
         NEW done \in NativeId, done.step = c.nextStep,
         NEW h \in Live(c), h.id \in Deliveries, NEW last \in Ends(n),
         n.receipts[last].id \in Deliveries, Ends(n) = Ends(c) \cup {last},
         Emitting(n, "internal_mailbox") = Emitting(c, "internal_mailbox") \cup {last},
         Emitting(n, "internal_terminal") = Emitting(c, "internal_terminal"),
         last \notin Ends(c),
         \A i \in Producing(c) : Emission(n, i) = Emission(c, i),
         Emission(n, last) = [kind |-> "internal_mailbox", id |-> done,
                              acceptance |-> c.nextAcceptance, queue |-> c.nextQueue],
         n.nextStep = c.nextStep + 1,
         Live(n) = (Live(c) \ {h}) \cup {EntryOf(c, done)},
         ProducersKnown(c)
  PROVE  ProducersKnown(n)
<1> DEFINE e == EntryOf(c, done)
<1>1. \A i \in Ends(c) : /\ n.receipts[i].id = c.receipts[i].id
                         /\ n.receipts[i].acceptance = c.receipts[i].acceptance
  BY KeptEnds
<1>2. Producing(n) = Producing(c) \cup {last}
  BY DEF Producing
<1>3. n.nextStep \in Nat /\ c.nextStep \in Nat /\ Emission(n, last).id = done
  BY CheckpointFields
<1>4. \A i \in Producing(c) : /\ i \in Ends(c) /\ Emission(c, i).id.step \in Nat
                              /\ Emission(c, i).id.step < c.nextStep
                              /\ Emission(c, i).id \notin Deliveries
  BY EmissionAt DEF ProducersKnown
<1>5. /\ e.id = done /\ e.acceptance = c.nextAcceptance /\ e.queue = c.nextQueue
      /\ done \notin Deliveries
  BY IdentityAssumption DEF EntryOf
<1> HIDE DEF e
<1>6. \A i, j \in Producing(n) : Emission(n, i).id = Emission(n, j).id => i = j
  <2>1. \A i \in Producing(c) : Emission(n, i).id # done
    BY <1>3, <1>4
  <2> QED
    BY <2>1, <1>2, <1>3 DEF ProducersKnown
<1>7. \A i \in Producing(n) : Emission(n, i).id.step < n.nextStep
  BY <1>2, <1>3, <1>4
<1>8. \A x \in Live(n) : x.id \notin Deliveries =>
        \E i \in Emitting(n, "internal_mailbox") : Emission(n, i).id = x.id
  BY <1>3, <1>5 DEF ProducersKnown, Producing, e
<1>9. \A j \in Ends(n) : n.receipts[j].id \notin Deliveries =>
        \E i \in Emitting(n, "internal_terminal") : Emission(n, i).id = n.receipts[j].id
  BY <1>1 DEF ProducersKnown, Producing
<1>10. \A i \in Emitting(n, "internal_mailbox") :
        \E x \in Live(n) : Emission(n, i) = [kind |-> "internal_mailbox", id |-> x.id,
                                             acceptance |-> x.acceptance, queue |-> x.queue]
  <2>1. SUFFICES ASSUME NEW i \in Emitting(n, "internal_mailbox")
                 PROVE  \E x \in Live(n) :
                          Emission(n, i) = [kind |-> "internal_mailbox", id |-> x.id,
                                            acceptance |-> x.acceptance, queue |-> x.queue]
    OBVIOUS
  <2>2. CASE i = last
    BY <2>2, <1>5 DEF e
  <2>3. CASE i # last
    <3>1. i \in Emitting(c, "internal_mailbox") /\ i \in Producing(c)
          /\ Emission(n, i) = Emission(c, i)
      BY <2>3 DEF Producing
    <3>2. PICK x \in Live(c) : Emission(c, i) = [kind |-> "internal_mailbox", id |-> x.id,
                                                 acceptance |-> x.acceptance, queue |-> x.queue]
      BY <3>1 DEF ProducersKnown
    <3>3. x # h
      BY <3>1, <3>2, <1>4
    <3> QED
      BY <3>1, <3>2, <3>3
  <2> QED
    BY <2>2, <2>3
<1>11. \A i \in Emitting(n, "internal_terminal") :
        LET j == Emission(n, i).terminal
        IN /\ j \in Ends(n) /\ i < j
           /\ n.receipts[j].id = Emission(n, i).id
           /\ n.receipts[j].acceptance = Emission(n, i).acceptance
  BY <1>1 DEF ProducersKnown, Producing
<1> QED
  BY <1>6, <1>7, <1>8, <1>9, <1>10, <1>11 DEF ProducersKnown

(* A step that ends a native event: the reference of its producer moves.     *)
LEMMA ProducersEnded ==
  ASSUME NEW c \in Checkpoint, NEW n \in Checkpoint, Follows(c, n),
         NEW h \in Live(c), h.id \notin Deliveries, NEW last \in Ends(n),
         NEW by \in Emitting(c, "internal_mailbox"), Emission(c, by).id = h.id, by < last,
         n.receipts[last].id = h.id, n.receipts[last].acceptance = h.acceptance,
         Ends(n) = Ends(c) \cup {last}, last \notin Ends(c),
         Emitting(n, "internal_mailbox") = Emitting(c, "internal_mailbox") \ {by},
         Emitting(n, "internal_terminal") = Emitting(c, "internal_terminal") \cup {by},
         \A i \in Producing(c) \ {by} : Emission(n, i) = Emission(c, i),
         Emission(n, by) = [kind |-> "internal_terminal", id |-> h.id,
                            acceptance |-> h.acceptance, terminal |-> last],
         n.nextStep = c.nextStep + 1,
         Live(n) = Live(c) \ {h}, \A x \in Live(c) : x.id = h.id => x = h,
         ProducersKnown(c)
  PROVE  ProducersKnown(n)
<1>1. \A i \in Ends(c) : /\ n.receipts[i].id = c.receipts[i].id
                         /\ n.receipts[i].acceptance = c.receipts[i].acceptance
  BY KeptEnds
<1>2. Producing(n) = Producing(c) /\ by \in Producing(c)
  BY DEF Producing
<1>3. n.nextStep \in Nat /\ c.nextStep \in Nat /\ Emission(n, by).id = Emission(c, by).id
  BY CheckpointFields
<1>4. by \notin Emitting(c, "internal_terminal")
  BY DEF Emitting
<1>5. \A i \in Producing(c) : Emission(n, i).id = Emission(c, i).id
  BY <1>3
<1>6. /\ \A i, j \in Producing(n) : Emission(n, i).id = Emission(n, j).id => i = j
      /\ \A i \in Producing(n) : Emission(n, i).id.step < n.nextStep
  BY <1>2, <1>3, <1>5, EmissionAt DEF ProducersKnown
<1>7. \A x \in Live(n) : x.id \notin Deliveries =>
        \E i \in Emitting(n, "internal_mailbox") : Emission(n, i).id = x.id
  BY <1>5 DEF ProducersKnown, Producing
<1>8. \A j \in Ends(n) : n.receipts[j].id \notin Deliveries =>
        \E i \in Emitting(n, "internal_terminal") : Emission(n, i).id = n.receipts[j].id
  BY <1>1, <1>3, <1>5 DEF ProducersKnown, Producing
<1>9. \A i \in Emitting(n, "internal_mailbox") :
        \E x \in Live(n) : Emission(n, i) = [kind |-> "internal_mailbox", id |-> x.id,
                                             acceptance |-> x.acceptance, queue |-> x.queue]
  <2>1. SUFFICES ASSUME NEW i \in Emitting(n, "internal_mailbox")
                 PROVE  \E x \in Live(n) :
                          Emission(n, i) = [kind |-> "internal_mailbox", id |-> x.id,
                                            acceptance |-> x.acceptance, queue |-> x.queue]
    OBVIOUS
  <2>2. i \in Emitting(c, "internal_mailbox") /\ i \in Producing(c) /\ i # by
    BY DEF Producing
  <2>3. PICK x \in Live(c) : Emission(c, i) = [kind |-> "internal_mailbox", id |-> x.id,
                                               acceptance |-> x.acceptance, queue |-> x.queue]
    BY <2>2 DEF ProducersKnown
  <2>4. x # h
    BY <2>2, <2>3, <1>2 DEF ProducersKnown
  <2> QED
    BY <2>2, <2>3, <2>4
<1>10. \A i \in Emitting(n, "internal_terminal") :
        LET j == Emission(n, i).terminal
        IN /\ j \in Ends(n) /\ i < j
           /\ n.receipts[j].id = Emission(n, i).id
           /\ n.receipts[j].acceptance = Emission(n, i).acceptance
  <2>1. SUFFICES ASSUME NEW i \in Emitting(n, "internal_terminal")
                 PROVE  LET j == Emission(n, i).terminal
                        IN /\ j \in Ends(n) /\ i < j
                           /\ n.receipts[j].id = Emission(n, i).id
                           /\ n.receipts[j].acceptance = Emission(n, i).acceptance
    OBVIOUS
  <2>2. CASE i = by
    BY <2>2
  <2>3. CASE i # by
    BY <2>3, <1>1 DEF ProducersKnown, Producing
  <2> QED
    BY <2>2, <2>3
<1> QED
  BY <1>6, <1>7, <1>8, <1>9, <1>10 DEF ProducersKnown

LEMMA EffectsSame ==
  ASSUME NEW c \in Checkpoint, NEW n \in Checkpoint,
         Emitting(n, "external_outbox") = Emitting(c, "external_outbox"),
         \A i \in Emitting(c, "external_outbox") : Emission(n, i) = Emission(c, i),
         DOMAIN n.intents = DOMAIN c.intents,
         \A k \in DOMAIN c.intents : n.intents[k].effect = c.intents[k].effect,
         EffectsKnown(c)
  PROVE  EffectsKnown(n)
  BY DEF EffectsKnown

(* A step with one effect, whose intent joins the others.                    *)
LEMMA EffectsJoined ==
  ASSUME NEW c \in Checkpoint, NEW n \in Checkpoint, NEW last, NEW intent \in Intent,
         Emitting(n, "external_outbox") = Emitting(c, "external_outbox") \cup {last},
         \A i \in Emitting(c, "external_outbox") : Emission(n, i) = Emission(c, i),
         Emission(n, last).effect = intent.effect,
         n.intents = Append(c.intents, intent), EffectsKnown(c)
  PROVE  EffectsKnown(n)
<1>1. /\ DOMAIN c.intents = 1 .. Len(c.intents) /\ Len(c.intents) \in Nat
      /\ DOMAIN n.intents = 1 .. Len(c.intents) + 1
      /\ \A k \in DOMAIN c.intents : n.intents[k] = c.intents[k]
      /\ n.intents[Len(c.intents) + 1] = intent
  BY CheckpointFields, Appended
<1>2. DOMAIN n.intents = DOMAIN c.intents \cup {Len(c.intents) + 1}
  BY <1>1
<1>3. \A i \in Emitting(n, "external_outbox") :
        \E k \in DOMAIN n.intents : n.intents[k].effect = Emission(n, i).effect
  BY <1>1, <1>2 DEF EffectsKnown
<1>4. \A k \in DOMAIN n.intents :
        \E i \in Emitting(n, "external_outbox") : Emission(n, i).effect = n.intents[k].effect
  BY <1>1, <1>2 DEF EffectsKnown
<1> QED
  BY <1>3, <1>4 DEF EffectsKnown

LEMMA EmittingSame ==
  ASSUME NEW c \in Checkpoint, NEW n \in Checkpoint, Ends(n) = Ends(c),
         \A i \in Ends(c) : n.receipts[i].emissions = c.receipts[i].emissions
  PROVE  /\ \A kind \in Kinds : Emitting(n, kind) = Emitting(c, kind)
         /\ \A i \in Ends(c) : Emission(n, i) = Emission(c, i)
  BY DEF Emitting, Emission

LEMMA EmittingGrown ==
  ASSUME NEW c \in Checkpoint, NEW n \in Checkpoint, NEW last \in Ends(n),
         Ends(n) = Ends(c) \cup {last}, last \notin Ends(c),
         \A i \in Ends(c) : n.receipts[i].emissions = c.receipts[i].emissions
  PROVE  /\ \A kind \in Kinds :
              Emitting(n, kind) = Emitting(c, kind) \cup
                {i \in {last} : n.receipts[i].emissions # <<>> /\ n.receipts[i].emissions[1].kind = kind}
         /\ \A i \in Ends(c) : Emission(n, i) = Emission(c, i)
  BY DEF Emitting, Emission

-----------------------------------------------------------------------------
(* A step: what it adds to the checkpoint, and that it keeps the links.      *)

StepOf(c, n, h) ==
  LET last == Len(c.receipts) + 1
  IN /\ n.revision = c.revision + 1
     /\ Concludes(c, n, h)
     /\ \A i \in DOMAIN c.receipts : n.receipts[i].revision = c.receipts[i].revision
     /\ n.receipts[last].revision = n.revision
     /\ n.audits = c.audits
     /\ \A k \in DOMAIN c.intents : k \in DOMAIN n.intents /\ n.intents[k] = c.intents[k]
     /\ \A k \in DOMAIN n.intents \ DOMAIN c.intents :
          /\ n.intents[k].revision = n.revision
          /\ n.intents[k].effect.cause = h.id /\ h.id \in Commits
     /\ h.id \in Commits => DOMAIN n.intents \ DOMAIN c.intents # {}

LEMMA AppendedReceipt ==
  ASSUME NEW c \in Checkpoint, NEW n \in Checkpoint, NEW receipt \in Receipt,
         n.receipts = Append(c.receipts, receipt)
  PROVE  /\ DOMAIN n.receipts = 1 .. Len(c.receipts) + 1
         /\ \A i \in DOMAIN c.receipts : i \in DOMAIN n.receipts /\ n.receipts[i] = c.receipts[i]
         /\ n.receipts[Len(c.receipts) + 1] = receipt
         /\ Len(c.receipts) + 1 \in DOMAIN n.receipts
         /\ Follows(c, n)
<1>1. c.receipts \in Seq(Receipt)
  BY CheckpointFields
<1>2. /\ DOMAIN c.receipts = 1 .. Len(c.receipts) /\ Len(c.receipts) \in Nat
      /\ DOMAIN n.receipts = 1 .. Len(c.receipts) + 1
      /\ \A i \in DOMAIN c.receipts : n.receipts[i] = c.receipts[i]
      /\ n.receipts[Len(c.receipts) + 1] = receipt
  BY <1>1, Appended
<1>3. /\ \A i \in DOMAIN c.receipts : i \in DOMAIN n.receipts
      /\ Len(c.receipts) + 1 \in DOMAIN n.receipts
  BY <1>2
<1> QED
  BY <1>2, <1>3 DEF Follows, Repeats

(* The receipt of a step.                                                    *)
ReceiptOf(receipt, h, revision) ==
  /\ receipt \in TerminalReceipt /\ receipt.revision = revision
  /\ receipt.id = h.id /\ receipt.acceptance = h.acceptance /\ receipt.queue = h.queue

(* A step for a delivery of the host that queues nothing.                    *)
LEMMA StepPlain ==
  ASSUME NEW c \in Checkpoint, NEW n \in Checkpoint, NEW r \in Runtimes, c.ready[r] # <<>>,
         Head(c.ready[r]).id \in Deliveries,
         n.ready = [c.ready EXCEPT ![r] = Tail(c.ready[r])],
         n.nextAcceptance = c.nextAcceptance, n.nextQueue = c.nextQueue,
         n.nextStep >= c.nextStep,
         NEW receipt \in Receipt, ReceiptOf(receipt, Head(c.ready[r]), c.revision + 1),
         n.receipts = Append(c.receipts, receipt),
         receipt.emissions = <<>> \/ receipt.emissions[1].kind = "external_outbox",
         Linked(c)
  PROVE  /\ Places(n) /\ Ordered(n) /\ Evidence(n) /\ ProducersKnown(n)
         /\ Concludes(c, n, Head(c.ready[r]))
         /\ Emitting(n, "external_outbox") = Emitting(c, "external_outbox") \cup
              {i \in {Len(c.receipts) + 1} : receipt.emissions # <<>>}
         /\ \A i \in Emitting(c, "external_outbox") : Emission(n, i) = Emission(c, i)
<1> DEFINE h == Head(c.ready[r])
           last == Len(c.receipts) + 1
<1>1. /\ DOMAIN n.receipts = 1 .. last
      /\ \A i \in DOMAIN c.receipts : i \in DOMAIN n.receipts /\ n.receipts[i] = c.receipts[i]
      /\ n.receipts[last] = receipt /\ last \in DOMAIN n.receipts
      /\ Follows(c, n)
  BY AppendedReceipt
<1>2. receipt.kind = "terminal"
  BY DEF ReceiptOf, TerminalReceipt
<1>3. Concludes(c, n, h)
  BY <1>1, <1>2 DEF Concludes, ReceiptOf
<1>4. Places(n) /\ Ordered(n) /\ Evidence(n)
  BY <1>3, PlacesTaken DEF Linked
<1>5. Ends(n) = Ends(c) \cup {last} /\ last \notin Ends(c)
  BY <1>3, EndsConcluded
<1>6. Live(n) = Live(c) \ {h}
  BY LiveTaken DEF Linked
<1>7. \A i \in Ends(c) : n.receipts[i].emissions = c.receipts[i].emissions
  BY <1>1 DEF Ends
<1>8. last \in Ends(n)
  BY <1>5
<1>9. /\ \A kind \in Kinds :
           Emitting(n, kind) = Emitting(c, kind) \cup
             {i \in {last} : n.receipts[i].emissions # <<>> /\ n.receipts[i].emissions[1].kind = kind}
      /\ \A i \in Ends(c) : Emission(n, i) = Emission(c, i)
  BY <1>5, <1>7, <1>8, EmittingGrown
<1>10. /\ Emitting(n, "internal_mailbox") = Emitting(c, "internal_mailbox")
       /\ Emitting(n, "internal_terminal") = Emitting(c, "internal_terminal")
       /\ Emitting(n, "external_outbox") = Emitting(c, "external_outbox") \cup
            {i \in {last} : receipt.emissions # <<>>}
  <2>1. \A kind \in Kinds :
          Emitting(n, kind) = Emitting(c, kind) \cup
            {i \in {last} : receipt.emissions # <<>> /\ receipt.emissions[1].kind = kind}
    BY <1>1, <1>9
  <2> DEFINE mail == receipt.emissions[1].kind
  <2>2. receipt.emissions # <<>> => mail = "external_outbox"
    OBVIOUS
  <2> HIDE DEF h, last, mail
  <2>3. \A kind \in Kinds :
          Emitting(n, kind) = Emitting(c, kind) \cup
            {i \in {last} : receipt.emissions # <<>> /\ mail = kind}
    BY <2>1 DEF mail
  <2>4. Emitting(n, "internal_mailbox") = Emitting(c, "internal_mailbox") \cup
          {i \in {last} : receipt.emissions # <<>> /\ mail = "internal_mailbox"}
    BY <2>3 DEF Kinds
  <2>5. Emitting(n, "internal_terminal") = Emitting(c, "internal_terminal") \cup
          {i \in {last} : receipt.emissions # <<>> /\ mail = "internal_terminal"}
    BY <2>3 DEF Kinds
  <2>6. Emitting(n, "external_outbox") = Emitting(c, "external_outbox") \cup
          {i \in {last} : receipt.emissions # <<>> /\ mail = "external_outbox"}
    BY <2>3 DEF Kinds
  <2> QED
    BY <2>2, <2>4, <2>5, <2>6
<1>11. \A i \in Producing(c) : Emission(n, i) = Emission(c, i)
  BY <1>9, EmissionAt
<1>12. \A i \in Emitting(c, "external_outbox") : Emission(n, i) = Emission(c, i)
  BY <1>9 DEF Emitting
<1>13. \A j \in Ends(n) \ Ends(c) : n.receipts[j].id \in Deliveries
  BY <1>1, <1>5 DEF ReceiptOf
<1>14. /\ \A x \in Live(n) : x.id \notin Deliveries => x \in Live(c)
       /\ \A x \in Live(c) : x.id \notin Deliveries => x \in Live(n)
  BY <1>6
<1>15. ProducersKnown(c)
  BY DEF Linked
<1>16. ProducersKnown(n)
  BY <1>1, <1>10, <1>11, <1>13, <1>14, <1>15, ProducersSame
<1> QED
  BY <1>3, <1>4, <1>10, <1>12, <1>16

LEMMA StepSilent ==
  ASSUME NEW c \in Checkpoint, NEW n \in Checkpoint, NEW r \in Runtimes, c.ready[r] # <<>>,
         Head(c.ready[r]).id \in Deliveries \ Commits,
         n.ready = [c.ready EXCEPT ![r] = Tail(c.ready[r])],
         n.nextAcceptance = c.nextAcceptance, n.nextQueue = c.nextQueue,
         n.nextStep >= c.nextStep, n.revision = c.revision + 1,
         n.audits = c.audits, n.intents = c.intents,
         NEW receipt \in Receipt, ReceiptOf(receipt, Head(c.ready[r]), c.revision + 1),
         n.receipts = Append(c.receipts, receipt), receipt.emissions = <<>>,
         Linked(c)
  PROVE  Linked(n) /\ StepOf(c, n, Head(c.ready[r]))
<1>1. /\ Places(n) /\ Ordered(n) /\ Evidence(n) /\ ProducersKnown(n)
      /\ Concludes(c, n, Head(c.ready[r]))
      /\ Emitting(n, "external_outbox") = Emitting(c, "external_outbox")
      /\ \A i \in Emitting(c, "external_outbox") : Emission(n, i) = Emission(c, i)
  <2>1. /\ Head(c.ready[r]).id \in Deliveries
        /\ receipt.emissions = <<>> \/ receipt.emissions[1].kind = "external_outbox"
    OBVIOUS
  <2>2. /\ Places(n) /\ Ordered(n) /\ Evidence(n) /\ ProducersKnown(n)
        /\ Concludes(c, n, Head(c.ready[r]))
        /\ Emitting(n, "external_outbox") = Emitting(c, "external_outbox") \cup
             {i \in {Len(c.receipts) + 1} : receipt.emissions # <<>>}
        /\ \A i \in Emitting(c, "external_outbox") : Emission(n, i) = Emission(c, i)
    BY <2>1, StepPlain
  <2> QED
    BY <2>2
<1>2. EffectsKnown(n)
  BY <1>1, EffectsSame DEF Linked
<1>3. /\ \A i \in DOMAIN c.receipts : n.receipts[i] = c.receipts[i]
      /\ n.receipts[Len(c.receipts) + 1] = receipt
  BY AppendedReceipt
<1>4. StepOf(c, n, Head(c.ready[r]))
  BY <1>1, <1>3 DEF StepOf, ReceiptOf
<1> QED
  BY <1>1, <1>2, <1>4 DEF Linked

(* The receipt that ends the entry h in the checkpoint t.                    *)
LEMMA TerminalFields ==
  ASSUME NEW t \in Checkpoint, NEW h \in Entry, NEW disposition \in {"handled", "unhandled"},
         NEW emissions \in Emissions
  PROVE  /\ TerminalOf(t, h, disposition, emissions) \in TerminalReceipt
         /\ TerminalOf(t, h, disposition, emissions) \in Receipt
         /\ TerminalOf(t, h, disposition, emissions).emissions = emissions
         /\ ReceiptOf(TerminalOf(t, h, disposition, emissions), h, t.revision)
<1>1. TerminalOf(t, h, disposition, emissions) \in TerminalReceipt
  BY ConcludedFields
<1> QED
  BY <1>1 DEF ReceiptOf, Receipt, TerminalOf

LEMMA NoEmission == <<>> \in Emissions
  BY EmptySeq DEF Emissions

LEMMA HeadEntry ==
  ASSUME NEW c \in Checkpoint, NEW r \in Runtimes, c.ready[r] # <<>>
  PROVE  /\ Head(c.ready[r]) \in Entry /\ Head(c.ready[r]) \in Live(c)
         /\ Head(c.ready[r]).id \in Id
<1>1. c.ready[r] \in Seq(Entry)
  BY CheckpointFields
<1>2. Head(c.ready[r]) \in Entry /\ Head(c.ready[r]) \in Range(c.ready[r])
  BY <1>1, Headed
<1> QED
  BY <1>2, EntryFields DEF Live

(* Deliveries a runtime does not handle.                                     *)
LEMMA UnhandledStep ==
  ASSUME NEW c \in Checkpoint, NEW r \in Runtimes, c.ready[r] # <<>>, Linked(c),
         Head(c.ready[r]).id \in Deliveries \ Commits
  PROVE  /\ Linked(Unhandled(c, r, Head(c.ready[r])))
         /\ StepOf(c, Unhandled(c, r, Head(c.ready[r])), Head(c.ready[r]))
<1> DEFINE h == Head(c.ready[r])
           t == Taken(c, r)
           n == Unhandled(c, r, h)
           receipt == TerminalOf(t, h, "unhandled", <<>>)
<1>1. h \in Entry
  BY HeadEntry
<1>2. /\ t \in Checkpoint /\ t.ready = [c.ready EXCEPT ![r] = Tail(c.ready[r])]
      /\ t.revision = c.revision + 1
      /\ t.nextAcceptance = c.nextAcceptance /\ t.nextQueue = c.nextQueue
      /\ t.nextStep = c.nextStep /\ t.receipts = c.receipts
      /\ t.intents = c.intents /\ t.audits = c.audits
  BY TakenFields
<1>3. /\ n \in Checkpoint /\ n.receipts = Append(t.receipts, receipt)
      /\ n.ready = t.ready /\ n.revision = t.revision
      /\ n.nextAcceptance = t.nextAcceptance /\ n.nextQueue = t.nextQueue
      /\ n.nextStep = t.nextStep /\ n.intents = t.intents /\ n.audits = t.audits
  BY <1>1, <1>2, NoEmission, ConcludedFields DEF Unhandled
<1>4. receipt \in Receipt /\ receipt.emissions = <<>> /\ ReceiptOf(receipt, h, t.revision)
  BY <1>1, <1>2, NoEmission, TerminalFields
<1>5. c.nextStep \in Nat
  BY CheckpointFields
<1> HIDE DEF t, n, receipt
<1>6. n.nextStep >= c.nextStep
  BY <1>2, <1>3, <1>5
<1> QED
  BY <1>2, <1>3, <1>4, <1>6, StepSilent DEF n

(* start: the payment runtime begins.                                        *)
LEMMA PaymentStartedFields ==
  ASSUME NEW s \in Checkpoint
  PROVE  LET u == [s EXCEPT !.state = "checkout", !.payment = "running"]
         IN /\ u \in Checkpoint /\ u.ready = s.ready /\ u.revision = s.revision
            /\ u.nextAcceptance = s.nextAcceptance /\ u.nextQueue = s.nextQueue
            /\ u.nextStep = s.nextStep /\ u.receipts = s.receipts
            /\ u.intents = s.intents /\ u.audits = s.audits
  BY DEF Checkpoint

LEMMA PaymentStartedStep ==
  ASSUME NEW c \in Checkpoint, c.ready["order"] # <<>>, Linked(c),
         Head(c.ready["order"]).id \in Deliveries \ Commits
  PROVE  /\ Linked(PaymentStarted(c, Head(c.ready["order"])))
         /\ StepOf(c, PaymentStarted(c, Head(c.ready["order"])), Head(c.ready["order"]))
<1> DEFINE h == Head(c.ready["order"])
           s == Stepped(c, "order")
           t == [s EXCEPT !.state = "checkout", !.payment = "running"]
           n == PaymentStarted(c, h)
           receipt == TerminalOf(t, h, "handled", <<>>)
<1>1. "order" \in Runtimes
  BY DEF Runtimes
<1>2. h \in Entry
  BY <1>1, HeadEntry
<1>3. /\ s \in Checkpoint /\ s.ready = [c.ready EXCEPT !["order"] = Tail(c.ready["order"])]
      /\ s.revision = c.revision + 1
      /\ s.nextAcceptance = c.nextAcceptance /\ s.nextQueue = c.nextQueue
      /\ s.nextStep = c.nextStep + 1 /\ s.receipts = c.receipts
      /\ s.intents = c.intents /\ s.audits = c.audits
  BY <1>1, SteppedFields
<1>4. /\ t \in Checkpoint /\ t.ready = s.ready /\ t.revision = s.revision
      /\ t.nextAcceptance = s.nextAcceptance /\ t.nextQueue = s.nextQueue
      /\ t.nextStep = s.nextStep /\ t.receipts = s.receipts
      /\ t.intents = s.intents /\ t.audits = s.audits
  BY <1>3, PaymentStartedFields
<1>5. n = Concluded(t, h, "handled", <<>>)
  BY DEF PaymentStarted
<1>6. /\ n \in Checkpoint /\ n.receipts = Append(t.receipts, receipt)
      /\ n.ready = t.ready /\ n.revision = t.revision
      /\ n.nextAcceptance = t.nextAcceptance /\ n.nextQueue = t.nextQueue
      /\ n.nextStep = t.nextStep /\ n.intents = t.intents /\ n.audits = t.audits
  <2> HIDE DEF t, n
  <2> QED
    BY <1>2, <1>4, <1>5, NoEmission, ConcludedFields
<1>7. receipt \in Receipt /\ receipt.emissions = <<>> /\ ReceiptOf(receipt, h, t.revision)
  <2> HIDE DEF t, n
  <2> QED
    BY <1>2, <1>4, NoEmission, TerminalFields
<1>8. c.nextStep \in Nat
  BY CheckpointFields
<1> HIDE DEF s, t, n, receipt
<1>9. n.nextStep >= c.nextStep
  BY <1>3, <1>4, <1>6, <1>8
<1>10. /\ n.ready = [c.ready EXCEPT !["order"] = Tail(c.ready["order"])]
       /\ n.revision = c.revision + 1 /\ n.receipts = Append(c.receipts, receipt)
       /\ n.nextAcceptance = c.nextAcceptance /\ n.nextQueue = c.nextQueue
       /\ n.intents = c.intents /\ n.audits = c.audits
       /\ ReceiptOf(receipt, h, c.revision + 1)
  BY <1>3, <1>4, <1>6, <1>7
<1> QED
  BY <1>1, <1>6, <1>7, <1>9, <1>10, StepSilent DEF n

(* host_commit: the effect and its intent.                                   *)
EffectOf(c, h) == [cause |-> h.id, step |-> c.nextStep]
IntentOf(c, h) ==
  [effect |-> EffectOf(c, h), sequence |-> c.nextOutput, revision |-> c.revision + 1]

LEMMA OneEmission ==
  ASSUME NEW ref \in Reference
  PROVE  <<ref>> \in Emissions /\ <<ref>> # <<>> /\ <<ref>>[1] = ref
<1>1. <<ref>> \in Seq(Reference)
  OBVIOUS
<1> QED
  BY <1>1 DEF Emissions

LEMMA EffectSentFields ==
  ASSUME NEW s \in Checkpoint, NEW intent \in Intent
  PROVE  LET u == [s EXCEPT !.intents = Append(@, intent), !.nextOutput = @ + 1]
         IN /\ u \in Checkpoint /\ u.ready = s.ready /\ u.revision = s.revision
            /\ u.nextAcceptance = s.nextAcceptance /\ u.nextQueue = s.nextQueue
            /\ u.nextStep = s.nextStep /\ u.receipts = s.receipts
            /\ u.intents = Append(s.intents, intent) /\ u.audits = s.audits
<1> DEFINE intents == Append(s.intents, intent)
           output == s.nextOutput + 1
           u == [s EXCEPT !.intents = intents, !.nextOutput = output]
<1>1. intents \in Seq(Intent) /\ output \in Nat
  BY CheckpointFields, AppendProperties
<1> HIDE DEF intents, output
<1>2. u \in Checkpoint
  <2>1. \A i \in Seq(Intent), o \in Nat :
          [s EXCEPT !.intents = i, !.nextOutput = o] \in Checkpoint
    BY DEF Checkpoint
  <2> QED
    BY <1>1, <2>1
<1>3. /\ u.ready = s.ready /\ u.revision = s.revision
      /\ u.nextAcceptance = s.nextAcceptance /\ u.nextQueue = s.nextQueue
      /\ u.nextStep = s.nextStep /\ u.receipts = s.receipts
      /\ u.intents = intents /\ u.audits = s.audits
  BY DEF Checkpoint
<1> QED
  BY <1>2, <1>3 DEF intents, output

LEMMA EffectSentStep ==
  ASSUME NEW c \in Checkpoint, c.ready["order"] # <<>>, Linked(c),
         Head(c.ready["order"]).id \in Commits
  PROVE  /\ Linked(EffectSent(c, Head(c.ready["order"])))
         /\ StepOf(c, EffectSent(c, Head(c.ready["order"])), Head(c.ready["order"]))
<1> DEFINE h == Head(c.ready["order"])
           s == Stepped(c, "order")
           ref == [kind |-> "external_outbox", effect |-> EffectOf(c, h)]
           t == [s EXCEPT !.intents = Append(@, IntentOf(c, h)), !.nextOutput = @ + 1]
           n == EffectSent(c, h)
           receipt == TerminalOf(t, h, "handled", <<ref>>)
           last == Len(c.receipts) + 1
<1>1. "order" \in Runtimes
  BY DEF Runtimes
<1>2. h \in Entry /\ h.id \in Deliveries
  BY <1>1, HeadEntry DEF Deliveries
<1>3. /\ s \in Checkpoint /\ s.ready = [c.ready EXCEPT !["order"] = Tail(c.ready["order"])]
      /\ s.revision = c.revision + 1
      /\ s.nextAcceptance = c.nextAcceptance /\ s.nextQueue = c.nextQueue
      /\ s.nextStep = c.nextStep + 1 /\ s.receipts = c.receipts
      /\ s.nextOutput = c.nextOutput
      /\ s.intents = c.intents /\ s.audits = c.audits
  BY <1>1, SteppedFields
<1>4. /\ c.nextStep \in Nat /\ c.nextOutput \in Nat /\ c.revision \in Nat
      /\ c.intents \in Seq(Intent)
  BY CheckpointFields
<1>5. EffectOf(c, h) \in NativeId /\ IntentOf(c, h) \in Intent
  BY <1>2, <1>4 DEF EffectOf, IntentOf, NativeId, Intent
<1>6. /\ t \in Checkpoint /\ t.ready = s.ready /\ t.revision = s.revision
      /\ t.nextAcceptance = s.nextAcceptance /\ t.nextQueue = s.nextQueue
      /\ t.nextStep = s.nextStep /\ t.receipts = s.receipts
      /\ t.intents = Append(s.intents, IntentOf(c, h)) /\ t.audits = s.audits
  BY <1>3, <1>5, EffectSentFields
<1>7. n = Concluded(t, h, "handled", <<ref>>)
  BY <1>3 DEF EffectSent, EffectOf, IntentOf
<1>8. ref \in Reference /\ <<ref>> \in Emissions /\ <<ref>> # <<>> /\ <<ref>>[1] = ref
  <2>1. ref \in Reference
    BY <1>5 DEF Reference, EffectReference
  <2> QED
    BY <2>1, OneEmission
<1>9. /\ n \in Checkpoint /\ n.receipts = Append(t.receipts, receipt)
      /\ n.ready = t.ready /\ n.revision = t.revision
      /\ n.nextAcceptance = t.nextAcceptance /\ n.nextQueue = t.nextQueue
      /\ n.nextStep = t.nextStep /\ n.intents = t.intents /\ n.audits = t.audits
  <2> HIDE DEF t, n, ref
  <2> QED
    BY <1>2, <1>6, <1>7, <1>8, ConcludedFields, ZenonT(60)
<1>10. /\ receipt \in Receipt /\ receipt.emissions = <<ref>>
       /\ ReceiptOf(receipt, h, t.revision)
  <2> HIDE DEF t, n, ref
  <2> QED
    BY <1>2, <1>6, <1>8, TerminalFields
<1>11. ref.kind = "external_outbox" /\ ref.effect = IntentOf(c, h).effect
  BY DEF IntentOf
<1>12. /\ IntentOf(c, h).revision = c.revision + 1
       /\ IntentOf(c, h).effect.cause = h.id
  BY DEF IntentOf, EffectOf
<1> HIDE DEF s, t, n, receipt, ref
<1>13. n.nextStep >= c.nextStep
  BY <1>3, <1>4, <1>6, <1>9
<1>14. /\ n.ready = [c.ready EXCEPT !["order"] = Tail(c.ready["order"])]
       /\ n.revision = c.revision + 1 /\ n.receipts = Append(c.receipts, receipt)
       /\ n.nextAcceptance = c.nextAcceptance /\ n.nextQueue = c.nextQueue
       /\ n.intents = Append(c.intents, IntentOf(c, h)) /\ n.audits = c.audits
       /\ ReceiptOf(receipt, h, c.revision + 1)
  BY <1>3, <1>6, <1>9, <1>10
<1>15. receipt.emissions[1].kind = "external_outbox" /\ receipt.emissions # <<>>
  BY <1>8, <1>10, <1>11
<1>16. /\ Places(n) /\ Ordered(n) /\ Evidence(n) /\ ProducersKnown(n)
       /\ Concludes(c, n, h)
       /\ Emitting(n, "external_outbox") = Emitting(c, "external_outbox") \cup
            {i \in {last} : receipt.emissions # <<>>}
       /\ \A i \in Emitting(c, "external_outbox") : Emission(n, i) = Emission(c, i)
  BY <1>1, <1>2, <1>9, <1>10, <1>13, <1>14, <1>15, StepPlain
<1>17. /\ \A i \in DOMAIN c.receipts : n.receipts[i] = c.receipts[i]
       /\ n.receipts[last] = receipt
  BY <1>9, <1>10, <1>14, AppendedReceipt
<1>18. Emission(n, last).effect = IntentOf(c, h).effect
  BY <1>8, <1>10, <1>11, <1>17 DEF Emission
<1>19. EffectsKnown(n)
  <2>1. Emitting(n, "external_outbox") = Emitting(c, "external_outbox") \cup {last}
    BY <1>15, <1>16
  <2>2. EffectsKnown(c)
    BY DEF Linked
  <2> HIDE DEF last, h
  <2> QED
    BY <2>1, <2>2, <1>5, <1>9, <1>14, <1>16, <1>18, EffectsJoined
<1>20. /\ \A k \in DOMAIN c.intents : k \in DOMAIN n.intents /\ n.intents[k] = c.intents[k]
       /\ DOMAIN n.intents \ DOMAIN c.intents = {Len(c.intents) + 1}
       /\ n.intents[Len(c.intents) + 1] = IntentOf(c, h)
  <2>1. /\ DOMAIN c.intents = 1 .. Len(c.intents) /\ Len(c.intents) \in Nat
        /\ DOMAIN n.intents = 1 .. Len(c.intents) + 1
        /\ \A i \in DOMAIN c.intents : n.intents[i] = c.intents[i]
        /\ n.intents[Len(c.intents) + 1] = IntentOf(c, h)
    BY <1>4, <1>5, <1>14, Appended
  <2> QED
    BY <2>1
<1>21. StepOf(c, n, h)
  BY <1>10, <1>12, <1>14, <1>16, <1>17, <1>20 DEF StepOf, ReceiptOf
<1> QED
  BY <1>9, <1>16, <1>19, <1>21 DEF Linked, n

(* pay in full: the payment runtime goes, its completion is queued.          *)
CompletionOf(c, h) == [cause |-> h.id, step |-> c.nextStep]
CompletionReference(c, h) ==
  [kind |-> "internal_mailbox", id |-> CompletionOf(c, h),
   acceptance |-> c.nextAcceptance, queue |-> c.nextQueue]

LEMMA PaymentCompletedFields ==
  ASSUME NEW e \in Checkpoint
  PROVE  LET u == [e EXCEPT !.payment = "removed", !.ready["payment"] = <<>>]
         IN /\ u \in Checkpoint /\ u.ready = [e.ready EXCEPT !["payment"] = <<>>]
            /\ u.revision = e.revision /\ u.status = e.status
            /\ u.nextAcceptance = e.nextAcceptance /\ u.nextQueue = e.nextQueue
            /\ u.nextStep = e.nextStep /\ u.receipts = e.receipts
            /\ u.intents = e.intents /\ u.audits = e.audits
<1> DEFINE ready == [e.ready EXCEPT !["payment"] = <<>>]
           u == [e EXCEPT !.payment = "removed", !.ready = ready]
<1>1. ready \in [Runtimes -> Seq(Entry)]
  BY CheckpointFields, EmptySeq
<1>2. u = [e EXCEPT !.payment = "removed", !.ready["payment"] = <<>>]
  OBVIOUS
<1> HIDE DEF ready
<1>3. u \in Checkpoint
  <2>1. \A rd \in [Runtimes -> Seq(Entry)] :
          [e EXCEPT !.payment = "removed", !.ready = rd] \in Checkpoint
    BY DEF Checkpoint
  <2> QED
    BY <1>1, <2>1
<1>4. /\ u.ready = ready /\ u.revision = e.revision /\ u.status = e.status
      /\ u.nextAcceptance = e.nextAcceptance /\ u.nextQueue = e.nextQueue
      /\ u.nextStep = e.nextStep /\ u.receipts = e.receipts
      /\ u.intents = e.intents /\ u.audits = e.audits
  BY DEF Checkpoint
<1> HIDE DEF u
<1> QED
  BY <1>2, <1>3, <1>4 DEF ready

LEMMA CompletionType ==
  ASSUME NEW c \in Checkpoint, NEW h, h.id \in Deliveries
  PROVE  /\ CompletionOf(c, h) \in NativeId /\ CompletionOf(c, h).step = c.nextStep
         /\ CompletionOf(c, h) \in Id /\ CompletionOf(c, h) \notin Deliveries
         /\ MailboxOf(CompletionOf(c, h)) = "order"
         /\ CompletionReference(c, h) \in Reference
<1>1. c.nextStep \in Nat /\ c.nextAcceptance \in Nat /\ c.nextQueue \in Nat
  BY CheckpointFields
<1>2. CompletionOf(c, h) \in NativeId /\ CompletionOf(c, h).step = c.nextStep
  BY <1>1 DEF CompletionOf, NativeId
<1>3. CompletionOf(c, h) \in Id /\ CompletionOf(c, h) \notin Deliveries
  BY <1>2, IdentityAssumption DEF Id
<1>4. MailboxOf(CompletionOf(c, h)) = "order"
  BY <1>3 DEF MailboxOf, Deliveries
<1>5. CompletionReference(c, h) \in Reference
  BY <1>1, <1>2 DEF CompletionReference, Reference, QueuedReference
<1> QED
  BY <1>2, <1>3, <1>4, <1>5

(* The identity of the completion names a step that is not over.             *)
LEMMA CompletionFresh ==
  ASSUME NEW c \in Checkpoint, ProducersKnown(c), NEW h, h.id \in Deliveries
  PROVE  ~Somewhere(c, CompletionOf(c, h))
<1>1. CompletionOf(c, h) \notin Deliveries /\ CompletionOf(c, h).step = c.nextStep
      /\ c.nextStep \in Nat
  BY CompletionType, CheckpointFields
<1>2. \A i \in Producing(c) : Emission(c, i).id # CompletionOf(c, h)
  <2>1. SUFFICES ASSUME NEW i \in Producing(c), Emission(c, i).id = CompletionOf(c, h)
                 PROVE  FALSE
    OBVIOUS
  <2>2. Emission(c, i).id.step < c.nextStep
    BY DEF ProducersKnown
  <2> QED
    BY <1>1, <2>1, <2>2
<1> QED
  BY <1>1, <1>2 DEF Somewhere, ProducersKnown, Producing

LEMMA PaymentCompletedStep ==
  ASSUME NEW c \in Checkpoint, c.ready["payment"] # <<>>, Linked(c),
         Head(c.ready["payment"]).id \in Deliveries \ Commits
  PROVE  /\ Linked(PaymentCompleted(c, Head(c.ready["payment"])))
         /\ StepOf(c, PaymentCompleted(c, Head(c.ready["payment"])), Head(c.ready["payment"]))
<1> DEFINE h == Head(c.ready["payment"])
           s == Stepped(c, "payment")
           done == CompletionOf(c, h)
           ref == CompletionReference(c, h)
           e == Enqueued(s, done)
           t == [e EXCEPT !.payment = "removed", !.ready["payment"] = <<>>]
           m == Concluded(s, h, "handled", <<ref>>)
           n == PaymentCompleted(c, h)
           receipt == TerminalOf(s, h, "handled", <<ref>>)
           last == Len(c.receipts) + 1
<1>1. "payment" \in Runtimes /\ "order" \in Runtimes
  BY DEF Runtimes
<1>2. h \in Entry /\ h.id \in Deliveries
  BY <1>1, HeadEntry
<1>3. /\ s \in Checkpoint /\ s.ready = [c.ready EXCEPT !["payment"] = Tail(c.ready["payment"])]
      /\ s.revision = c.revision + 1
      /\ s.nextAcceptance = c.nextAcceptance /\ s.nextQueue = c.nextQueue
      /\ s.nextStep = c.nextStep + 1 /\ s.receipts = c.receipts
      /\ s.intents = c.intents /\ s.audits = c.audits
  BY <1>1, SteppedFields
<1>4. /\ done \in NativeId /\ done.step = c.nextStep
      /\ done \in Id /\ done \notin Deliveries
      /\ MailboxOf(done) = "order"
      /\ ref \in Reference
  BY <1>2, CompletionType
<1>5. /\ e \in Checkpoint
      /\ e.ready = [s.ready EXCEPT !["order"] = Append(s.ready["order"], EntryOf(s, done))]
      /\ e.nextAcceptance = s.nextAcceptance + 1 /\ e.nextQueue = s.nextQueue + 1
      /\ e.receipts = s.receipts /\ e.intents = s.intents /\ e.audits = s.audits
      /\ e.revision = s.revision /\ e.nextStep = s.nextStep
  <2> HIDE DEF s, done
  <2> QED
    BY <1>3, <1>4, EnqueuedFields
<1>6. e.status = s.status
  BY <1>3 DEF Enqueued, Checkpoint
<1>7. /\ t \in Checkpoint /\ t.ready = [e.ready EXCEPT !["payment"] = <<>>]
      /\ t.revision = e.revision /\ t.status = e.status
      /\ t.nextAcceptance = e.nextAcceptance /\ t.nextQueue = e.nextQueue
      /\ t.nextStep = e.nextStep /\ t.receipts = e.receipts
      /\ t.intents = e.intents /\ t.audits = e.audits
  BY <1>5, PaymentCompletedFields
<1>8. n = Concluded(t, h, "handled", <<ref>>)
  BY DEF PaymentCompleted, CompletionOf, CompletionReference
<1>9. <<ref>> \in Emissions /\ <<ref>> # <<>> /\ <<ref>>[1] = ref
  BY <1>4, OneEmission
<1>10. TerminalOf(t, h, "handled", <<ref>>) = receipt
  BY <1>5, <1>6, <1>7 DEF TerminalOf
<1>11. /\ n \in Checkpoint /\ n.receipts = Append(t.receipts, receipt)
       /\ n.ready = t.ready /\ n.revision = t.revision
       /\ n.nextAcceptance = t.nextAcceptance /\ n.nextQueue = t.nextQueue
       /\ n.nextStep = t.nextStep /\ n.intents = t.intents /\ n.audits = t.audits
  <2> HIDE DEF t, n, ref, receipt
  <2> QED
    BY <1>2, <1>7, <1>8, <1>9, <1>10, ConcludedFields, ZenonT(60)
<1>12. /\ m \in Checkpoint /\ m.receipts = Append(s.receipts, receipt)
       /\ m.ready = s.ready
       /\ m.nextAcceptance = s.nextAcceptance /\ m.nextQueue = s.nextQueue
  BY <1>2, <1>3, <1>9, ConcludedFields
<1>13. /\ receipt \in Receipt /\ receipt.emissions = <<ref>> /\ receipt.kind = "terminal"
       /\ ReceiptOf(receipt, h, s.revision)
  BY <1>2, <1>3, <1>9, TerminalFields DEF ReceiptOf, TerminalReceipt
<1>14. EntryOf(s, done) = EntryOf(c, done) /\ EntryOf(m, done) = EntryOf(c, done)
  BY <1>3, <1>12 DEF EntryOf
<1>15. t.ready = [s.ready EXCEPT !["order"] = Append(s.ready["order"], EntryOf(c, done))]
  <2>1. s.ready \in [Runtimes -> Seq(Entry)] /\ s.ready["payment"] = Tail(c.ready["payment"])
        /\ c.ready["payment"] \in Seq(Entry)
    BY <1>1, <1>3, CheckpointFields
  <2> HIDE DEF s, t, e, done
  <2>2. s.ready["payment"] = <<>>
    <3>1. Len(c.ready["payment"]) <= 1
      BY DEF Linked, Ordered
    <3>2. /\ Tail(c.ready["payment"]) \in Seq(Entry)
          /\ Len(c.ready["payment"]) \in Nat /\ Len(c.ready["payment"]) > 0
          /\ Len(Tail(c.ready["payment"])) = Len(c.ready["payment"]) - 1
      BY <2>1, Headed
    <3> DEFINE rest == Tail(c.ready["payment"])
               length == Len(c.ready["payment"])
    <3>3. /\ rest \in Seq(Entry) /\ length \in Nat /\ length > 0 /\ length <= 1
          /\ Len(rest) = length - 1
      BY <3>1, <3>2
    <3>4. s.ready["payment"] = rest
      BY <2>1
    <3> HIDE DEF rest, length
    <3>5. Len(rest) = 0
      BY <3>3
    <3> QED
      BY <3>3, <3>4, <3>5, EmptySeq
  <2> QED
    BY <2>1, <2>2, <1>5, <1>7, <1>14, ZenonT(60)
<1>16. ref = [kind |-> "internal_mailbox", id |-> done, acceptance |-> c.nextAcceptance,
              queue |-> c.nextQueue]
  BY DEF CompletionReference
<1> HIDE DEF s, e, t, m, n, done, ref, receipt
<1>17. Concludes(c, m, h)
  <2>1. m.receipts = Append(c.receipts, receipt)
    BY <1>3, <1>12
  <2>2. m \in Checkpoint /\ receipt \in Receipt
    BY <1>12, <1>13
  <2>3. /\ DOMAIN m.receipts = 1 .. last /\ m.receipts[last] = receipt /\ Follows(c, m)
    BY <2>1, <2>2, AppendedReceipt
  <2> QED
    BY <2>3, <1>13 DEF Concludes, ReceiptOf
<1>18. /\ Places(m) /\ Ordered(m) /\ Evidence(m)
       /\ Live(m) = Live(c) \ {h} /\ h \in Live(c)
       /\ Ends(m) = Ends(c) \cup {last} /\ last \notin Ends(c)
       /\ Admissions(m) = Admissions(c)
  <2>1. m.ready = [c.ready EXCEPT !["payment"] = Tail(c.ready["payment"])]
        /\ m.nextAcceptance = c.nextAcceptance /\ m.nextQueue = c.nextQueue
    BY <1>3, <1>12
  <2>2. Places(m) /\ Ordered(m) /\ Evidence(m)
    BY <2>1, <1>1, <1>12, <1>17, PlacesTaken DEF Linked
  <2>3. Live(m) = Live(c) \ {h} /\ h \in Live(c)
    BY <2>1, <1>1, <1>12, LiveTaken DEF Linked
  <2>4. /\ Ends(m) = Ends(c) \cup {last} /\ last \notin Ends(c)
        /\ Admissions(m) = Admissions(c)
    BY <1>12, <1>17, EndsConcluded
  <2> QED
    BY <2>2, <2>3, <2>4
<1>19. n.receipts = m.receipts /\ n.receipts = Append(c.receipts, receipt)
  BY <1>3, <1>5, <1>7, <1>11, <1>12
<1>20. Ends(n) = Ends(m) /\ Admissions(n) = Admissions(m) /\ Follows(m, n)
  BY <1>19 DEF Ends, Admissions, Follows, Repeats
<1>21. Enqueues(m, n, done)
  <2>1. n.ready = [m.ready EXCEPT !["order"] = Append(m.ready["order"], EntryOf(m, done))]
    BY <1>11, <1>12, <1>14, <1>15
  <2>2. n.nextAcceptance = m.nextAcceptance + 1 /\ n.nextQueue = m.nextQueue + 1
    BY <1>5, <1>7, <1>11, <1>12
  <2> QED
    BY <2>1, <2>2, <1>4, <1>20 DEF Enqueues
<1>22. ~Somewhere(m, done)
  <2>1. ~Somewhere(c, done)
    BY <1>2, CompletionFresh DEF Linked, done
  <2>2. \A i \in DOMAIN c.receipts : m.receipts[i] = c.receipts[i]
    BY <1>3, <1>12, <1>13, AppendedReceipt
  <2>3. m.receipts[last].id # done
    BY <1>2, <1>4, <1>17 DEF Concludes
  <2> QED
    BY <2>1, <2>2, <2>3, <1>18 DEF Somewhere, Ends
<1>23. done \in Pays => m.ready["payment"] = <<>>
  BY <1>4 DEF Deliveries
<1>24. Places(n) /\ Ordered(n)
  BY <1>4, <1>11, <1>12, <1>18, <1>21, <1>22, <1>23, PlacesEnqueued
<1>25. Live(n) = (Live(c) \ {h}) \cup {EntryOf(c, done)}
  <2>1. Live(n) = Live(m) \cup {EntryOf(m, done)}
    BY <1>4, <1>11, <1>12, <1>18, <1>21, <1>23, LiveEnqueued
  <2> QED
    BY <2>1, <1>14, <1>18
<1>26. Evidence(n)
  <2>1. /\ n.nextAcceptance = m.nextAcceptance + 1
        /\ Live(n) = Live(m) \cup {EntryOf(c, done)} /\ EntryOf(c, done).id \notin Deliveries
    BY <1>4, <1>18, <1>21, <1>25 DEF Enqueues, EntryOf
  <2> QED
    BY <2>1, <1>11, <1>12, <1>18, <1>20, EvidenceNative
<1>27. /\ \A i \in DOMAIN c.receipts : i \in DOMAIN n.receipts /\ n.receipts[i] = c.receipts[i]
       /\ n.receipts[last] = receipt /\ Follows(c, n)
       /\ DOMAIN n.receipts = 1 .. last
  BY <1>11, <1>13, <1>19, AppendedReceipt
<1>28. Concludes(c, n, h)
  BY <1>13, <1>27 DEF Concludes, ReceiptOf
<1>29. /\ Ends(n) = Ends(c) \cup {last} /\ last \notin Ends(c) /\ last \in Ends(n)
  BY <1>18, <1>20
<1>30. \A i \in Ends(c) : n.receipts[i].emissions = c.receipts[i].emissions
  BY <1>27 DEF Ends
<1>31. /\ \A kind \in Kinds :
           Emitting(n, kind) = Emitting(c, kind) \cup
             {i \in {last} : n.receipts[i].emissions # <<>> /\ n.receipts[i].emissions[1].kind = kind}
       /\ \A i \in Ends(c) : Emission(n, i) = Emission(c, i)
  BY <1>11, <1>29, <1>30, EmittingGrown
<1>32. Emission(n, last) = ref /\ n.receipts[last].emissions # <<>>
       /\ n.receipts[last].emissions[1].kind = "internal_mailbox"
  <2>1. n.receipts[last].emissions = <<ref>>
    BY <1>13, <1>27
  <2>2. ref.kind = "internal_mailbox"
    BY <1>16
  <2> QED
    BY <2>1, <2>2, <1>9 DEF Emission
<1>33. /\ Emitting(n, "internal_mailbox") = Emitting(c, "internal_mailbox") \cup {last}
       /\ Emitting(n, "internal_terminal") = Emitting(c, "internal_terminal")
       /\ Emitting(n, "external_outbox") = Emitting(c, "external_outbox")
  <2>1. /\ "internal_mailbox" \in Kinds /\ "internal_terminal" \in Kinds
        /\ "external_outbox" \in Kinds
    BY DEF Kinds
  <2> HIDE DEF last, h
  <2>2. Emitting(n, "internal_mailbox") = Emitting(c, "internal_mailbox") \cup {last}
    BY <2>1, <1>31, <1>32
  <2>3. Emitting(n, "internal_terminal") = Emitting(c, "internal_terminal")
    BY <2>1, <1>31, <1>32
  <2>4. Emitting(n, "external_outbox") = Emitting(c, "external_outbox")
    BY <2>1, <1>31, <1>32
  <2> QED
    BY <2>2, <2>3, <2>4
<1>34. /\ \A i \in Producing(c) : Emission(n, i) = Emission(c, i)
       /\ \A i \in Emitting(c, "external_outbox") : Emission(n, i) = Emission(c, i)
  BY <1>31, EmissionAt DEF Emitting
<1>35. n.nextStep = c.nextStep + 1
  BY <1>3, <1>5, <1>7, <1>11
<1>36. n.receipts[last].id \in Deliveries
  BY <1>2, <1>13, <1>27 DEF ReceiptOf
<1>37. ProducersKnown(n)
  <2>1. ProducersKnown(c)
    BY DEF Linked
  <2>2. Emission(n, last) = [kind |-> "internal_mailbox", id |-> done,
                             acceptance |-> c.nextAcceptance, queue |-> c.nextQueue]
    BY <1>16, <1>32
  <2> HIDE DEF last, h
  <2> QED
    BY <2>1, <2>2, <1>2, <1>4, <1>11, <1>18, <1>25, <1>27, <1>29, <1>33, <1>34, <1>35, <1>36,
       ProducersQueued
<1>38. n.intents = c.intents /\ n.audits = c.audits /\ n.revision = c.revision + 1
       /\ ReceiptOf(receipt, h, c.revision + 1)
  BY <1>3, <1>5, <1>7, <1>11, <1>13
<1>39. EffectsKnown(n)
  BY <1>11, <1>33, <1>34, <1>38, EffectsSame DEF Linked
<1>40. StepOf(c, n, h)
  BY <1>27, <1>28, <1>38 DEF StepOf, ReceiptOf
<1> QED
  BY <1>11, <1>24, <1>26, <1>37, <1>39, <1>40 DEF Linked, n

(* The completion ends: the reference of its producer follows it.            *)
Settled(ref, x, terminal) ==
  IF ref.kind = "internal_mailbox" /\ ref.id = x.id
  THEN [kind |-> "internal_terminal", id |-> ref.id,
        acceptance |-> ref.acceptance, terminal |-> terminal]
  ELSE ref

LEMMA SettledType ==
  ASSUME NEW ref \in Reference, NEW x, NEW terminal \in Nat
  PROVE  Settled(ref, x, terminal) \in Reference
  BY DEF Settled, Reference, QueuedReference, EndedReference, EffectReference

LEMMA SettledEmissions ==
  ASSUME NEW emissions \in Emissions, NEW x, NEW terminal \in Nat,
         NEW settled, settled = [k \in DOMAIN emissions |-> Settled(emissions[k], x, terminal)]
  PROVE  /\ settled \in Emissions
         /\ settled = <<>> <=> emissions = <<>>
         /\ emissions # <<>> => settled[1] = Settled(emissions[1], x, terminal)
<1>1. emissions \in Seq(Reference) /\ Len(emissions) <= 1
  BY DEF Emissions
<1>2. DOMAIN emissions = 1 .. Len(emissions) /\ Len(emissions) \in Nat
      /\ \A k \in DOMAIN emissions : emissions[k] \in Reference
  BY <1>1, LenProperties, ElementOfSeq
<1>3. \A k \in 1 .. Len(emissions) : Settled(emissions[k], x, terminal) \in Reference
  BY <1>2, SettledType
<1>4. settled = [k \in 1 .. Len(emissions) |-> Settled(emissions[k], x, terminal)]
  BY <1>2
<1> HIDE DEF Settled
<1>5. settled \in Seq(Reference)
  <2>1. settled \in [1 .. Len(emissions) -> Reference]
    BY <1>3, <1>4
  <2> QED
    BY <2>1, <1>2
<1>6. Len(settled) = Len(emissions)
  BY <1>2, <1>4, <1>5, LenProperties
<1>7. settled = <<>> <=> emissions = <<>>
  BY <1>1, <1>5, <1>6, EmptySeq
<1>8. emissions # <<>> => 1 \in 1 .. Len(emissions)
  BY <1>1, <1>2, EmptySeq
<1> QED
  BY <1>1, <1>4, <1>5, <1>6, <1>7, <1>8 DEF Emissions

LEMMA TerminatedFields ==
  ASSUME NEW c \in Checkpoint, NEW x
  PROVE  /\ Terminated(c.receipts, x) \in Seq(Receipt)
         /\ Len(Terminated(c.receipts, x)) = Len(c.receipts)
         /\ DOMAIN Terminated(c.receipts, x) = DOMAIN c.receipts
         /\ \A i \in DOMAIN c.receipts :
              /\ Repeats(c.receipts[i], Terminated(c.receipts, x)[i])
              /\ Terminated(c.receipts, x)[i].revision = c.receipts[i].revision
         /\ \A i \in Ends(c) :
              /\ Terminated(c.receipts, x)[i].emissions = <<>> <=> c.receipts[i].emissions = <<>>
              /\ c.receipts[i].emissions # <<>> =>
                   Terminated(c.receipts, x)[i].emissions[1] =
                     Settled(Emission(c, i), x, Len(c.receipts) + 1)
<1> DEFINE receipts == Terminated(c.receipts, x)
           terminal == Len(c.receipts) + 1
           settled(i) ==
             [k \in DOMAIN c.receipts[i].emissions |->
                Settled(c.receipts[i].emissions[k], x, terminal)]
<1>1. /\ DOMAIN c.receipts = 1 .. Len(c.receipts) /\ Len(c.receipts) \in Nat
      /\ \A i \in DOMAIN c.receipts : c.receipts[i] \in Receipt
      /\ \A i \in Ends(c) : c.receipts[i] \in TerminalReceipt
  BY ReceiptAt
<1>2. receipts =
        [i \in DOMAIN c.receipts |->
           IF c.receipts[i].kind = "terminal"
           THEN [c.receipts[i] EXCEPT !.emissions = settled(i)] ELSE c.receipts[i]]
  BY DEF Terminated, Settled
<1>3. \A i \in Ends(c) :
        /\ settled(i) \in Emissions
        /\ settled(i) = <<>> <=> c.receipts[i].emissions = <<>>
        /\ c.receipts[i].emissions # <<>> => settled(i)[1] = Settled(Emission(c, i), x, terminal)
  <2>1. SUFFICES ASSUME NEW i \in Ends(c)
                 PROVE  /\ settled(i) \in Emissions
                        /\ settled(i) = <<>> <=> c.receipts[i].emissions = <<>>
                        /\ c.receipts[i].emissions # <<>> =>
                             settled(i)[1] = Settled(Emission(c, i), x, terminal)
    OBVIOUS
  <2>2. c.receipts[i].emissions \in Emissions /\ terminal \in Nat
    BY <1>1, EmissionAt
  <2> HIDE DEF terminal
  <2> QED
    BY <2>2, SettledEmissions DEF Emission
<1> HIDE DEF settled, terminal, receipts
<1>4. \A i \in Ends(c) :
        /\ receipts[i] = [c.receipts[i] EXCEPT !.emissions = settled(i)]
        /\ receipts[i] \in TerminalReceipt /\ receipts[i].emissions = settled(i)
        /\ receipts[i].revision = c.receipts[i].revision
        /\ Repeats(c.receipts[i], receipts[i])
  <2>1. SUFFICES ASSUME NEW i \in Ends(c)
                 PROVE  /\ receipts[i] = [c.receipts[i] EXCEPT !.emissions = settled(i)]
                        /\ receipts[i] \in TerminalReceipt
                        /\ receipts[i].emissions = settled(i)
                        /\ receipts[i].revision = c.receipts[i].revision
                        /\ Repeats(c.receipts[i], receipts[i])
    OBVIOUS
  <2>2. receipts[i] = [c.receipts[i] EXCEPT !.emissions = settled(i)]
    BY <1>2 DEF Ends
  <2>3. c.receipts[i] \in TerminalReceipt /\ settled(i) \in Emissions
    BY <1>1, <1>3
  <2>4. \A y \in TerminalReceipt, m \in Emissions :
          LET z == [y EXCEPT !.emissions = m]
          IN z \in TerminalReceipt /\ z.emissions = m /\ z.revision = y.revision
             /\ Repeats(y, z)
    BY DEF TerminalReceipt, Repeats
  <2> QED
    BY <2>2, <2>3, <2>4
<1>5. \A i \in DOMAIN c.receipts : i \notin Ends(c) => receipts[i] = c.receipts[i]
  BY <1>2 DEF Ends
<1>6. \A i \in DOMAIN c.receipts : /\ receipts[i] \in Receipt
                                   /\ Repeats(c.receipts[i], receipts[i])
                                   /\ receipts[i].revision = c.receipts[i].revision
  BY <1>1, <1>4, <1>5 DEF Receipt, Repeats
<1>7. DOMAIN receipts = DOMAIN c.receipts
  BY <1>2
<1>8. receipts \in Seq(Receipt) /\ Len(receipts) = Len(c.receipts)
  <2>1. receipts \in [1 .. Len(c.receipts) -> Receipt]
    <3>1. receipts = [i \in DOMAIN c.receipts |-> receipts[i]]
      BY <1>2
    <3> QED
      BY <3>1, <1>1, <1>6
  <2>2. receipts \in Seq(Receipt)
    BY <2>1, <1>1
  <2> QED
    BY <2>2, <1>1, <1>7, LenProperties
<1> QED
  BY <1>3, <1>4, <1>6, <1>7, <1>8 DEF terminal, receipts

LEMMA DoneProcessedFields ==
  ASSUME NEW s \in Checkpoint, NEW receipts \in Seq(Receipt)
  PROVE  LET u == [s EXCEPT !.state = "paid",
                            !.status = IF Terminal THEN "completed" ELSE @,
                            !.receipts = receipts]
         IN /\ u \in Checkpoint /\ u.ready = s.ready /\ u.revision = s.revision
            /\ u.nextAcceptance = s.nextAcceptance /\ u.nextQueue = s.nextQueue
            /\ u.nextStep = s.nextStep /\ u.receipts = receipts
            /\ u.intents = s.intents /\ u.audits = s.audits
  BY DEF Checkpoint

(* What settling does to the producers: one reference moves.                 *)
LEMMA EmittingSettled ==
  ASSUME NEW c \in Checkpoint, NEW n \in Checkpoint, NEW last \in Ends(n), NEW h,
         Ends(n) = Ends(c) \cup {last}, last \notin Ends(c),
         n.receipts[last].emissions = <<>>,
         \A i \in Ends(c) :
           /\ n.receipts[i].emissions = <<>> <=> c.receipts[i].emissions = <<>>
           /\ c.receipts[i].emissions # <<>> => Emission(n, i) = Settled(Emission(c, i), h, last),
         NEW by \in Emitting(c, "internal_mailbox"), Emission(c, by).id = h.id,
         \A i, j \in Producing(c) : Emission(c, i).id = Emission(c, j).id => i = j
  PROVE  /\ Emitting(n, "internal_mailbox") = Emitting(c, "internal_mailbox") \ {by}
         /\ Emitting(n, "internal_terminal") = Emitting(c, "internal_terminal") \cup {by}
         /\ Emitting(n, "external_outbox") = Emitting(c, "external_outbox")
         /\ \A i \in Producing(c) \ {by} : Emission(n, i) = Emission(c, i)
         /\ \A i \in Emitting(c, "external_outbox") : Emission(n, i) = Emission(c, i)
<1>1. \A kind : \A i \in Emitting(n, kind) :
        i \in Ends(c) /\ c.receipts[i].emissions # <<>> /\ Emission(n, i).kind = kind
  BY DEF Emitting, Emission
<1>2. \A kind : \A i \in Emitting(c, kind) :
        /\ i \in Ends(c) /\ n.receipts[i].emissions # <<>> /\ Emission(c, i).kind = kind
        /\ Emission(n, i) = Settled(Emission(c, i), h, last)
  BY DEF Emitting, Emission
<1>3. \A kind : \A i \in Ends(c) :
        (c.receipts[i].emissions # <<>> /\ Emission(c, i).kind = kind) => i \in Emitting(c, kind)
  BY DEF Emitting, Emission
<1>4. \A kind : \A i \in Ends(c) :
        (c.receipts[i].emissions # <<>> /\ Emission(n, i).kind = kind) => i \in Emitting(n, kind)
  BY DEF Emitting, Emission
<1>5. \A i \in Emitting(c, "internal_mailbox") : Emission(c, i).id = h.id => i = by
  BY DEF Producing
<1>6. \A i \in Emitting(c, "internal_mailbox") \ {by} : Emission(n, i) = Emission(c, i)
  BY <1>2, <1>5 DEF Settled
<1>7. \A kind \in {"internal_terminal", "external_outbox"} :
        \A i \in Emitting(c, kind) : Emission(n, i) = Emission(c, i)
  BY <1>2 DEF Settled
<1>8. Emission(n, by).kind = "internal_terminal"
  BY <1>2 DEF Settled
<1>9. \A i \in Ends(c) : c.receipts[i].emissions # <<>> =>
        (Emission(n, i) = Emission(c, i) \/ (i \in Emitting(c, "internal_mailbox") /\ i = by))
  <2>1. SUFFICES ASSUME NEW i \in Ends(c), c.receipts[i].emissions # <<>>,
                        Emission(n, i) # Emission(c, i)
                 PROVE  i \in Emitting(c, "internal_mailbox") /\ i = by
    OBVIOUS
  <2>2. Emission(c, i).kind = "internal_mailbox" /\ Emission(c, i).id = h.id
    BY <2>1 DEF Settled
  <2> QED
    BY <2>1, <2>2, <1>3, <1>5
<1>10. Emitting(n, "internal_mailbox") = Emitting(c, "internal_mailbox") \ {by}
  <2>1. ASSUME NEW i \in Emitting(n, "internal_mailbox")
        PROVE  i \in Emitting(c, "internal_mailbox") \ {by}
    BY <1>1, <1>3, <1>8, <1>9
  <2>2. ASSUME NEW i \in Emitting(c, "internal_mailbox") \ {by}
        PROVE  i \in Emitting(n, "internal_mailbox")
    <3>1. i \in Ends(c) /\ c.receipts[i].emissions # <<>> /\ Emission(n, i).kind = "internal_mailbox"
      BY <1>2, <1>6, SMTT(30) DEF Emitting
    <3> QED
      BY <3>1, <1>4
  <2> QED
    BY <2>1, <2>2
<1>11. Emitting(n, "internal_terminal") = Emitting(c, "internal_terminal") \cup {by}
  <2>1. ASSUME NEW i \in Emitting(n, "internal_terminal")
        PROVE  i \in Emitting(c, "internal_terminal") \cup {by}
    BY <1>1, <1>3, <1>9
  <2>2. ASSUME NEW i \in Emitting(c, "internal_terminal")
        PROVE  i \in Emitting(n, "internal_terminal")
    <3>1. i \in Ends(c) /\ c.receipts[i].emissions # <<>>
      BY DEF Emitting
    <3>2. Emission(n, i).kind = "internal_terminal"
      BY <1>2, <1>7
    <3> QED
      BY <3>1, <3>2, <1>4
  <2>3. by \in Emitting(n, "internal_terminal")
    <3>1. by \in Ends(c) /\ c.receipts[by].emissions # <<>>
      BY DEF Emitting
    <3> QED
      BY <3>1, <1>4, <1>8
  <2> QED
    BY <2>1, <2>2, <2>3
<1>12. Emitting(n, "external_outbox") = Emitting(c, "external_outbox")
  <2>1. ASSUME NEW i \in Emitting(n, "external_outbox")
        PROVE  i \in Emitting(c, "external_outbox")
    BY <1>1, <1>3, <1>8, <1>9
  <2>2. ASSUME NEW i \in Emitting(c, "external_outbox")
        PROVE  i \in Emitting(n, "external_outbox")
    <3>1. i \in Ends(c) /\ c.receipts[i].emissions # <<>>
      BY DEF Emitting
    <3>2. Emission(n, i).kind = "external_outbox"
      BY <1>2, <1>7
    <3> QED
      BY <3>1, <3>2, <1>4
  <2> QED
    BY <2>1, <2>2
<1> QED
  BY <1>6, <1>7, <1>10, <1>11, <1>12 DEF Producing

LEMMA DoneProcessedStep ==
  ASSUME NEW c \in Checkpoint, c.ready["order"] # <<>>, Linked(c),
         Head(c.ready["order"]).id \notin Deliveries
  PROVE  /\ Linked(DoneProcessed(c, Head(c.ready["order"])))
         /\ StepOf(c, DoneProcessed(c, Head(c.ready["order"])), Head(c.ready["order"]))
<1> DEFINE h == Head(c.ready["order"])
           s == Stepped(c, "order")
           receipts == Terminated(c.receipts, h)
           t == [s EXCEPT !.state = "paid", !.status = IF Terminal THEN "completed" ELSE @,
                          !.receipts = receipts]
           n == DoneProcessed(c, h)
           receipt == TerminalOf(t, h, "handled", <<>>)
           last == Len(c.receipts) + 1
<1>1. "order" \in Runtimes
  BY DEF Runtimes
<1>2. h \in Entry /\ h \in Live(c)
  BY <1>1, HeadEntry
<1>3. /\ s \in Checkpoint /\ s.ready = [c.ready EXCEPT !["order"] = Tail(c.ready["order"])]
      /\ s.revision = c.revision + 1
      /\ s.nextAcceptance = c.nextAcceptance /\ s.nextQueue = c.nextQueue
      /\ s.nextStep = c.nextStep + 1 /\ s.receipts = c.receipts
      /\ s.intents = c.intents /\ s.audits = c.audits
  BY <1>1, SteppedFields
<1>4. /\ receipts \in Seq(Receipt) /\ Len(receipts) = Len(c.receipts)
      /\ DOMAIN receipts = DOMAIN c.receipts
      /\ \A i \in DOMAIN c.receipts : /\ Repeats(c.receipts[i], receipts[i])
                                      /\ receipts[i].revision = c.receipts[i].revision
      /\ \A i \in Ends(c) :
           /\ receipts[i].emissions = <<>> <=> c.receipts[i].emissions = <<>>
           /\ c.receipts[i].emissions # <<>> =>
                receipts[i].emissions[1] = Settled(Emission(c, i), h, Len(c.receipts) + 1)
  <2> HIDE DEF h
  <2> QED
    BY TerminatedFields
<1>5. n = Concluded(t, h, "handled", <<>>)
  BY <1>3 DEF DoneProcessed
<1> HIDE DEF receipts
<1>6. /\ t \in Checkpoint /\ t.ready = s.ready /\ t.revision = s.revision
      /\ t.nextAcceptance = s.nextAcceptance /\ t.nextQueue = s.nextQueue
      /\ t.nextStep = s.nextStep /\ t.receipts = receipts
      /\ t.intents = s.intents /\ t.audits = s.audits
  BY <1>3, <1>4, DoneProcessedFields, ZenonT(60)
<1>7. /\ n \in Checkpoint /\ n.receipts = Append(t.receipts, receipt)
      /\ n.ready = t.ready /\ n.revision = t.revision
      /\ n.nextAcceptance = t.nextAcceptance /\ n.nextQueue = t.nextQueue
      /\ n.nextStep = t.nextStep /\ n.intents = t.intents /\ n.audits = t.audits
  <2> HIDE DEF t, n
  <2> QED
    BY <1>2, <1>5, <1>6, NoEmission, ConcludedFields
<1>8. receipt \in Receipt /\ receipt.emissions = <<>> /\ ReceiptOf(receipt, h, t.revision)
      /\ receipt.kind = "terminal"
  <2> HIDE DEF t, n
  <2> QED
    BY <1>2, <1>6, NoEmission, TerminalFields DEF ReceiptOf, TerminalReceipt
<1> HIDE DEF s, t, n, receipt
<1>9. /\ n.ready = [c.ready EXCEPT !["order"] = Tail(c.ready["order"])]
      /\ n.revision = c.revision + 1 /\ n.receipts = Append(receipts, receipt)
      /\ n.nextAcceptance = c.nextAcceptance /\ n.nextQueue = c.nextQueue
      /\ n.nextStep = c.nextStep + 1
      /\ n.intents = c.intents /\ n.audits = c.audits
      /\ ReceiptOf(receipt, h, c.revision + 1)
  BY <1>3, <1>6, <1>7, <1>8
<1>10. /\ DOMAIN n.receipts = 1 .. last
       /\ \A i \in DOMAIN c.receipts : i \in DOMAIN n.receipts /\ n.receipts[i] = receipts[i]
       /\ n.receipts[last] = receipt
  <2>1. /\ DOMAIN receipts = 1 .. Len(receipts) /\ Len(receipts) \in Nat
        /\ DOMAIN n.receipts = 1 .. Len(receipts) + 1
        /\ \A i \in DOMAIN receipts : n.receipts[i] = receipts[i]
        /\ n.receipts[Len(receipts) + 1] = receipt
    BY <1>4, <1>8, <1>9, Appended
  <2> QED
    BY <2>1, <1>4
<1>11. Follows(c, n)
  BY <1>4, <1>10 DEF Follows
<1>12. Concludes(c, n, h)
  BY <1>8, <1>10, <1>11 DEF Concludes, ReceiptOf
<1>13. Places(n) /\ Ordered(n) /\ Evidence(n)
  BY <1>1, <1>7, <1>9, <1>12, PlacesTaken DEF Linked
<1>14. Live(n) = Live(c) \ {h}
  BY <1>1, <1>7, <1>9, LiveTaken DEF Linked
<1>15. Ends(n) = Ends(c) \cup {last} /\ last \notin Ends(c) /\ last \in Ends(n)
  BY <1>7, <1>12, EndsConcluded
<1>16. PICK by \in Emitting(c, "internal_mailbox") : Emission(c, by).id = h.id
  BY <1>2 DEF Linked, ProducersKnown
<1>17. PICK x \in Live(c) : Emission(c, by) = [kind |-> "internal_mailbox", id |-> x.id,
                                               acceptance |-> x.acceptance, queue |-> x.queue]
  BY DEF Linked, ProducersKnown
<1>18. x = h
  BY <1>2, <1>16, <1>17 DEF Linked, Places, Same
<1>19. /\ \A i, j \in Producing(c) : Emission(c, i).id = Emission(c, j).id => i = j
       /\ \A y \in Live(c) : y.id = h.id => y = h
       /\ ProducersKnown(c)
  BY <1>2 DEF Linked, ProducersKnown, Places, Same
<1>20. \A i \in Ends(c) :
         /\ n.receipts[i].emissions = <<>> <=> c.receipts[i].emissions = <<>>
         /\ c.receipts[i].emissions # <<>> => Emission(n, i) = Settled(Emission(c, i), h, last)
  BY <1>4, <1>10 DEF Ends, Emission
<1>21. /\ Emitting(n, "internal_mailbox") = Emitting(c, "internal_mailbox") \ {by}
       /\ Emitting(n, "internal_terminal") = Emitting(c, "internal_terminal") \cup {by}
       /\ Emitting(n, "external_outbox") = Emitting(c, "external_outbox")
       /\ \A i \in Producing(c) \ {by} : Emission(n, i) = Emission(c, i)
       /\ \A i \in Emitting(c, "external_outbox") : Emission(n, i) = Emission(c, i)
  <2>1. n.receipts[last].emissions = <<>>
    BY <1>8, <1>10
  <2>2. n \in Checkpoint
    BY <1>7
  <2>3. \A i, j \in Producing(c) : Emission(c, i).id = Emission(c, j).id => i = j
    BY <1>19
  <2> HIDE DEF last, h
  <2> QED
    BY ONLY <2>1, <2>2, <2>3, <1>15, <1>16, <1>20, EmittingSettled, c \in Checkpoint
<1>22. by \in Ends(c) /\ by < last /\ c.receipts[by].emissions # <<>>
  BY ReceiptAt DEF Emitting
<1>23. Emission(n, by) = [kind |-> "internal_terminal", id |-> h.id,
                          acceptance |-> h.acceptance, terminal |-> last]
  BY <1>17, <1>18, <1>20, <1>22 DEF Settled
<1>24. n.receipts[last].id = h.id /\ n.receipts[last].acceptance = h.acceptance
  BY <1>8, <1>10 DEF ReceiptOf
<1>25. ProducersKnown(n)
  <2> HIDE DEF last, h
  <2> QED
    BY <1>2, <1>7, <1>9, <1>11, <1>14, <1>15, <1>16, <1>19, <1>21, <1>22, <1>23, <1>24,
       ProducersEnded, ZenonT(60) DEF h
<1>26. EffectsKnown(n)
  BY <1>7, <1>9, <1>21, EffectsSame DEF Linked
<1>27. StepOf(c, n, h)
  <2>1. \A i \in DOMAIN c.receipts : n.receipts[i].revision = c.receipts[i].revision
    BY <1>4, <1>10
  <2>2. n.receipts[last].revision = n.revision
    BY <1>9, <1>10 DEF ReceiptOf
  <2>3. h.id \notin Commits
    BY DEF Deliveries
  <2> QED
    BY <2>1, <2>2, <2>3, <1>9, <1>12 DEF StepOf
<1> QED
  BY <1>7, <1>13, <1>25, <1>26, <1>27 DEF Linked, n

(* Every step keeps the links and adds one end.                              *)
LEMMA ProcessedStep ==
  ASSUME NEW c \in Checkpoint, NEW r \in Runtimes, Runnable(c, r), Linked(c)
  PROVE  Linked(Processed(c, r)) /\ StepOf(c, Processed(c, r), Head(c.ready[r]))
<1> DEFINE h == Head(c.ready[r])
<1>1. c.ready[r] # <<>>
  BY DEF Runnable
<1>2. h \in Live(c) /\ h.id \in Id /\ MailboxOf(h.id) = r
  <2>1. h \in Live(c) /\ h.id \in Id
    BY <1>1, HeadEntry
  <2>2. c.ready[r] \in Seq(Entry)
    BY CheckpointFields
  <2>3. 1 \in DOMAIN c.ready[r] /\ h = c.ready[r][1]
    BY <1>1, <2>2, Headed
  <2> QED
    BY <2>1, <2>3 DEF Linked, Ordered
<1>3. h.id \in Pays <=> r = "payment"
  BY <1>2 DEF MailboxOf
<1>4. r = "order" \/ r = "payment"
  BY DEF Runtimes
<1>5. Starts \cap Pays = {} /\ Starts \cap Commits = {} /\ Pays \cap Commits = {}
      /\ Deliveries = Starts \cup Pays \cup Commits
  BY EventsAssumption DEF Deliveries
<1>6. CASE h.id \in Starts /\ c.state = "idle"
  <2>1. Processed(c, r) = PaymentStarted(c, h)
    BY <1>5, <1>6 DEF Processed
  <2>2. r = "order" /\ h.id \in Deliveries \ Commits
    BY <1>3, <1>4, <1>5, <1>6
  <2> QED
    BY <1>1, <2>1, <2>2, PaymentStartedStep
<1>7. CASE h.id \in Pays \ Short
  <2>1. Processed(c, r) = PaymentCompleted(c, h)
    BY <1>5, <1>7 DEF Processed
  <2>2. r = "payment" /\ h.id \in Deliveries \ Commits
    BY <1>3, <1>5, <1>7
  <2> QED
    BY <1>1, <2>1, <2>2, PaymentCompletedStep
<1>8. CASE h.id \in Commits
  <2>1. Processed(c, r) = EffectSent(c, h)
    BY <1>5, <1>8 DEF Processed
  <2>2. r = "order"
    BY <1>3, <1>4, <1>5, <1>8
  <2> QED
    BY <1>1, <1>8, <2>1, <2>2, EffectSentStep
<1>9. CASE h.id \notin Deliveries
  <2>1. Processed(c, r) = DoneProcessed(c, h)
    BY <1>5, <1>9 DEF Processed
  <2>2. r = "order"
    BY <1>3, <1>4, <1>5, <1>9
  <2> QED
    BY <1>1, <1>9, <2>1, <2>2, DoneProcessedStep
<1>10. CASE /\ ~(h.id \in Starts /\ c.state = "idle") /\ h.id \notin Pays \ Short
            /\ h.id \notin Commits /\ h.id \in Deliveries
  <2>1. Processed(c, r) = Unhandled(c, r, h)
    BY <1>10 DEF Processed
  <2> QED
    BY <1>1, <1>10, <2>1, UnhandledStep
<1> QED
  BY <1>6, <1>7, <1>8, <1>9, <1>10

-----------------------------------------------------------------------------
(* Admission, and what a delivery is presented with.                         *)

LEMMA AdmittedLinked ==
  ASSUME NEW c \in Checkpoint, NEW d \in Deliveries, Linked(c), ~AcceptedIn(c, d),
         d \in Pays => c.ready["payment"] = <<>>
  PROVE  /\ Linked(Admitted(c, d))
         /\ Ends(Admitted(c, d)) = Ends(c)
         /\ Admissions(Admitted(c, d)) = Admissions(c) \cup {Len(c.receipts) + 1}
         /\ Follows(c, Admitted(c, d))
<1> DEFINE n == Admitted(c, d)
           e == EntryOf(c, d)
           last == Len(c.receipts) + 1
<1>1. /\ n \in Checkpoint /\ e \in Entry
      /\ n.ready = [c.ready EXCEPT ![MailboxOf(d)] = Append(c.ready[MailboxOf(d)], e)]
      /\ n.nextAcceptance = c.nextAcceptance + 1 /\ n.nextQueue = c.nextQueue + 1
      /\ AcceptanceOf(c, d) \in Receipt
      /\ n.receipts = Append(c.receipts, AcceptanceOf(c, d))
      /\ n.intents = c.intents /\ n.nextStep = c.nextStep
  BY AdmittedFields
<1>2. AcceptanceOf(c, d).kind = "acceptance"
  BY DEF AcceptanceOf
<1>3. /\ DOMAIN n.receipts = 1 .. last
      /\ \A i \in DOMAIN c.receipts : i \in DOMAIN n.receipts /\ n.receipts[i] = c.receipts[i]
      /\ n.receipts[last] = AcceptanceOf(c, d) /\ last \in DOMAIN n.receipts
      /\ Follows(c, n)
  <2> HIDE DEF n
  <2> QED
    BY <1>1, AppendedReceipt
<1> HIDE DEF n, e
<1>4. DOMAIN n.receipts = DOMAIN c.receipts \cup {last} /\ last \notin DOMAIN c.receipts
  BY <1>3, ReceiptAt
<1>5. Ends(n) = Ends(c) /\ Admissions(n) = Admissions(c) \cup {last}
  BY <1>2, <1>3, <1>4 DEF Ends, Admissions
<1>6. Enqueues(c, n, d) /\ d \in Id
  BY <1>1, <1>3, <1>5 DEF Enqueues, e, Id
<1>7. ~Somewhere(c, d)
  BY DEF Somewhere, Linked, Evidence, Accepts, AcceptedIn, Accepted, Admissions
<1>8. Places(n) /\ Ordered(n)
  BY <1>1, <1>6, <1>7, PlacesEnqueued DEF Linked
<1>9. Live(n) = Live(c) \cup {e}
  BY <1>1, <1>6, LiveEnqueued DEF Linked, e
<1>10. Evidence(n)
  BY <1>1, <1>3, <1>5, <1>9, EvidenceAdmitted DEF Linked, e
<1>11. \A i \in Ends(c) : n.receipts[i].emissions = c.receipts[i].emissions
  BY <1>3 DEF Ends
<1>12. /\ \A kind \in Kinds : Emitting(n, kind) = Emitting(c, kind)
       /\ \A i \in Ends(c) : Emission(n, i) = Emission(c, i)
  BY <1>1, <1>5, <1>11, EmittingSame
<1>13. /\ Emitting(n, "internal_mailbox") = Emitting(c, "internal_mailbox")
       /\ Emitting(n, "internal_terminal") = Emitting(c, "internal_terminal")
       /\ Emitting(n, "external_outbox") = Emitting(c, "external_outbox")
  BY <1>12 DEF Kinds
<1>14. /\ \A i \in Producing(c) : Emission(n, i) = Emission(c, i)
       /\ \A i \in Emitting(c, "external_outbox") : Emission(n, i) = Emission(c, i)
  BY <1>12, EmissionAt DEF Emitting
<1>15. ProducersKnown(n)
  <2>1. /\ \A x \in Live(n) : x.id \notin Deliveries => x \in Live(c)
        /\ \A x \in Live(c) : x.id \notin Deliveries => x \in Live(n)
    BY <1>9 DEF e, EntryOf
  <2>2. \A j \in Ends(n) \ Ends(c) : n.receipts[j].id \in Deliveries
    BY <1>5
  <2>3. n.nextStep >= c.nextStep /\ ProducersKnown(c)
    BY <1>1, CheckpointFields DEF Linked
  <2> QED
    BY <1>1, <1>3, <1>13, <1>14, <2>1, <2>2, <2>3, ProducersSame
<1>16. EffectsKnown(n)
  BY <1>1, <1>13, <1>14, EffectsSame DEF Linked
<1> QED
  BY <1>1, <1>3, <1>5, <1>8, <1>10, <1>15, <1>16 DEF Linked, n

(* Migration, and one revision for what a transaction did.                   *)
LEMMA MigratedFields ==
  ASSUME NEW c \in Checkpoint
  PROVE  /\ Migrated(c) \in Checkpoint
         /\ Migrated(c).ready = c.ready /\ Migrated(c).revision = c.revision
         /\ Migrated(c).status = c.status
         /\ Migrated(c).nextAcceptance = c.nextAcceptance
         /\ Migrated(c).nextQueue = c.nextQueue
         /\ Migrated(c).nextStep = c.nextStep
         /\ Migrated(c).receipts = c.receipts /\ Migrated(c).intents = c.intents
         /\ \E a \in Audit : /\ a.sourceRevision = c.revision
                             /\ Migrated(c).audits = Append(c.audits, a)
<1> DEFINE a == [source |-> c.definition, target |-> "target", sourceRevision |-> c.revision]
           audits == Append(c.audits, a)
<1>1. a \in Audit /\ a.sourceRevision = c.revision
  BY CheckpointFields DEF Audit
<1> HIDE DEF a
<1>2. audits \in Seq(Audit)
  BY <1>1, CheckpointFields, AppendProperties
<1>3. Migrated(c) = [c EXCEPT !.definition = "target", !.audits = audits]
  BY DEF Migrated, a
<1> HIDE DEF audits
<1>4. Migrated(c) \in Checkpoint
  <2>1. \A au \in Seq(Audit) :
          [c EXCEPT !.definition = "target", !.audits = au] \in Checkpoint
    BY DEF Checkpoint
  <2> QED
    BY <2>1, <1>2, <1>3
<1>5. /\ Migrated(c).ready = c.ready /\ Migrated(c).revision = c.revision
      /\ Migrated(c).status = c.status
      /\ Migrated(c).nextAcceptance = c.nextAcceptance
      /\ Migrated(c).nextQueue = c.nextQueue
      /\ Migrated(c).nextStep = c.nextStep
      /\ Migrated(c).receipts = c.receipts /\ Migrated(c).intents = c.intents
      /\ Migrated(c).audits = audits
  BY <1>3 DEF Checkpoint
<1> QED
  BY <1>1, <1>4, <1>5 DEF audits

LEMMA RevisedReceipt ==
  ASSUME NEW x \in Receipt, NEW v \in Nat
  PROVE  /\ [x EXCEPT !.revision = v] \in Receipt
         /\ [x EXCEPT !.revision = v].revision = v
         /\ Repeats(x, [x EXCEPT !.revision = v])
         /\ x.kind = "terminal" => [x EXCEPT !.revision = v].emissions = x.emissions
  BY DEF Receipt, CreationReceipt, AcceptanceReceipt, TerminalReceipt, Repeats

LEMMA RevisedIntent ==
  ASSUME NEW x \in Intent, NEW v \in Nat
  PROVE  /\ [x EXCEPT !.revision = v] \in Intent
         /\ [x EXCEPT !.revision = v].revision = v
         /\ [x EXCEPT !.revision = v].effect = x.effect
  BY DEF Intent

LEMMA CoalescedFields ==
  ASSUME NEW c \in Checkpoint, NEW p \in Checkpoint
  PROVE  LET n == Coalesced(c, p)
         IN /\ n \in Checkpoint /\ n.revision = c.revision + 1
            /\ n.ready = p.ready /\ n.status = p.status
            /\ n.nextAcceptance = p.nextAcceptance /\ n.nextQueue = p.nextQueue
            /\ n.nextStep = p.nextStep /\ n.audits = p.audits
            /\ DOMAIN n.receipts = DOMAIN p.receipts
            /\ \A i \in DOMAIN p.receipts :
                 /\ Repeats(p.receipts[i], n.receipts[i])
                 /\ p.receipts[i].kind = "terminal" =>
                      n.receipts[i].emissions = p.receipts[i].emissions
                 /\ n.receipts[i].revision = IF i <= Len(c.receipts) THEN p.receipts[i].revision
                                             ELSE c.revision + 1
            /\ DOMAIN n.intents = DOMAIN p.intents
            /\ \A k \in DOMAIN p.intents :
                 IF p.intents[k].revision <= c.revision THEN n.intents[k] = p.intents[k]
                 ELSE /\ n.intents[k].revision = c.revision + 1
                      /\ n.intents[k].effect = p.intents[k].effect
<1> DEFINE revision == c.revision + 1
           receipts == [i \in DOMAIN p.receipts |->
                          IF i <= Len(c.receipts) THEN p.receipts[i]
                          ELSE [p.receipts[i] EXCEPT !.revision = revision]]
           intents == [k \in DOMAIN p.intents |->
                         IF p.intents[k].revision <= c.revision THEN p.intents[k]
                         ELSE [p.intents[k] EXCEPT !.revision = revision]]
           n == Coalesced(c, p)
<1>1. n = [p EXCEPT !.revision = revision, !.receipts = receipts, !.intents = intents]
  BY DEF Coalesced
<1>2. revision \in Nat
  BY CheckpointFields
<1>3. /\ DOMAIN p.receipts = 1 .. Len(p.receipts) /\ Len(p.receipts) \in Nat
      /\ \A i \in DOMAIN p.receipts : p.receipts[i] \in Receipt
      /\ DOMAIN p.intents = 1 .. Len(p.intents) /\ Len(p.intents) \in Nat
      /\ \A k \in DOMAIN p.intents : p.intents[k] \in Intent
  BY ReceiptAt, RecordAt
<1> HIDE DEF revision, n
<1>4. \A i \in DOMAIN p.receipts :
        /\ receipts[i] \in Receipt
        /\ Repeats(p.receipts[i], receipts[i])
        /\ p.receipts[i].kind = "terminal" => receipts[i].emissions = p.receipts[i].emissions
        /\ receipts[i].revision = IF i <= Len(c.receipts) THEN p.receipts[i].revision
                                  ELSE revision
  <2>1. SUFFICES ASSUME NEW i \in DOMAIN p.receipts
        PROVE  /\ receipts[i] \in Receipt
               /\ Repeats(p.receipts[i], receipts[i])
               /\ p.receipts[i].kind = "terminal" =>
                    receipts[i].emissions = p.receipts[i].emissions
               /\ receipts[i].revision = IF i <= Len(c.receipts) THEN p.receipts[i].revision
                                         ELSE revision
    OBVIOUS
  <2>2. CASE i <= Len(c.receipts)
    <3>1. receipts[i] = p.receipts[i] /\ p.receipts[i] \in Receipt
      BY <2>2, <1>3
    <3> HIDE DEF receipts
    <3> QED
      BY <2>2, <3>1 DEF Repeats
  <2>3. CASE ~(i <= Len(c.receipts))
    <3>1. receipts[i] = [p.receipts[i] EXCEPT !.revision = revision]
          /\ p.receipts[i] \in Receipt
      BY <2>3, <1>3
    <3> HIDE DEF receipts
    <3> QED
      BY <2>3, <3>1, <1>2, RevisedReceipt
  <2> QED
    BY <2>2, <2>3
<1>5. \A k \in DOMAIN p.intents :
        /\ intents[k] \in Intent
        /\ IF p.intents[k].revision <= c.revision THEN intents[k] = p.intents[k]
           ELSE intents[k].revision = revision /\ intents[k].effect = p.intents[k].effect
  BY <1>2, <1>3, RevisedIntent
<1>6. receipts \in Seq(Receipt) /\ DOMAIN receipts = DOMAIN p.receipts
  <2>1. receipts \in [1 .. Len(p.receipts) -> Receipt]
    BY <1>3, <1>4
  <2> HIDE DEF receipts
  <2> QED
    BY <2>1, <1>3
<1>7. intents \in Seq(Intent) /\ DOMAIN intents = DOMAIN p.intents
  <2>1. intents \in [1 .. Len(p.intents) -> Intent]
    BY <1>3, <1>5
  <2> HIDE DEF intents
  <2> QED
    BY <2>1, <1>3
<1> HIDE DEF receipts, intents
<1>8. n \in Checkpoint
  <2>1. \A v \in Nat, rc \in Seq(Receipt), it \in Seq(Intent) :
          [p EXCEPT !.revision = v, !.receipts = rc, !.intents = it] \in Checkpoint
    BY DEF Checkpoint
  <2> QED
    BY <2>1, <1>1, <1>2, <1>6, <1>7
<1>9. /\ n.revision = revision /\ n.receipts = receipts /\ n.intents = intents
      /\ n.ready = p.ready /\ n.status = p.status
      /\ n.nextAcceptance = p.nextAcceptance /\ n.nextQueue = p.nextQueue
      /\ n.nextStep = p.nextStep /\ n.audits = p.audits
  BY <1>1 DEF Checkpoint
<1> QED
  BY <1>4, <1>5, <1>6, <1>7, <1>8, <1>9 DEF revision, n

(* A checkpoint with other revisions only keeps the links.                   *)
LEMMA LinkedSame ==
  ASSUME NEW c \in Checkpoint, NEW n \in Checkpoint, Linked(c), Follows(c, n),
         n.ready = c.ready, n.nextAcceptance = c.nextAcceptance, n.nextQueue = c.nextQueue,
         n.nextStep = c.nextStep, DOMAIN n.receipts = DOMAIN c.receipts,
         \A i \in Ends(c) : n.receipts[i].emissions = c.receipts[i].emissions,
         DOMAIN n.intents = DOMAIN c.intents,
         \A k \in DOMAIN c.intents : n.intents[k].effect = c.intents[k].effect
  PROVE  Linked(n)
<1>1. /\ Places(n) /\ Ordered(n) /\ Evidence(n)
      /\ Ends(n) = Ends(c) /\ Live(n) = Live(c)
  BY PlacesSame DEF Linked
<1>2. /\ \A kind \in Kinds : Emitting(n, kind) = Emitting(c, kind)
      /\ \A i \in Ends(c) : Emission(n, i) = Emission(c, i)
  BY <1>1, EmittingSame
<1>3. /\ Emitting(n, "internal_mailbox") = Emitting(c, "internal_mailbox")
      /\ Emitting(n, "internal_terminal") = Emitting(c, "internal_terminal")
      /\ Emitting(n, "external_outbox") = Emitting(c, "external_outbox")
  BY <1>2 DEF Kinds
<1>4. /\ \A i \in Producing(c) : Emission(n, i) = Emission(c, i)
      /\ \A i \in Emitting(c, "external_outbox") : Emission(n, i) = Emission(c, i)
  BY <1>2, EmissionAt DEF Emitting
<1>5. ProducersKnown(n)
  <2>1. /\ \A x \in Live(n) : x.id \notin Deliveries => x \in Live(c)
        /\ \A x \in Live(c) : x.id \notin Deliveries => x \in Live(n)
        /\ \A j \in Ends(n) \ Ends(c) : n.receipts[j].id \in Deliveries
    BY <1>1
  <2>2. n.nextStep >= c.nextStep /\ ProducersKnown(c)
    BY CheckpointFields DEF Linked
  <2> QED
    BY <1>3, <1>4, <2>1, <2>2, ProducersSame
<1>6. EffectsKnown(n)
  BY <1>3, <1>4, EffectsSame DEF Linked
<1> QED
  BY <1>1, <1>5, <1>6 DEF Linked

(* A delivery presented, admitted and processed in one transaction: what the *)
(* transaction adds.                                                         *)
CombinationOf(c, n, d, migrates) ==
  LET first == Len(c.receipts) + 1
      second == Len(c.receipts) + 2
  IN /\ n.revision = c.revision + 1
     /\ Follows(c, n) /\ DOMAIN n.receipts = 1 .. second
     /\ \A i \in DOMAIN c.receipts : n.receipts[i].revision = c.receipts[i].revision
     /\ n.receipts[first].kind = "acceptance" /\ n.receipts[first].id = d
     /\ n.receipts[first].revision = n.revision
     /\ n.receipts[second].kind = "terminal" /\ n.receipts[second].id = d
     /\ n.receipts[second].revision = n.revision
     /\ \A k \in DOMAIN c.intents : k \in DOMAIN n.intents /\ n.intents[k] = c.intents[k]
     /\ \A k \in DOMAIN n.intents \ DOMAIN c.intents :
          /\ n.intents[k].revision = n.revision
          /\ n.intents[k].effect.cause = d /\ d \in Commits
     /\ d \in Commits => DOMAIN n.intents \ DOMAIN c.intents # {}
     /\ IF migrates
        THEN \E a \in Audit : a.sourceRevision = c.revision /\ n.audits = Append(c.audits, a)
        ELSE n.audits = c.audits

LEMMA CombinedStep ==
  ASSUME NEW c \in Checkpoint, NEW d \in Deliveries, NEW migrates \in BOOLEAN,
         Linked(c), Dated(c), ~AcceptedIn(c, d), c.status = "running",
         c.ready[MailboxOf(d)] = <<>>
  PROVE  Linked(Combined(c, d, migrates)) /\ CombinationOf(c, Combined(c, d, migrates), d, migrates)
<1> DEFINE r == MailboxOf(d)
           g == IF migrates THEN Migrated(c) ELSE c
           a == Admitted(g, d)
           p == Processed(a, r)
           n == Coalesced(c, p)
           e == EntryOf(g, d)
           first == Len(c.receipts) + 1
           second == Len(c.receipts) + 2
<1>1. n = Combined(c, d, migrates)
  BY DEF Combined
<1>2. r \in Runtimes /\ (d \in Pays => r = "payment")
  BY DEF MailboxOf, Runtimes
<1>3. /\ g \in Checkpoint /\ g.ready = c.ready /\ g.revision = c.revision
      /\ g.status = c.status
      /\ g.nextAcceptance = c.nextAcceptance /\ g.nextQueue = c.nextQueue
      /\ g.nextStep = c.nextStep
      /\ g.receipts = c.receipts /\ g.intents = c.intents
      /\ IF migrates
         THEN \E x \in Audit : x.sourceRevision = c.revision /\ g.audits = Append(c.audits, x)
         ELSE g.audits = c.audits
  <2>1. CASE migrates
    BY <2>1, MigratedFields
  <2>2. CASE ~migrates
    BY <2>2
  <2> QED
    BY <2>1, <2>2
<1> HIDE DEF r, g
<1>4. Linked(g) /\ ~AcceptedIn(g, d)
  <2>1. Follows(c, g) /\ Ends(g) = Ends(c)
    BY <1>3 DEF Follows, Repeats, Ends
  <2>2. Linked(g)
    BY <2>1, <1>3, LinkedSame
  <2>3. ~AcceptedIn(g, d)
    BY <1>3 DEF AcceptedIn, Accepted
  <2> QED
    BY <2>2, <2>3
<1>5. /\ a \in Checkpoint /\ e \in Entry /\ e.id = d
      /\ a.ready = [g.ready EXCEPT ![r] = Append(g.ready[r], e)]
      /\ AcceptanceOf(g, d) \in Receipt
      /\ a.receipts = Append(g.receipts, AcceptanceOf(g, d))
      /\ a.intents = g.intents /\ a.audits = g.audits
      /\ a.revision = g.revision + 1 /\ a.status = g.status
  BY <1>3, AdmittedFields DEF r, EntryOf
<1>6. Linked(a)
  BY <1>2, <1>3, <1>4, AdmittedLinked DEF r
<1> HIDE DEF a, e
<1>7. a.ready[r] = <<e>> /\ Head(a.ready[r]) = e
  <2>1. g.ready[r] = <<>> /\ g.ready \in [Runtimes -> Seq(Entry)]
    BY <1>3, CheckpointFields DEF r
  <2>2. a.ready[r] = Append(<<>>, e)
    BY <2>1, <1>2, <1>5
  <2> QED
    BY <2>2
<1>8. Runnable(a, r)
  <2>1. a.ready[r] # <<>>
    BY <1>7
  <2>2. a.status = "running"
    BY <1>3, <1>5
  <2> QED
    BY <2>1, <2>2 DEF Runnable
<1>9. Linked(p) /\ StepOf(a, p, e)
  BY <1>2, <1>5, <1>6, <1>7, <1>8, ProcessedStep
<1>10. p \in Checkpoint
  BY <1>9 DEF Linked
<1> HIDE DEF p
<1>11. /\ n \in Checkpoint /\ n.revision = c.revision + 1
       /\ n.ready = p.ready /\ n.status = p.status
       /\ n.nextAcceptance = p.nextAcceptance /\ n.nextQueue = p.nextQueue
       /\ n.nextStep = p.nextStep /\ n.audits = p.audits
       /\ DOMAIN n.receipts = DOMAIN p.receipts
       /\ \A i \in DOMAIN p.receipts :
            /\ Repeats(p.receipts[i], n.receipts[i])
            /\ p.receipts[i].kind = "terminal" =>
                 n.receipts[i].emissions = p.receipts[i].emissions
            /\ n.receipts[i].revision = IF i <= Len(c.receipts) THEN p.receipts[i].revision
                                        ELSE c.revision + 1
       /\ DOMAIN n.intents = DOMAIN p.intents
       /\ \A k \in DOMAIN p.intents :
            IF p.intents[k].revision <= c.revision THEN n.intents[k] = p.intents[k]
            ELSE /\ n.intents[k].revision = c.revision + 1
                 /\ n.intents[k].effect = p.intents[k].effect
  BY <1>10, CoalescedFields
<1> HIDE DEF n
<1>12. Linked(n)
  <2>1. Follows(p, n)
    BY <1>11 DEF Follows
  <2>2. \A i \in Ends(p) : n.receipts[i].emissions = p.receipts[i].emissions
    BY <1>11 DEF Ends
  <2>3. \A k \in DOMAIN p.intents : n.intents[k].effect = p.intents[k].effect
    BY <1>11
  <2> QED
    BY <2>1, <2>2, <2>3, <1>9, <1>10, <1>11, LinkedSame
<1>13. /\ DOMAIN c.receipts = 1 .. Len(c.receipts) /\ Len(c.receipts) \in Nat
       /\ c.revision \in Nat
       /\ DOMAIN c.intents = 1 .. Len(c.intents)
       /\ \A k \in DOMAIN c.intents : c.intents[k] \in Intent
  BY ReceiptAt, RecordAt, CheckpointFields
<1>14. /\ DOMAIN a.receipts = 1 .. first
       /\ \A i \in DOMAIN c.receipts : i \in DOMAIN a.receipts /\ a.receipts[i] = c.receipts[i]
       /\ a.receipts[first] = AcceptanceOf(g, d) /\ first \in DOMAIN a.receipts
       /\ Len(a.receipts) = first
  <2>1. /\ DOMAIN a.receipts = 1 .. first
        /\ \A i \in DOMAIN c.receipts : i \in DOMAIN a.receipts /\ a.receipts[i] = c.receipts[i]
        /\ a.receipts[first] = AcceptanceOf(g, d) /\ first \in DOMAIN a.receipts
    BY <1>3, <1>5, AppendedReceipt
  <2>2. Len(a.receipts) = first
    <3>1. a.receipts \in Seq(Receipt)
      BY <1>5 DEF Checkpoint
    <3>2. first \in Nat
      BY <1>13
    <3> QED
      BY <2>1, <3>1, <3>2, LenProperties
  <2> QED
    BY <2>1, <2>2
<1>15. /\ Follows(a, p) /\ DOMAIN p.receipts = 1 .. first + 1
       /\ p.receipts[first + 1].kind = "terminal" /\ p.receipts[first + 1].id = d
       /\ \A i \in DOMAIN a.receipts : p.receipts[i].revision = a.receipts[i].revision
       /\ p.audits = a.audits
       /\ \A k \in DOMAIN a.intents : k \in DOMAIN p.intents /\ p.intents[k] = a.intents[k]
       /\ \A k \in DOMAIN p.intents \ DOMAIN a.intents :
            /\ p.intents[k].revision = p.revision
            /\ p.intents[k].effect.cause = d /\ d \in Commits
       /\ d \in Commits => DOMAIN p.intents \ DOMAIN a.intents # {}
       /\ p.revision = a.revision + 1
  BY <1>5, <1>9, <1>14 DEF StepOf, Concludes
<1>16. AcceptanceOf(g, d).kind = "acceptance" /\ AcceptanceOf(g, d).id = d
  BY DEF AcceptanceOf
<1>17. /\ first + 1 = second /\ first \in Nat /\ second \in Nat
       /\ first \in 1 .. second /\ second \in 1 .. second
       /\ ~(first <= Len(c.receipts)) /\ ~(second <= Len(c.receipts))
       /\ \A i \in DOMAIN c.receipts : i <= Len(c.receipts) /\ i \in 1 .. second
  BY <1>13
<1> HIDE DEF first, second
<1>18. /\ DOMAIN n.receipts = 1 .. second
       /\ \A i \in DOMAIN c.receipts : /\ Repeats(c.receipts[i], n.receipts[i])
                                       /\ n.receipts[i].revision = c.receipts[i].revision
  <2>1. DOMAIN n.receipts = 1 .. second /\ DOMAIN p.receipts = 1 .. second
    BY <1>11, <1>15, <1>17
  <2>2. SUFFICES ASSUME NEW i \in DOMAIN c.receipts
                 PROVE  /\ Repeats(c.receipts[i], n.receipts[i])
                        /\ n.receipts[i].revision = c.receipts[i].revision
    BY <2>1
  <2>3. a.receipts[i] = c.receipts[i] /\ i \in DOMAIN a.receipts /\ i \in DOMAIN p.receipts
    BY <2>1, <1>14, <1>17
  <2>4. Repeats(a.receipts[i], p.receipts[i]) /\ p.receipts[i].revision = a.receipts[i].revision
    BY <2>3, <1>15 DEF Follows
  <2>5. Repeats(p.receipts[i], n.receipts[i]) /\ n.receipts[i].revision = p.receipts[i].revision
    BY <2>3, <1>11, <1>17
  <2> QED
    BY <2>3, <2>4, <2>5 DEF Repeats
<1>19. /\ n.receipts[first].kind = "acceptance" /\ n.receipts[first].id = d
       /\ n.receipts[first].revision = n.revision
       /\ n.receipts[second].kind = "terminal" /\ n.receipts[second].id = d
       /\ n.receipts[second].revision = n.revision
  <2>1. first \in DOMAIN p.receipts /\ second \in DOMAIN p.receipts
    BY <1>15, <1>17
  <2>2. Repeats(a.receipts[first], p.receipts[first])
    BY <1>14, <1>15 DEF Follows
  <2>3. p.receipts[first].kind = "acceptance" /\ p.receipts[first].id = d
    BY <2>2, <1>14, <1>16 DEF Repeats
  <2>4. p.receipts[second].kind = "terminal" /\ p.receipts[second].id = d
    BY <1>15, <1>17
  <2>5. Repeats(p.receipts[first], n.receipts[first]) /\ Repeats(p.receipts[second], n.receipts[second])
    BY <2>1, <1>11
  <2>6. n.receipts[first].revision = n.revision /\ n.receipts[second].revision = n.revision
    BY <2>1, <1>11, <1>17
  <2> QED
    BY <2>3, <2>4, <2>5, <2>6 DEF Repeats
<1>20. /\ \A k \in DOMAIN c.intents : k \in DOMAIN n.intents /\ n.intents[k] = c.intents[k]
       /\ \A k \in DOMAIN n.intents \ DOMAIN c.intents :
            /\ n.intents[k].revision = n.revision
            /\ n.intents[k].effect.cause = d /\ d \in Commits
       /\ d \in Commits => DOMAIN n.intents \ DOMAIN c.intents # {}
  <2>1. a.intents = c.intents /\ DOMAIN n.intents = DOMAIN p.intents
    BY <1>3, <1>5, <1>11
  <2>2. \A k \in DOMAIN c.intents : c.intents[k].revision <= c.revision
    BY DEF Dated
  <2>3. ~(p.revision <= c.revision)
    BY <1>3, <1>5, <1>13, <1>15
  <2> QED
    BY <2>1, <2>2, <2>3, <1>11, <1>15
<1>21. IF migrates
       THEN \E x \in Audit : x.sourceRevision = c.revision /\ n.audits = Append(c.audits, x)
       ELSE n.audits = c.audits
  <2>1. n.audits = g.audits
    BY <1>5, <1>11, <1>15
  <2> QED
    BY <2>1, <1>3
<1>22. Follows(c, n)
  BY <1>17, <1>18 DEF Follows
<1>23. CombinationOf(c, n, d, migrates)
  BY <1>11, <1>18, <1>19, <1>20, <1>21, <1>22 DEF CombinationOf, first, second
<1> QED
  BY <1>1, <1>12, <1>23

-----------------------------------------------------------------------------
(* What an operation of one revision adds comes after what was there.         *)

Grows(c, n) ==
  /\ n.revision = c.revision + 1
  /\ Follows(c, n)
  /\ \A i \in DOMAIN c.receipts : n.receipts[i].revision = c.receipts[i].revision
  /\ \A i \in DOMAIN n.receipts \ DOMAIN c.receipts : n.receipts[i].revision = n.revision
  /\ \A k \in DOMAIN c.intents : k \in DOMAIN n.intents /\ n.intents[k] = c.intents[k]
  /\ \A k \in DOMAIN n.intents \ DOMAIN c.intents : n.intents[k].revision = n.revision
  /\ n.audits = c.audits \/ \E a \in Audit : /\ a.sourceRevision = c.revision
                                              /\ n.audits = Append(c.audits, a)

(* The audits after an operation of one revision.                            *)
LEMMA AuditsGrown ==
  ASSUME NEW c \in Checkpoint, NEW n \in Checkpoint, Grows(c, n)
  PROVE  /\ \A k \in DOMAIN c.audits : k \in DOMAIN n.audits /\ n.audits[k] = c.audits[k]
         /\ \A k \in DOMAIN n.audits \ DOMAIN c.audits : n.audits[k].sourceRevision = c.revision
<1>1. CASE n.audits = c.audits
  BY <1>1
<1>2. CASE \E a \in Audit : a.sourceRevision = c.revision /\ n.audits = Append(c.audits, a)
  <2>1. PICK a \in Audit : a.sourceRevision = c.revision /\ n.audits = Append(c.audits, a)
    BY <1>2
  <2>2. /\ DOMAIN c.audits = 1 .. Len(c.audits) /\ Len(c.audits) \in Nat
        /\ DOMAIN n.audits = 1 .. Len(c.audits) + 1
        /\ \A k \in DOMAIN c.audits : n.audits[k] = c.audits[k]
        /\ n.audits[Len(c.audits) + 1] = a
    BY <2>1, CheckpointFields, Appended
  <2>3. /\ \A k \in DOMAIN n.audits : k \in DOMAIN c.audits \/ k = Len(c.audits) + 1
        /\ \A k \in DOMAIN c.audits : k \in DOMAIN n.audits
    BY <2>2
  <2> QED
    BY <2>1, <2>2, <2>3
<1> QED
  BY <1>1, <1>2 DEF Grows

LEMMA DatedGrown ==
  ASSUME NEW c \in Checkpoint, NEW n \in Checkpoint, Grows(c, n), Dated(c)
  PROVE  Dated(n)
<1>1. /\ DOMAIN c.receipts = 1 .. Len(c.receipts) /\ Len(c.receipts) \in Nat
      /\ DOMAIN n.receipts = 1 .. Len(n.receipts) /\ Len(n.receipts) \in Nat
      /\ c.revision \in Nat
      /\ \A i \in DOMAIN c.receipts : c.receipts[i].revision \in Nat
      /\ \A k \in DOMAIN c.intents : c.intents[k].revision \in Nat
      /\ \A k \in DOMAIN c.audits : c.audits[k].sourceRevision \in Nat
  BY ReceiptAt, ReceiptFields, RecordAt, CheckpointFields DEF Intent, Audit
<1>2. /\ n.revision = c.revision + 1
      /\ \A i \in DOMAIN c.receipts : n.receipts[i].revision = c.receipts[i].revision
      /\ \A i \in DOMAIN n.receipts \ DOMAIN c.receipts : n.receipts[i].revision = n.revision
      /\ \A k \in DOMAIN c.intents : n.intents[k] = c.intents[k]
      /\ \A k \in DOMAIN n.intents \ DOMAIN c.intents : n.intents[k].revision = n.revision
  BY DEF Grows
<1>3. \A i \in DOMAIN n.receipts : n.receipts[i].revision <= n.revision
  BY <1>1, <1>2 DEF Dated
<1>4. \A i, j \in DOMAIN n.receipts : i < j => n.receipts[i].revision <= n.receipts[j].revision
  <2>1. SUFFICES ASSUME NEW i \in DOMAIN n.receipts, NEW j \in DOMAIN n.receipts, i < j
                 PROVE  n.receipts[i].revision <= n.receipts[j].revision
    OBVIOUS
  <2>2. CASE j \in DOMAIN c.receipts
    <3>1. i \in DOMAIN c.receipts
      BY <2>1, <2>2, <1>1
    <3> QED
      BY <2>1, <2>2, <3>1, <1>2 DEF Dated
  <2>3. CASE j \notin DOMAIN c.receipts
    BY <2>3, <1>2, <1>3
  <2> QED
    BY <2>2, <2>3
<1>5. \A k \in DOMAIN n.intents : n.intents[k].revision <= n.revision
  BY <1>1, <1>2 DEF Dated
<1>6. \A k \in DOMAIN n.audits : n.audits[k].sourceRevision < n.revision
  BY <1>1, <1>2, AuditsGrown DEF Dated
<1> QED
  BY <1>3, <1>4, <1>5, <1>6 DEF Dated

LEMMA GrowsStep ==
  ASSUME NEW c \in Checkpoint, NEW n \in Checkpoint, NEW h, StepOf(c, n, h)
  PROVE  Grows(c, n)
<1> DEFINE last == Len(c.receipts) + 1
<1>1. /\ DOMAIN n.receipts = 1 .. last /\ Follows(c, n)
      /\ n.receipts[last].revision = n.revision
  BY DEF StepOf, Concludes
<1>2. \A i \in 1 .. last : i \in DOMAIN c.receipts \/ i = last
  BY ReceiptAt
<1> HIDE DEF last
<1>3. \A i \in DOMAIN n.receipts \ DOMAIN c.receipts : n.receipts[i].revision = n.revision
  BY <1>1, <1>2
<1> QED
  BY <1>1, <1>3 DEF StepOf, Grows

LEMMA GrowsAdmitted ==
  ASSUME NEW c \in Checkpoint, NEW d \in Deliveries
  PROVE  Grows(c, Admitted(c, d))
<1> DEFINE n == Admitted(c, d)
           last == Len(c.receipts) + 1
<1>1. /\ n \in Checkpoint /\ AcceptanceOf(c, d) \in Receipt
      /\ n.receipts = Append(c.receipts, AcceptanceOf(c, d))
      /\ n.intents = c.intents /\ n.audits = c.audits /\ n.revision = c.revision + 1
  BY AdmittedFields
<1> HIDE DEF n
<1>2. /\ DOMAIN n.receipts = 1 .. last
      /\ \A i \in DOMAIN c.receipts : i \in DOMAIN n.receipts /\ n.receipts[i] = c.receipts[i]
      /\ n.receipts[last] = AcceptanceOf(c, d) /\ Follows(c, n)
  BY <1>1, AppendedReceipt
<1>3. \A i \in 1 .. last : i \in DOMAIN c.receipts \/ i = last
  BY ReceiptAt
<1>4. AcceptanceOf(c, d).revision = n.revision
  BY <1>1 DEF AcceptanceOf
<1> HIDE DEF last
<1> QED
  BY <1>1, <1>2, <1>3, <1>4 DEF Grows, n

LEMMA GrowsCombined ==
  ASSUME NEW c \in Checkpoint, NEW n \in Checkpoint, NEW d, NEW migrates \in BOOLEAN,
         CombinationOf(c, n, d, migrates)
  PROVE  Grows(c, n)
<1> DEFINE first == Len(c.receipts) + 1
           second == Len(c.receipts) + 2
<1>1. /\ n.revision = c.revision + 1 /\ DOMAIN n.receipts = 1 .. second /\ Follows(c, n)
      /\ \A i \in DOMAIN c.receipts : n.receipts[i].revision = c.receipts[i].revision
      /\ n.receipts[first].revision = n.revision /\ n.receipts[second].revision = n.revision
      /\ \A k \in DOMAIN c.intents : k \in DOMAIN n.intents /\ n.intents[k] = c.intents[k]
      /\ \A k \in DOMAIN n.intents \ DOMAIN c.intents : n.intents[k].revision = n.revision
      /\ n.audits = c.audits \/ \E a \in Audit : /\ a.sourceRevision = c.revision
                                                 /\ n.audits = Append(c.audits, a)
  BY DEF CombinationOf
<1>2. \A i \in 1 .. second : i \in DOMAIN c.receipts \/ i = first \/ i = second
  BY ReceiptAt
<1> HIDE DEF first, second
<1> QED
  BY <1>1, <1>2 DEF Grows

-----------------------------------------------------------------------------
(* The first checkpoint.                                                     *)

LEMMA CreatedFields ==
  /\ Created \in Checkpoint
  /\ Created.revision = 0 /\ Created.nextAcceptance = 0
  /\ DOMAIN Created.receipts = {1} /\ Created.receipts[1].kind = "creation"
  /\ Created.receipts[1].revision = 0
  /\ Created.ready = [r \in Runtimes |-> <<>>]
  /\ Created.intents = <<>> /\ Created.audits = <<>>
  /\ Ends(Created) = {} /\ Admissions(Created) = {} /\ Live(Created) = {}
<1> DEFINE x == [kind |-> "creation", revision |-> 0]
           ready == [r \in Runtimes |-> <<>>]
<1>1. x \in Receipt
  BY DEF Receipt, CreationReceipt
<1>2. <<x>> \in Seq(Receipt) /\ DOMAIN <<x>> = {1} /\ <<x>>[1] = x
  <2> HIDE DEF x
  <2> QED
    BY <1>1
<1>3. ready \in [Runtimes -> Seq(Entry)] /\ <<>> \in Seq(Intent) /\ <<>> \in Seq(Audit)
  BY EmptySeq
<1>4. Created \in Checkpoint
  <2> HIDE DEF x, ready
  <2>1. Created =
          [revision |-> 0, definition |-> "source",
           state |-> "idle", status |-> "running", payment |-> "absent", ready |-> ready,
           nextAcceptance |-> 0, nextQueue |-> 0, nextStep |-> 1, nextOutput |-> 0,
           receipts |-> <<x>>, intents |-> <<>>, audits |-> <<>>]
    BY DEF Created, x, ready
  <2> QED
    BY <2>1, <1>2, <1>3 DEF Checkpoint
<1>5. /\ Created.revision = 0 /\ Created.nextAcceptance = 0
      /\ Created.receipts = <<x>> /\ Created.ready = ready
      /\ Created.intents = <<>> /\ Created.audits = <<>>
  BY DEF Created
<1>6. x.kind = "creation" /\ x.revision = 0
  OBVIOUS
<1> HIDE DEF x
<1>7. DOMAIN Created.receipts = {1} /\ Created.receipts[1] = x
  BY <1>2, <1>5
<1>8. Ends(Created) = {} /\ Admissions(Created) = {}
  BY <1>6, <1>7 DEF Ends, Admissions
<1>9. Live(Created) = {}
  <2>1. \A r \in Runtimes : Range(Created.ready[r]) = {}
    BY <1>5 DEF Range
  <2> QED
    BY <2>1 DEF Live
<1> QED
  BY <1>4, <1>5, <1>6, <1>7, <1>8, <1>9

LEMMA CreatedLinked == Linked(Created) /\ Dated(Created)
<1>1. Places(Created) /\ Evidence(Created)
  BY CreatedFields DEF Places, Evidence
<1>2. Ordered(Created)
  <2>1. \A r \in Runtimes : Created.ready[r] = <<>> /\ DOMAIN Created.ready[r] = {}
    BY CreatedFields
  <2>2. "payment" \in Runtimes
    BY DEF Runtimes
  <2>3. Len(Created.ready["payment"]) <= 1
    BY <2>1, <2>2
  <2> QED
    BY <2>1, <2>3, CreatedFields DEF Ordered
<1>3. \A kind : Emitting(Created, kind) = {}
  BY CreatedFields DEF Emitting
<1>4. ProducersKnown(Created)
  BY <1>3, CreatedFields DEF ProducersKnown, Producing
<1>5. EffectsKnown(Created)
  <2>1. DOMAIN Created.intents = {}
    BY CreatedFields
  <2> QED
    BY <1>3, <2>1 DEF EffectsKnown
<1>6. Dated(Created)
  <2>1. DOMAIN Created.intents = {} /\ DOMAIN Created.audits = {}
    BY CreatedFields
  <2> QED
    BY <2>1, CreatedFields DEF Dated
<1> QED
  BY <1>1, <1>2, <1>4, <1>5, <1>6, CreatedFields DEF Linked

-----------------------------------------------------------------------------
(* A checkpoint with its links and dates passes the validator.               *)

LEMMA ReferencesAre ==
  ASSUME NEW c \in Checkpoint
  PROVE  /\ References(c) = {[by |-> i, ref |-> Emission(c, i)] :
                               i \in {j \in Ends(c) : c.receipts[j].emissions # <<>>}}
         /\ Produced(c) = {[by |-> i, ref |-> Emission(c, i)] : i \in Producing(c)}
         /\ References(c) \ Produced(c) =
              {[by |-> i, ref |-> Emission(c, i)] : i \in Emitting(c, "external_outbox")}
<1> DEFINE emitting == {j \in Ends(c) : c.receipts[j].emissions # <<>>}
           at(i) == [by |-> i, ref |-> Emission(c, i)]
<1>1. \A i \in Ends(c) : Range(c.receipts[i].emissions) =
                           {x \in {Emission(c, i)} : c.receipts[i].emissions # <<>>}
  <2>1. SUFFICES ASSUME NEW i \in Ends(c)
                 PROVE  Range(c.receipts[i].emissions) =
                           {x \in {Emission(c, i)} : c.receipts[i].emissions # <<>>}
    OBVIOUS
  <2> DEFINE s == c.receipts[i].emissions
  <2>2. s \in Seq(Reference) /\ Len(s) <= 1
    BY EmissionAt DEF Emissions
  <2>3. Len(s) \in Nat /\ DOMAIN s = 1 .. Len(s) /\ (s = <<>> <=> Len(s) = 0)
    BY <2>2, LenProperties, EmptySeq
  <2>4. Emission(c, i) = s[1]
    BY DEF Emission
  <2> HIDE DEF s
  <2>5. CASE s = <<>>
    <3>1. DOMAIN s = {}
      BY <2>3, <2>5
    <3> QED
      BY <3>1, <2>5 DEF Range, s
  <2>6. CASE s # <<>>
    <3>1. DOMAIN s = {1}
      BY <2>2, <2>3, <2>6
    <3> QED
      BY <3>1, <2>4, <2>6 DEF Range, s
  <2> QED
    BY <2>5, <2>6
<1>2. References(c) = {at(i) : i \in emitting}
  <2>1. ASSUME NEW p \in References(c) PROVE p \in {at(i) : i \in emitting}
    <3>1. PICK i \in Ends(c) : p \in {[by |-> i, ref |-> r] : r \in Range(c.receipts[i].emissions)}
      BY DEF References
    <3>2. PICK r \in Range(c.receipts[i].emissions) : p = [by |-> i, ref |-> r]
      BY <3>1
    <3>3. r = Emission(c, i) /\ i \in emitting
      BY <3>2, <1>1
    <3> QED
      BY <3>2, <3>3
  <2>2. ASSUME NEW i \in emitting PROVE at(i) \in References(c)
    <3>1. Emission(c, i) \in Range(c.receipts[i].emissions) /\ i \in Ends(c)
      BY <1>1
    <3>2. at(i) \in {[by |-> i, ref |-> r] : r \in Range(c.receipts[i].emissions)}
      BY <3>1
    <3> HIDE DEF at
    <3> QED
      BY <3>1, <3>2 DEF References
  <2> QED
    BY <2>1, <2>2
<1>3. \A i \in emitting : Emission(c, i).kind \in Kinds
  BY EmissionAt, LenProperties, EmptySeq, ElementOfSeq
     DEF Emission, Emissions, Reference, QueuedReference, EndedReference, EffectReference, Kinds
<1>4. /\ \A i \in emitting : i \in Producing(c) <=>
            Emission(c, i).kind \in {"internal_mailbox", "internal_terminal"}
      /\ \A i \in emitting : i \in Emitting(c, "external_outbox") <=>
            Emission(c, i).kind \notin {"internal_mailbox", "internal_terminal"}
      /\ Producing(c) \subseteq emitting /\ Emitting(c, "external_outbox") \subseteq emitting
  <2>1. \A i \in emitting, kind \in Kinds : i \in Emitting(c, kind) <=> Emission(c, i).kind = kind
    BY DEF Emitting, Emission
  <2>2. /\ "internal_mailbox" \in Kinds /\ "internal_terminal" \in Kinds
        /\ "external_outbox" \in Kinds
    BY DEF Kinds
  <2>3. Producing(c) \subseteq emitting /\ Emitting(c, "external_outbox") \subseteq emitting
    BY DEF Producing, Emitting
  <2>4. ASSUME NEW i \in emitting
        PROVE  i \in Producing(c) <=>
                 Emission(c, i).kind \in {"internal_mailbox", "internal_terminal"}
    BY <2>1, <2>2 DEF Producing
  <2>5. ASSUME NEW i \in emitting
        PROVE  i \in Emitting(c, "external_outbox") <=>
                 Emission(c, i).kind \notin {"internal_mailbox", "internal_terminal"}
    BY <2>1, <2>2, <1>3 DEF Kinds
  <2> QED
    BY <2>3, <2>4, <2>5
<1>5. \A i, j : at(i) = at(j) => i = j
  <2>1. \A i : at(i).by = i
    OBVIOUS
  <2> QED
    BY <2>1
<1>6. \A i : at(i).ref = Emission(c, i)
  OBVIOUS
<1> HIDE DEF emitting, at
<1>7. Produced(c) = {at(i) : i \in Producing(c)}
  BY <1>2, <1>4, <1>6 DEF Produced
<1>8. References(c) \ Produced(c) = {at(i) : i \in Emitting(c, "external_outbox")}
  BY <1>2, <1>4, <1>5, <1>7
<1> QED
  BY <1>2, <1>7, <1>8 DEF at, emitting

LEMMA PlacesValid ==
  ASSUME NEW c \in Checkpoint, Linked(c)
  PROVE  PlacesDistinct(c)
<1> DEFINE uniqueIn(S) == \A x, y \in S : (x.id = y.id \/ x.acceptance = y.acceptance) => x = y
<1>1. uniqueIn(Located(c))
  BY DEF Located, Linked, Places, Same
<1>2. uniqueIn(Accepted(c))
  BY DEF Accepted, Linked, Evidence, Same, Admissions
<1>3. \A x \in Located(c) \cup Accepted(c) : x.acceptance < c.nextAcceptance
  BY DEF Located, Accepted, Linked, Places, Evidence, Admissions
<1> QED
  BY <1>1, <1>2, <1>3 DEF PlacesDistinct

LEMMA HostValid ==
  ASSUME NEW c \in Checkpoint, Linked(c)
  PROVE  HostEvidence(c)
<1>1. SUFFICES ASSUME NEW x \in Located(c)
               PROVE  {a.acceptance : a \in {b \in Accepted(c) : b.id = x.id}}
                        = IF x.id \in Deliveries THEN {x.acceptance} ELSE {}
  BY DEF HostEvidence
<1>2. \A b \in Accepted(c) : b.id \in Deliveries
  BY ReceiptAt DEF Accepted, Admissions, AcceptanceReceipt
<1>3. \A a, b \in Accepted(c) : a.id = b.id => a = b
  BY DEF Accepted, Linked, Evidence, Same, Admissions
<1>4. x.id \in Deliveries =>
        \E a \in Accepted(c) : a.id = x.id /\ a.acceptance = x.acceptance
  BY DEF Located, Accepted, Linked, Evidence, Accepts, Admissions
<1>5. CASE x.id \in Deliveries
  <2>1. PICK a \in Accepted(c) : a.id = x.id /\ a.acceptance = x.acceptance
    BY <1>4, <1>5
  <2>2. {b \in Accepted(c) : b.id = x.id} = {a}
    BY <2>1, <1>3
  <2> QED
    BY <2>1, <2>2, <1>5
<1>6. CASE x.id \notin Deliveries
  <2>1. {b \in Accepted(c) : b.id = x.id} = {}
    BY <1>2, <1>6
  <2> QED
    BY <2>1, <1>6
<1> QED
  BY <1>5, <1>6

LEMMA ProducersValid ==
  ASSUME NEW c \in Checkpoint, Linked(c)
  PROVE  ProducedOnce(c)
<1> DEFINE at(i) == [by |-> i, ref |-> Emission(c, i)]
<1>1. Produced(c) = {at(i) : i \in Producing(c)}
  BY ReferencesAre
<1>2. \A i : at(i).by = i /\ at(i).ref = Emission(c, i)
  OBVIOUS
<1>3. /\ ProducersKnown(c)
      /\ \A i, j \in Producing(c) : Emission(c, i).id = Emission(c, j).id => i = j
      /\ Emitting(c, "internal_mailbox") \subseteq Producing(c)
      /\ Emitting(c, "internal_terminal") \subseteq Producing(c)
  BY DEF Linked, ProducersKnown, Producing
<1> HIDE DEF at
<1>4. \A i \in Producing(c) : {q \in Produced(c) : q.ref.id = Emission(c, i).id} = {at(i)}
  BY <1>1, <1>2, <1>3
<1>5. ASSUME NEW x \in Live(c), x.id \notin Deliveries
      PROVE  {p.ref : p \in {q \in Produced(c) : q.ref.id = x.id}} =
               {[kind |-> "internal_mailbox", id |-> x.id, acceptance |-> x.acceptance,
                 queue |-> x.queue]}
  <2>1. PICK i \in Emitting(c, "internal_mailbox") : Emission(c, i).id = x.id
    BY <1>3, <1>5 DEF ProducersKnown
  <2>2. PICK y \in Live(c) : Emission(c, i) = [kind |-> "internal_mailbox", id |-> y.id,
                                               acceptance |-> y.acceptance, queue |-> y.queue]
    BY <1>3 DEF ProducersKnown
  <2>3. y = x
    BY <2>1, <2>2 DEF Linked, Places, Same
  <2>4. {q \in Produced(c) : q.ref.id = x.id} = {at(i)}
    BY <2>1, <1>3, <1>4
  <2> QED
    BY <2>2, <2>3, <2>4, <1>2
<1>6. ASSUME NEW j \in Ends(c), c.receipts[j].id \notin Deliveries
      PROVE  \E p \in Produced(c) :
               /\ {q \in Produced(c) : q.ref.id = c.receipts[j].id} = {p}
               /\ p.ref = [kind |-> "internal_terminal", id |-> c.receipts[j].id,
                           acceptance |-> c.receipts[j].acceptance, terminal |-> j]
               /\ p.by < j
  <2>1. PICK i \in Emitting(c, "internal_terminal") : Emission(c, i).id = c.receipts[j].id
    BY <1>3, <1>6 DEF ProducersKnown
  <2> DEFINE k == Emission(c, i).terminal
  <2>2. /\ k \in Ends(c) /\ i < k
        /\ c.receipts[k].id = Emission(c, i).id
        /\ c.receipts[k].acceptance = Emission(c, i).acceptance
    BY <1>3 DEF ProducersKnown
  <2>3. k = j
    BY <2>1, <2>2 DEF Linked, Places, Same
  <2>4. Emission(c, i) \in EndedReference
    BY EmissionAt
  <2>5. Emission(c, i) = [kind |-> "internal_terminal", id |-> c.receipts[j].id,
                          acceptance |-> c.receipts[j].acceptance, terminal |-> j]
    BY <2>1, <2>2, <2>3, <2>4 DEF EndedReference
  <2>6. at(i) \in Produced(c) /\ at(i).ref = Emission(c, i) /\ at(i).by < j
    BY <2>2, <2>3, <1>1, <1>2, <1>3
  <2>7. {q \in Produced(c) : q.ref.id = c.receipts[j].id} = {at(i)}
    BY <2>1, <1>3, <1>4
  <2> QED
    BY <2>5, <2>6, <2>7
<1> QED
  BY <1>5, <1>6 DEF ProducedOnce

LEMMA OrphansValid ==
  ASSUME NEW c \in Checkpoint, Linked(c)
  PROVE  NothingOrphaned(c)
<1>1. \A id : Somewhere(c, id) => id \in {x.id : x \in Located(c)}
  BY DEF Somewhere, Located
<1>2. \A a \in Accepted(c) : Somewhere(c, a.id)
  BY DEF Accepted, Linked, Evidence, Admissions
<1>3. \A i \in Producing(c) : Somewhere(c, Emission(c, i).id)
  <2>1. SUFFICES ASSUME NEW i \in Producing(c) PROVE Somewhere(c, Emission(c, i).id)
    OBVIOUS
  <2>2. CASE i \in Emitting(c, "internal_mailbox")
    <3>1. PICK x \in Live(c) : Emission(c, i) = [kind |-> "internal_mailbox", id |-> x.id,
                                                 acceptance |-> x.acceptance, queue |-> x.queue]
      BY <2>2 DEF Linked, ProducersKnown
    <3> QED
      BY <3>1 DEF Somewhere
  <2>3. CASE i \in Emitting(c, "internal_terminal")
    BY <2>3 DEF Linked, ProducersKnown, Somewhere
  <2> QED
    BY <2>2, <2>3 DEF Producing
<1>4. \A p \in Produced(c) : \E i \in Producing(c) : p.ref = Emission(c, i)
  BY ReferencesAre
<1> QED
  BY <1>1, <1>2, <1>3, <1>4 DEF NothingOrphaned

LEMMA EffectsValid ==
  ASSUME NEW c \in Checkpoint, Linked(c)
  PROVE  EffectsReferenced(c)
<1> DEFINE at(i) == [by |-> i, ref |-> Emission(c, i)]
<1>1. References(c) \ Produced(c) = {at(i) : i \in Emitting(c, "external_outbox")}
  BY ReferencesAre
<1>2. \A i : at(i).ref = Emission(c, i)
  OBVIOUS
<1> HIDE DEF at
<1>3. {p.ref.effect : p \in References(c) \ Produced(c)}
        = {Emission(c, i).effect : i \in Emitting(c, "external_outbox")}
  BY <1>1, <1>2
<1>4. {n.effect : n \in Range(c.intents)} = {c.intents[k].effect : k \in DOMAIN c.intents}
  BY DEF Range
<1>5. EffectsKnown(c)
  BY DEF Linked
<1>6. {c.intents[k].effect : k \in DOMAIN c.intents}
        = {Emission(c, i).effect : i \in Emitting(c, "external_outbox")}
  BY <1>5 DEF EffectsKnown
<1> QED
  BY <1>3, <1>4, <1>6 DEF EffectsReferenced

LEMMA OrderValid ==
  ASSUME NEW c \in Checkpoint, Linked(c)
  PROVE  OldestFirst(c)
<1>1. \A r \in Runtimes : \A x \in Range(c.ready[r]) : x \in Live(c) /\ MailboxOf(x.id) = r
  BY DEF Live, Range, Linked, Ordered
<1> QED
  BY <1>1 DEF OldestFirst, Linked, Ordered

LEMMA LinkedValid ==
  ASSUME NEW c, Linked(c), Dated(c)
  PROVE  EvidenceValid(c)
<1>1. c \in Checkpoint
  BY DEF Linked
<1>2. /\ PlacesDistinct(c) /\ HostEvidence(c) /\ ProducedOnce(c) /\ NothingOrphaned(c)
      /\ EffectsReferenced(c) /\ OldestFirst(c)
  BY <1>1, PlacesValid, HostValid, ProducersValid, OrphansValid, EffectsValid, OrderValid
<1>3. Chronological(c)
  BY DEF Dated, Chronological
<1> QED
  BY <1>2, <1>3 DEF EvidenceValid

-----------------------------------------------------------------------------
(* What a transaction left, and what the next operation does to it.          *)

EndOf(c, d) == {i \in Ends(c) : c.receipts[i].id = d}

CausesAt(c, revision) ==
  {n.effect.cause : n \in {m \in Range(c.intents) : m.revision = revision}}

(* What the delivery d left, at its end i.                                   *)
WholeAt(c, d, i) ==
  /\ c.receipts[i - 1].kind = "acceptance" /\ c.receipts[i - 1].id = d
  /\ {j \in DOMAIN c.receipts : c.receipts[j].revision = c.receipts[i].revision} = {i - 1, i}
  /\ CausesAt(c, c.receipts[i].revision) = {d} \cap Commits
  /\ d \notin Migrating =>
       \A a \in Range(c.audits) : a.sourceRevision # c.receipts[i].revision - 1

WholeIn(c, d) == \E i \in EndOf(c, d) : WholeAt(c, d, i)
AbsentIn(c, d) == EndOf(c, d) = {} /\ ~AcceptedIn(c, d)

Whole(c, committed, rows) ==
  /\ \A d \in Persisted :
       IF d \in committed THEN WholeIn(c, d) ELSE AbsentIn(c, d) /\ rows # d
  /\ \A d \in committed :
       rows # d => \E e \in committed : \E i \in EndOf(c, d), j \in EndOf(c, e) :
                     rows = e /\ i < j
  /\ \A a \in Range(c.audits) : \E d \in committed \cap Migrating : \E i \in EndOf(c, d) :
       c.receipts[i].revision = a.sourceRevision + 1

LEMMA WholeStore ==
  TransactionWhole <=>
    /\ Whole(store.checkpoint, Rows("committed"), store.rows)
    /\ {q.id : q \in store.quarantine} = Rows("quarantined")
  BY DEF TransactionWhole, Whole, WholeIn, WholeAt, AbsentIn, EndOf, CausesAt

LEMMA EndsGrown ==
  ASSUME NEW c \in Checkpoint, NEW n \in Checkpoint, Grows(c, n), NEW d
  PROVE  /\ EndOf(c, d) \subseteq EndOf(n, d)
         /\ \A i \in EndOf(c, d) : /\ i \in DOMAIN c.receipts
                                   /\ n.receipts[i].revision = c.receipts[i].revision
         /\ AcceptedIn(c, d) => AcceptedIn(n, d)
         /\ TerminalIn(c, d) => TerminalIn(n, d)
<1>1. /\ Ends(c) \subseteq Ends(n) /\ Admissions(c) \subseteq Admissions(n)
      /\ \A i \in Ends(c) : n.receipts[i].id = c.receipts[i].id
      /\ \A i \in Admissions(c) : n.receipts[i].id = c.receipts[i].id
  BY KeptEnds DEF Grows
<1>2. \A i \in Ends(c) : i \in DOMAIN c.receipts
  BY DEF Ends
<1>3. AcceptedIn(c, d) => AcceptedIn(n, d)
  BY <1>1 DEF AcceptedIn, Accepted, Admissions
<1>4. TerminalIn(c, d) => TerminalIn(n, d)
  BY <1>1 DEF TerminalIn
<1>5. EndOf(c, d) \subseteq EndOf(n, d)
  BY <1>1 DEF EndOf
<1> QED
  BY <1>2, <1>3, <1>4, <1>5 DEF EndOf, Grows

LEMMA WholeAtGrown ==
  ASSUME NEW c \in Checkpoint, NEW n \in Checkpoint, Grows(c, n), Dated(c), NEW d,
         NEW i \in EndOf(c, d), WholeAt(c, d, i)
  PROVE  WholeAt(n, d, i)
<1> DEFINE revision == c.receipts[i].revision
<1>1. i \in DOMAIN c.receipts /\ n.receipts[i].revision = revision
  BY EndsGrown
<1>2. revision \in Nat /\ revision <= c.revision /\ c.revision \in Nat
      /\ n.revision = c.revision + 1
  BY <1>1, ReceiptAt, ReceiptFields, CheckpointFields DEF Dated, Grows
<1>3. n.revision # revision /\ c.revision # revision - 1
  BY <1>2
<1>4. i - 1 \in DOMAIN c.receipts
  BY DEF WholeAt
<1>5. n.receipts[i - 1].kind = "acceptance" /\ n.receipts[i - 1].id = d
  <2>1. c.receipts[i - 1].kind = "acceptance" /\ c.receipts[i - 1].id = d
    BY DEF WholeAt
  <2>2. Repeats(c.receipts[i - 1], n.receipts[i - 1])
    BY <1>4 DEF Grows, Follows
  <2> QED
    BY <2>1, <2>2 DEF Repeats
<1> HIDE DEF revision
<1>6. {j \in DOMAIN n.receipts : n.receipts[j].revision = revision}
        = {j \in DOMAIN c.receipts : c.receipts[j].revision = revision}
  BY <1>3 DEF Grows, Follows
<1>7. {m \in Range(n.intents) : m.revision = revision}
        = {m \in Range(c.intents) : m.revision = revision}
  <2>1. ASSUME NEW m \in Range(n.intents), m.revision = revision
        PROVE  m \in Range(c.intents)
    <3>1. PICK k \in DOMAIN n.intents : m = n.intents[k]
      BY DEF Range
    <3>2. k \in DOMAIN c.intents
      BY <2>1, <3>1, <1>3 DEF Grows
    <3> QED
      BY <3>1, <3>2 DEF Range, Grows
  <2>2. ASSUME NEW m \in Range(c.intents)
        PROVE  m \in Range(n.intents)
    BY DEF Range, Grows
  <2> QED
    BY <2>1, <2>2
<1>8. CausesAt(n, revision) = CausesAt(c, revision)
  BY <1>7 DEF CausesAt
<1>9. \A a \in Range(n.audits) : a \in Range(c.audits) \/ a.sourceRevision = c.revision
  BY AuditsGrown DEF Range
<1> QED
  BY <1>1, <1>3, <1>5, <1>6, <1>8, <1>9 DEF WholeAt, revision

LEMMA WholeInGrown ==
  ASSUME NEW c \in Checkpoint, NEW n \in Checkpoint, Grows(c, n), Dated(c), NEW d,
         WholeIn(c, d)
  PROVE  WholeIn(n, d)
  BY EndsGrown, WholeAtGrown DEF WholeIn

(* A receipt that an operation adds belongs to one delivery.                 *)
AddedFor(c, n, d) ==
  \A i \in DOMAIN n.receipts \ DOMAIN c.receipts :
    n.receipts[i].kind \in {"acceptance", "terminal"} => n.receipts[i].id = d

LEMMA AbsentGrown ==
  ASSUME NEW c \in Checkpoint, NEW n \in Checkpoint, Grows(c, n), NEW e, AddedFor(c, n, e),
         NEW d, d # e, AbsentIn(c, d)
  PROVE  AbsentIn(n, d)
<1>1. /\ Ends(n) \cap DOMAIN c.receipts = Ends(c)
      /\ Admissions(n) \cap DOMAIN c.receipts = Admissions(c)
      /\ \A i \in Ends(c) : n.receipts[i].id = c.receipts[i].id
      /\ \A i \in Admissions(c) : n.receipts[i].id = c.receipts[i].id
  BY KeptEnds DEF Grows
<1>2. /\ \A i \in Ends(n) \ Ends(c) : n.receipts[i].id = e
      /\ \A i \in Admissions(n) \ Admissions(c) : n.receipts[i].id = e
  BY <1>1 DEF AddedFor, Ends, Admissions
<1>3. EndOf(n, d) = {}
  BY <1>1, <1>2 DEF AbsentIn, EndOf
<1>4. ~AcceptedIn(n, d)
  BY <1>1, <1>2 DEF AbsentIn, AcceptedIn, Accepted, Admissions
<1> QED
  BY <1>3, <1>4 DEF AbsentIn

(* The audits stay with the transactions that made them.                     *)
LEMMA AuditsOwnedGrown ==
  ASSUME NEW c \in Checkpoint, NEW n \in Checkpoint, Grows(c, n), NEW committed,
         NEW a \in Range(c.audits),
         \E d \in committed \cap Migrating : \E i \in EndOf(c, d) :
           c.receipts[i].revision = a.sourceRevision + 1
  PROVE  \E d \in committed \cap Migrating : \E i \in EndOf(n, d) :
           n.receipts[i].revision = a.sourceRevision + 1
<1>1. PICK d \in committed \cap Migrating : \E i \in EndOf(c, d) :
        c.receipts[i].revision = a.sourceRevision + 1
  OBVIOUS
<1>2. PICK i \in EndOf(c, d) : c.receipts[i].revision = a.sourceRevision + 1
  BY <1>1
<1>3. i \in EndOf(n, d) /\ n.receipts[i].revision = c.receipts[i].revision
  BY EndsGrown
<1> QED
  BY <1>2, <1>3

(* An admission or a step for a delivery that is not persisted.              *)
LEMMA WholeAside ==
  ASSUME NEW c \in Checkpoint, NEW n \in Checkpoint, Grows(c, n), Dated(c),
         NEW e, e \notin Persisted, AddedFor(c, n, e), n.audits = c.audits,
         NEW committed, NEW rows, Whole(c, committed, rows)
  PROVE  Whole(n, committed, rows)
<1>1. \A d \in Persisted :
        IF d \in committed THEN WholeIn(n, d) ELSE AbsentIn(n, d) /\ rows # d
  BY WholeInGrown, AbsentGrown DEF Whole
<1>2. \A d \in committed :
        rows # d => \E f \in committed : \E i \in EndOf(n, d), j \in EndOf(n, f) :
                      rows = f /\ i < j
  BY EndsGrown DEF Whole
<1>3. \A a \in Range(n.audits) : \E d \in committed \cap Migrating : \E i \in EndOf(n, d) :
        n.receipts[i].revision = a.sourceRevision + 1
  BY AuditsOwnedGrown DEF Whole
<1> QED
  BY <1>1, <1>2, <1>3 DEF Whole

(* A transaction leaves a whole.                                             *)
LEMMA WholeAtCombined ==
  ASSUME NEW c \in Checkpoint, NEW n \in Checkpoint, NEW d, NEW migrates \in BOOLEAN,
         CombinationOf(c, n, d, migrates), migrates => d \in Migrating, Dated(c)
  PROVE  /\ Len(c.receipts) + 2 \in EndOf(n, d) /\ WholeAt(n, d, Len(c.receipts) + 2)
         /\ AddedFor(c, n, d)
         /\ n.receipts[Len(c.receipts) + 2].revision = n.revision
         /\ \A i \in DOMAIN c.receipts : i < Len(c.receipts) + 2
<1> DEFINE first == Len(c.receipts) + 1
           second == Len(c.receipts) + 2
<1>1. Grows(c, n)
  BY GrowsCombined
<1>2. /\ n.revision = c.revision + 1 /\ DOMAIN n.receipts = 1 .. second
      /\ n.receipts[first].kind = "acceptance" /\ n.receipts[first].id = d
      /\ n.receipts[first].revision = n.revision
      /\ n.receipts[second].kind = "terminal" /\ n.receipts[second].id = d
      /\ n.receipts[second].revision = n.revision
      /\ \A k \in DOMAIN c.intents : k \in DOMAIN n.intents /\ n.intents[k] = c.intents[k]
      /\ \A k \in DOMAIN n.intents \ DOMAIN c.intents :
           /\ n.intents[k].revision = n.revision
           /\ n.intents[k].effect.cause = d /\ d \in Commits
      /\ d \in Commits => DOMAIN n.intents \ DOMAIN c.intents # {}
  BY DEF CombinationOf
<1>3. /\ second - 1 = first /\ first \in 1 .. second /\ second \in 1 .. second
      /\ \A i \in 1 .. second : i \in DOMAIN c.receipts \/ i = first \/ i = second
      /\ \A i \in DOMAIN c.receipts : i \in 1 .. second /\ i < second
  <2> DEFINE m == Len(c.receipts)
             old == DOMAIN c.receipts
  <2>1. m \in Nat /\ old = 1 .. m
    BY ReceiptAt
  <2>2. first = m + 1 /\ second = m + 2
    OBVIOUS
  <2> HIDE DEF m, old, first, second
  <2>3. second - 1 = first /\ first \in 1 .. second /\ second \in 1 .. second
    BY <2>1, <2>2
  <2>4. \A i \in 1 .. second : i \in old \/ i = first \/ i = second
    BY <2>1, <2>2
  <2>5. \A i \in old : i \in 1 .. second /\ i < second
    BY <2>1, <2>2
  <2> QED
    BY <2>3, <2>4, <2>5 DEF old
<1>4. /\ c.revision \in Nat
      /\ \A i \in DOMAIN c.receipts : /\ c.receipts[i].revision \in Nat
                                      /\ c.receipts[i].revision <= c.revision
                                      /\ n.receipts[i].revision = c.receipts[i].revision
      /\ \A k \in DOMAIN c.intents : /\ c.intents[k].revision \in Nat
                                     /\ c.intents[k].revision <= c.revision
      /\ \A k \in DOMAIN c.audits : /\ c.audits[k].sourceRevision \in Nat
                                    /\ c.audits[k].sourceRevision < c.revision
  BY <1>1, ReceiptAt, ReceiptFields, RecordAt, CheckpointFields DEF Dated, Intent, Audit, Grows
<1> HIDE DEF first, second
<1>5. second \in EndOf(n, d)
  BY <1>2, <1>3 DEF EndOf, Ends
<1>6. {j \in DOMAIN n.receipts : n.receipts[j].revision = n.revision} = {first, second}
  <2>1. \A i \in DOMAIN c.receipts : n.receipts[i].revision # n.revision
    BY <1>2, <1>4
  <2> QED
    BY <2>1, <1>2, <1>3
<1>7. CausesAt(n, n.revision) = {d} \cap Commits
  <2>1. ASSUME NEW x \in CausesAt(n, n.revision) PROVE x \in {d} \cap Commits
    <3>1. PICK m \in Range(n.intents) : m.revision = n.revision /\ x = m.effect.cause
      BY DEF CausesAt
    <3>2. PICK k \in DOMAIN n.intents : m = n.intents[k]
      BY DEF Range
    <3>3. k \notin DOMAIN c.intents
      BY <3>1, <3>2, <1>2, <1>4
    <3> QED
      BY <3>1, <3>2, <3>3, <1>2
  <2>2. ASSUME d \in Commits PROVE d \in CausesAt(n, n.revision)
    <3>1. PICK k \in DOMAIN n.intents \ DOMAIN c.intents : TRUE
      BY <2>2, <1>2
    <3>2. n.intents[k] \in Range(n.intents)
      BY DEF Range
    <3>3. n.intents[k].revision = n.revision /\ n.intents[k].effect.cause = d
      BY <1>2
    <3> QED
      BY <3>2, <3>3 DEF CausesAt
  <2> QED
    BY <2>1, <2>2
<1>8. d \notin Migrating =>
        \A a \in Range(n.audits) : a.sourceRevision # n.revision - 1
  <2>1. SUFFICES ASSUME d \notin Migrating, NEW a \in Range(n.audits)
                 PROVE  a.sourceRevision # n.revision - 1
    OBVIOUS
  <2>2. n.audits = c.audits
    BY <2>1 DEF CombinationOf
  <2>3. PICK k \in DOMAIN c.audits : a = c.audits[k]
    BY <2>1, <2>2 DEF Range
  <2> QED
    BY <2>3, <1>2, <1>4
<1>9. WholeAt(n, d, second)
  BY <1>2, <1>3, <1>6, <1>7, <1>8 DEF WholeAt
<1>10. AddedFor(c, n, d)
  BY <1>2, <1>3 DEF AddedFor
<1> QED
  BY <1>2, <1>3, <1>5, <1>9, <1>10 DEF second

LEMMA WholeCombined ==
  ASSUME NEW c \in Checkpoint, NEW n \in Checkpoint, NEW migrates \in BOOLEAN,
         NEW committed \in SUBSET Persisted, NEW rows, Whole(c, committed, rows),
         NEW d \in Persisted \ committed, migrates => d \in Migrating,
         CombinationOf(c, n, d, migrates), Dated(c)
  PROVE  Whole(n, committed \cup {d}, d)
<1> DEFINE second == Len(c.receipts) + 2
           now == committed \cup {d}
<1>1. Grows(c, n) /\ AddedFor(c, n, d)
  BY GrowsCombined, WholeAtCombined
<1>2. /\ second \in EndOf(n, d) /\ WholeAt(n, d, second)
      /\ n.receipts[second].revision = n.revision /\ n.revision = c.revision + 1
      /\ \A i \in DOMAIN c.receipts : i < second
  BY WholeAtCombined DEF CombinationOf
<1> HIDE DEF second
<1>3. \A e \in Persisted : IF e \in now THEN WholeIn(n, e) ELSE AbsentIn(n, e) /\ d # e
  <2>1. SUFFICES ASSUME NEW e \in Persisted
                 PROVE  IF e \in now THEN WholeIn(n, e) ELSE AbsentIn(n, e) /\ d # e
    OBVIOUS
  <2>2. CASE e = d
    BY <2>2, <1>2 DEF WholeIn
  <2>3. CASE e \in committed
    BY <2>3, <1>1, WholeInGrown DEF Whole
  <2>4. CASE e # d /\ e \notin committed
    BY <2>4, <1>1, AbsentGrown DEF Whole
  <2> QED
    BY <2>2, <2>3, <2>4
<1>4. \A e \in now :
        d # e => \E f \in now : \E i \in EndOf(n, e), j \in EndOf(n, f) : d = f /\ i < j
  <2>1. SUFFICES ASSUME NEW e \in committed
                 PROVE  \E i \in EndOf(n, e), j \in EndOf(n, d) : i < j
    OBVIOUS
  <2>2. WholeIn(c, e)
    BY DEF Whole
  <2>3. PICK i \in EndOf(c, e) : TRUE
    BY <2>2 DEF WholeIn
  <2>4. i \in EndOf(n, e) /\ i < second
    BY <1>1, <1>2, EndsGrown
  <2> QED
    BY <2>4, <1>2
<1>5. \A a \in Range(n.audits) : \E e \in now \cap Migrating : \E i \in EndOf(n, e) :
        n.receipts[i].revision = a.sourceRevision + 1
  <2>1. SUFFICES ASSUME NEW a \in Range(n.audits)
                 PROVE  \E e \in now \cap Migrating : \E i \in EndOf(n, e) :
                          n.receipts[i].revision = a.sourceRevision + 1
    OBVIOUS
  <2>2. CASE a \in Range(c.audits)
    <3>1. \E e \in committed \cap Migrating : \E i \in EndOf(c, e) :
            c.receipts[i].revision = a.sourceRevision + 1
      BY <2>2 DEF Whole
    <3> QED
      BY <2>2, <3>1, <1>1, AuditsOwnedGrown
  <2>3. CASE a \notin Range(c.audits)
    <3>1. PICK k \in DOMAIN n.audits : a = n.audits[k]
      BY DEF Range
    <3>2. k \notin DOMAIN c.audits
      BY <2>3, <3>1, <1>1, AuditsGrown DEF Range
    <3>3. a.sourceRevision = c.revision
      BY <3>1, <3>2, <1>1, AuditsGrown
    <3>4. migrates
      BY <3>1, <3>2 DEF CombinationOf
    <3> QED
      BY <3>3, <3>4, <1>2
  <2> QED
    BY <2>2, <2>3
<1> QED
  BY <1>3, <1>4, <1>5 DEF Whole

-----------------------------------------------------------------------------
(* The books of the host: the first ones.                                    *)

LEMMA HostInit == Init => HostBooks
<1> SUFFICES ASSUME Init PROVE HostBooks
  OBVIOUS
<1>1. /\ store = [checkpoint |-> Created, inbox |-> {}, rows |-> NoWriter, quarantine |-> {}]
      /\ request = [d \in Deliveries |-> NoRequest]
      /\ worker = [w \in Worker |-> Idle]
      /\ acked = {} /\ refused = {} /\ unresolved = Faulty /\ faults = 0
  BY DEF Init
<1>2. /\ store.checkpoint = Created /\ store.inbox = {} /\ store.rows = NoWriter
      /\ store.quarantine = {}
  BY <1>1
<1>3. Rows("committed") = {} /\ Rows("quarantined") = {}
  BY <1>2 DEF Rows
<1>4. HostTypeOK
  BY <1>1, <1>2, MaxFaultsAssumption DEF HostTypeOK, TypeOK
<1>5. Linked(store.checkpoint) /\ Dated(store.checkpoint)
  BY <1>2, CreatedLinked
<1>6. TransactionWhole
  <2>1. \A d \in Persisted : AbsentIn(Created, d) /\ NoWriter # d
    <3>1. Accepted(Created) = {}
      BY CreatedFields DEF Accepted, Admissions
    <3> QED
      BY <3>1, CreatedFields, WriterAssumption, KindAssumption DEF AbsentIn, EndOf, AcceptedIn
  <2>2. Range(Created.audits) = {}
    BY CreatedFields DEF Range
  <2>3. Whole(Created, {}, NoWriter)
    BY <2>1, <2>2 DEF Whole
  <2> QED
    BY <2>3, <1>2, <1>3, WholeStore
<1>7. RequestsMade /\ Staging /\ AcknowledgedStays
  BY <1>1 DEF RequestsMade, Staging, AcknowledgedStays
<1> QED
  BY <1>4, <1>5, <1>6, <1>7 DEF HostBooks

-----------------------------------------------------------------------------
(* Facts about the books.                                                    *)

(* A committed delivery has its acceptance and its end.                      *)
LEMMA CommittedFacts ==
  ASSUME HostBooks, NEW d \in Persisted
  PROVE  /\ d \in Rows("committed") =>
              TerminalIn(store.checkpoint, d) /\ AcceptedIn(store.checkpoint, d)
         /\ d \notin Rows("committed") => ~AcceptedIn(store.checkpoint, d)
         /\ Rows("committed") \subseteq Persisted
<1> DEFINE c == store.checkpoint
<1>1. Whole(c, Rows("committed"), store.rows)
  BY WholeStore DEF HostBooks
<1>2. d \in Rows("committed") => TerminalIn(c, d) /\ AcceptedIn(c, d)
  <2>1. SUFFICES ASSUME d \in Rows("committed") PROVE TerminalIn(c, d) /\ AcceptedIn(c, d)
    OBVIOUS
  <2>2. PICK i \in EndOf(c, d) : WholeAt(c, d, i)
    BY <1>1, <2>1 DEF Whole, WholeIn
  <2>3. i - 1 \in DOMAIN c.receipts /\ c.receipts[i - 1].kind = "acceptance"
        /\ c.receipts[i - 1].id = d
    BY <2>2 DEF WholeAt
  <2>4. AcceptedIn(c, d)
    BY <2>3 DEF AcceptedIn, Accepted
  <2>5. TerminalIn(c, d)
    BY DEF TerminalIn, EndOf
  <2> QED
    BY <2>4, <2>5
<1>3. d \notin Rows("committed") => ~AcceptedIn(c, d)
  BY <1>1 DEF Whole, AbsentIn
<1>4. Rows("committed") \subseteq Persisted
  BY DEF HostBooks, HostTypeOK, TypeOK, Rows
<1> QED
  BY <1>2, <1>3, <1>4

(* A runtime never holds a persisted delivery: it is admitted and ended in   *)
(* one transaction.                                                          *)
LEMMA HeldAside ==
  ASSUME HostBooks, NEW x \in Live(store.checkpoint)
  PROVE  x.id \notin Persisted
<1> DEFINE c == store.checkpoint
<1>1. SUFFICES ASSUME x.id \in Persisted PROVE FALSE
  OBVIOUS
<1>2. Places(c) /\ Evidence(c)
  BY DEF HostBooks, Linked
<1>3. x.id \in Deliveries
  BY <1>1, KindAssumption
<1>4. AcceptedIn(c, x.id)
  BY <1>2, <1>3 DEF Evidence, Accepts, AcceptedIn, Accepted, Admissions
<1>5. TerminalIn(c, x.id)
  BY <1>1, <1>4, CommittedFacts
<1> QED
  BY <1>2, <1>5 DEF TerminalIn, Places, Same

-----------------------------------------------------------------------------
(* What a worker staged after reading the stored checkpoint.                 *)

LEMMA StagedPersist ==
  ASSUME HostBooks, NEW job, StagedFrom(store.checkpoint, job), job.kind = "persist"
  PROVE  /\ job.id \in Persisted \ Rows("committed")
         /\ Linked(job.checkpoint)
         /\ \E m \in BOOLEAN : /\ m => job.id \in Migrating
                               /\ CombinationOf(store.checkpoint, job.checkpoint, job.id, m)
<1> DEFINE c == store.checkpoint
<1>1. /\ job.id \in Persisted /\ job.id \notin Rows("committed")
      /\ TargetRuns(c, job.id) /\ c.ready[MailboxOf(job.id)] = <<>>
      /\ \E m \in BOOLEAN : /\ m => job.id \in Migrating
                            /\ job.checkpoint = Combined(c, job.id, m)
  BY DEF StagedFrom
<1>2. PICK m \in BOOLEAN : /\ m => job.id \in Migrating
                           /\ job.checkpoint = Combined(c, job.id, m)
  BY <1>1
<1>3. c \in Checkpoint /\ Linked(c) /\ Dated(c)
  BY DEF HostBooks, Linked
<1>4. ~AcceptedIn(c, job.id) /\ c.status = "running" /\ job.id \in Deliveries
  BY <1>1, CommittedFacts, KindAssumption DEF TargetRuns
<1> HIDE DEF c
<1>5. Linked(job.checkpoint) /\ CombinationOf(c, job.checkpoint, job.id, m)
  BY <1>1, <1>2, <1>3, <1>4, CombinedStep
<1> QED
  BY <1>1, <1>2, <1>5 DEF c

LEMMA StagedAdmit ==
  ASSUME HostBooks, NEW job, StagedFrom(store.checkpoint, job), job.kind = "admit"
  PROVE  /\ job.id \in Deliveries \ Persisted
         /\ Linked(job.checkpoint) /\ Grows(store.checkpoint, job.checkpoint)
         /\ AddedFor(store.checkpoint, job.checkpoint, job.id)
         /\ job.checkpoint.audits = store.checkpoint.audits
         /\ AcceptedIn(job.checkpoint, job.id)
<1> DEFINE c == store.checkpoint
           n == job.checkpoint
           last == Len(c.receipts) + 1
<1>1. /\ job.id \in Deliveries \ Persisted
      /\ ~AcceptedIn(c, job.id)
      /\ job.id \in Pays => c.ready["payment"] = <<>>
      /\ n = Admitted(c, job.id)
  BY DEF StagedFrom
<1>2. c \in Checkpoint /\ Linked(c)
  BY DEF HostBooks, Linked
<1> HIDE DEF c, n
<1>3. Linked(n) /\ Grows(c, n)
  BY <1>1, <1>2, AdmittedLinked, GrowsAdmitted
<1>4. /\ n \in Checkpoint /\ n.audits = c.audits
      /\ AcceptanceOf(c, job.id) \in Receipt
      /\ n.receipts = Append(c.receipts, AcceptanceOf(c, job.id))
  BY <1>1, <1>2, AdmittedFields
<1>5. /\ DOMAIN n.receipts = 1 .. last /\ last \in DOMAIN n.receipts
      /\ n.receipts[last] = AcceptanceOf(c, job.id)
  BY <1>2, <1>4, AppendedReceipt
<1>6. \A i \in 1 .. last : i \in DOMAIN c.receipts \/ i = last
  BY <1>2, ReceiptAt
<1>7. AcceptanceOf(c, job.id).id = job.id /\ AcceptanceOf(c, job.id).kind = "acceptance"
  BY DEF AcceptanceOf
<1> HIDE DEF last
<1>8. AddedFor(c, n, job.id)
  BY <1>5, <1>6, <1>7 DEF AddedFor
<1>9. AcceptedIn(n, job.id)
  BY <1>5, <1>7 DEF AcceptedIn, Accepted
<1> QED
  BY <1>1, <1>3, <1>4, <1>8, <1>9 DEF c, n

LEMMA StagedStep ==
  ASSUME HostBooks, NEW job, StagedFrom(store.checkpoint, job), job.kind = "step"
  PROVE  /\ Linked(job.checkpoint) /\ Grows(store.checkpoint, job.checkpoint)
         /\ job.checkpoint.audits = store.checkpoint.audits
         /\ \E e : e \notin Persisted /\ AddedFor(store.checkpoint, job.checkpoint, e)
<1> DEFINE c == store.checkpoint
           n == job.checkpoint
           last == Len(c.receipts) + 1
<1>1. PICK r \in Runtimes : Runnable(c, r) /\ n = Processed(c, r)
  BY DEF StagedFrom
<1>2. c \in Checkpoint /\ Linked(c)
  BY DEF HostBooks, Linked
<1> DEFINE h == Head(c.ready[r])
<1>3. Linked(n) /\ StepOf(c, n, h)
  BY <1>1, <1>2, ProcessedStep
<1>4. n \in Checkpoint
  BY <1>3 DEF Linked
<1>5. Grows(c, n)
  BY <1>2, <1>3, <1>4, GrowsStep
<1>6. h.id \notin Persisted
  <2>1. h \in Live(c)
    BY <1>1, <1>2, HeadEntry DEF Runnable
  <2> QED
    BY <2>1, HeldAside
<1>7. AddedFor(c, n, h.id) /\ n.audits = c.audits
  <2>1. /\ DOMAIN n.receipts = 1 .. last /\ n.receipts[last].id = h.id
        /\ n.audits = c.audits
    BY <1>3 DEF StepOf, Concludes
  <2>2. \A i \in 1 .. last : i \in DOMAIN c.receipts \/ i = last
    BY <1>2, ReceiptAt
  <2> HIDE DEF last, h, c, n
  <2> QED
    BY <2>1, <2>2 DEF AddedFor
<1> QED
  BY <1>3, <1>5, <1>6, <1>7

(* What the store holds after the transaction is a whole again.              *)
LEMMA StagedWhole ==
  ASSUME HostBooks, NEW job, StagedFrom(store.checkpoint, job)
  PROVE  /\ Linked(job.checkpoint) /\ Dated(job.checkpoint)
         /\ Grows(store.checkpoint, job.checkpoint)
         /\ job.kind = "persist" =>
              /\ job.id \in Persisted
              /\ Whole(job.checkpoint, Rows("committed") \cup {job.id}, job.id)
         /\ job.kind # "persist" => Whole(job.checkpoint, Rows("committed"), store.rows)
         /\ job.kind # "step" =>
              /\ job.id \in Deliveries /\ AcceptedIn(job.checkpoint, job.id)
              /\ job.id \in Persisted =>
                   job.kind = "persist" /\ TerminalIn(job.checkpoint, job.id)
<1> DEFINE c == store.checkpoint
           n == job.checkpoint
           committed == Rows("committed")
<1>1. c \in Checkpoint /\ Linked(c) /\ Dated(c) /\ Whole(c, committed, store.rows)
  BY WholeStore DEF HostBooks, Linked
<1>2. CASE job.kind = "persist"
  <2>1. job.id \in Persisted \ committed /\ Linked(n)
    BY <1>2, StagedPersist
  <2>2. PICK m \in BOOLEAN : /\ m => job.id \in Migrating
                             /\ CombinationOf(c, n, job.id, m)
    BY <1>2, StagedPersist
  <2>3. n \in Checkpoint /\ committed \in SUBSET Persisted
    BY <2>1, CommittedFacts DEF Linked
  <2> HIDE DEF c, n, committed
  <2>4. Grows(c, n)
    BY <1>1, <2>2, <2>3, GrowsCombined
  <2>5. Dated(n)
    BY <1>1, <2>3, <2>4, DatedGrown
  <2>6. Whole(n, committed \cup {job.id}, job.id)
    BY <1>1, <2>1, <2>2, <2>3, WholeCombined
  <2>7. WholeIn(n, job.id)
    BY <2>1, <2>6 DEF Whole
  <2>8. PICK i \in EndOf(n, job.id) : WholeAt(n, job.id, i)
    BY <2>7 DEF WholeIn
  <2>9. i - 1 \in DOMAIN n.receipts /\ n.receipts[i - 1].kind = "acceptance"
        /\ n.receipts[i - 1].id = job.id
    BY <2>8 DEF WholeAt
  <2>10. AcceptedIn(n, job.id)
    BY <2>9 DEF AcceptedIn, Accepted
  <2>11. TerminalIn(n, job.id)
    BY DEF TerminalIn, EndOf
  <2>12. job.id \in Deliveries
    BY <2>1, KindAssumption
  <2> QED
    BY <1>2, <2>1, <2>4, <2>5, <2>6, <2>10, <2>11, <2>12 DEF c, n, committed
<1>3. CASE job.kind = "admit"
  <2>1. /\ job.id \in Deliveries \ Persisted
        /\ Linked(n) /\ Grows(c, n) /\ AddedFor(c, n, job.id) /\ n.audits = c.audits
        /\ AcceptedIn(n, job.id)
    BY <1>3, StagedAdmit
  <2>2. n \in Checkpoint
    BY <2>1 DEF Linked
  <2> HIDE DEF c, n, committed
  <2>3. Dated(n) /\ Whole(n, committed, store.rows)
    BY <1>1, <2>1, <2>2, DatedGrown, WholeAside
  <2> QED
    BY <1>3, <2>1, <2>3 DEF c, n, committed
<1>4. CASE job.kind = "step"
  <2>1. Linked(n) /\ Grows(c, n) /\ n.audits = c.audits
    BY <1>4, StagedStep
  <2>2. PICK e : e \notin Persisted /\ AddedFor(c, n, e)
    BY <1>4, StagedStep
  <2>3. n \in Checkpoint
    BY <2>1 DEF Linked
  <2> HIDE DEF c, n, committed
  <2>4. Dated(n) /\ Whole(n, committed, store.rows)
    BY <1>1, <2>1, <2>2, <2>3, DatedGrown, WholeAside
  <2> QED
    BY <1>4, <2>1, <2>4 DEF c, n, committed
<1>5. job.kind = "persist" \/ job.kind = "admit" \/ job.kind = "step"
  BY DEF StagedFrom
<1> QED
  BY <1>2, <1>3, <1>4, <1>5

(* What a commit writes.                                                     *)
LEMMA WrittenFields ==
  ASSUME HostTypeOK, NEW w, NEW n, n = Written(store, w)
  PROVE  /\ n = [checkpoint |-> n.checkpoint, inbox |-> n.inbox, rows |-> n.rows,
                 quarantine |-> n.quarantine]
         /\ n.checkpoint = worker[w].checkpoint
         /\ worker[w].kind # "persist" => /\ n.inbox = store.inbox /\ n.rows = store.rows
                                          /\ n.quarantine = store.quarantine
         /\ worker[w].kind = "persist" =>
              /\ n.inbox = {x \in store.inbox : x.id # worker[w].id}
                             \cup {[id |-> worker[w].id, disposition |-> "committed"]}
              /\ n.rows = worker[w].id
              /\ n.quarantine = {q \in store.quarantine : q.id # worker[w].id}
<1> DEFINE id == worker[w].id
           next == [store EXCEPT !.checkpoint = worker[w].checkpoint]
<1>1. store = [checkpoint |-> store.checkpoint, inbox |-> store.inbox, rows |-> store.rows,
               quarantine |-> store.quarantine]
  BY DEF HostTypeOK
<1>2. /\ next = [checkpoint |-> next.checkpoint, inbox |-> next.inbox, rows |-> next.rows,
                 quarantine |-> next.quarantine]
      /\ next.checkpoint = worker[w].checkpoint /\ next.inbox = store.inbox
      /\ next.rows = store.rows /\ next.quarantine = store.quarantine
  BY <1>1
<1> HIDE DEF next
<1>3. n = IF worker[w].kind # "persist" THEN next
          ELSE [next EXCEPT
                  !.inbox = {x \in @ : x.id # id} \cup {[id |-> id, disposition |-> "committed"]},
                  !.rows = id,
                  !.quarantine = {q \in @ : q.id # id}]
  BY DEF Written, next
<1>4. CASE worker[w].kind # "persist"
  BY <1>2, <1>3, <1>4
<1>5. CASE worker[w].kind = "persist"
  BY <1>2, <1>3, <1>5
<1> QED
  BY <1>4, <1>5

(* A transaction commits.                                                    *)
LEMMA CommitBooks ==
  ASSUME HostBooks, NEW w \in Worker, worker[w] # Idle, ReadIsCurrent(w),
         store' = Written(store, w), worker' = [worker EXCEPT ![w] = Idle],
         DOMAIN request' = Deliveries,
         \A d \in Deliveries : request'[d] = request[d] \/ request'[d] = NoRequest,
         \A d \in acked' \ acked : worker[w].kind # "step" /\ d = worker[w].id,
         UNCHANGED <<refused, unresolved>>, faults' \in 0 .. MaxFaults
  PROVE  HostBooks'
<1> DEFINE c == store.checkpoint
           n == worker[w].checkpoint
           id == worker[w].id
           persists == worker[w].kind = "persist"
<1>1. StagedFrom(c, worker[w])
  BY DEF HostBooks, Staging
<1>2. /\ Linked(n) /\ Dated(n) /\ Grows(c, n)
      /\ persists => id \in Persisted /\ Whole(n, Rows("committed") \cup {id}, id)
      /\ ~persists => Whole(n, Rows("committed"), store.rows)
      /\ worker[w].kind # "step" =>
           /\ id \in Deliveries /\ AcceptedIn(n, id)
           /\ id \in Persisted => persists /\ TerminalIn(n, id)
  BY <1>1, StagedWhole
<1>3. HostTypeOK
  BY DEF HostBooks
<1>4. /\ store' = [checkpoint |-> store'.checkpoint, inbox |-> store'.inbox,
                   rows |-> store'.rows, quarantine |-> store'.quarantine]
      /\ store'.checkpoint = n
      /\ ~persists => /\ store'.inbox = store.inbox /\ store'.rows = store.rows
                      /\ store'.quarantine = store.quarantine
      /\ persists =>
           /\ store'.inbox = {x \in store.inbox : x.id # id}
                               \cup {[id |-> id, disposition |-> "committed"]}
           /\ store'.rows = id
           /\ store'.quarantine = {q \in store.quarantine : q.id # id}
  BY <1>3, WrittenFields
<1>5. c \in Checkpoint /\ n \in Checkpoint
  BY <1>2 DEF HostBooks, Linked
<1>6. c.revision \in Nat /\ n.revision = c.revision + 1
  BY <1>2, <1>5, CheckpointFields DEF Grows
<1>7. /\ ~persists => /\ Rows("committed")' = Rows("committed")
                      /\ Rows("quarantined")' = Rows("quarantined")
      /\ persists => /\ Rows("committed")' = Rows("committed") \cup {id}
                     /\ Rows("quarantined")' = Rows("quarantined") \ {id}
  <2> HIDE DEF id, n, c
  <2>1. CASE ~persists
    BY <2>1, <1>4 DEF Rows
  <2>2. CASE persists
    <3> DEFINE row == [id |-> id, disposition |-> "committed"]
    <3>1. /\ store'.inbox = {x \in store.inbox : x.id # id} \cup {row}
          /\ row.id = id /\ row.disposition = "committed"
      BY <2>2, <1>4
    <3> HIDE DEF row, persists
    <3>2. {y \in store'.inbox : y.disposition = "committed"}
            = {y \in store.inbox : y.disposition = "committed" /\ y.id # id} \cup {row}
      BY <3>1
    <3>3. {y \in store'.inbox : y.disposition = "quarantined"}
            = {y \in store.inbox : y.disposition = "quarantined" /\ y.id # id}
      BY <3>1
    <3>4. Rows("committed")' = Rows("committed") \cup {id}
      BY <3>1, <3>2 DEF Rows
    <3>5. Rows("quarantined")' = Rows("quarantined") \ {id}
      BY <3>1, <3>3 DEF Rows
    <3> QED
      BY <2>2, <3>4, <3>5
  <2> QED
    BY <2>1, <2>2
<1> HIDE DEF persists, id, n, c
<1>8. HostTypeOK'
  <2>1. TypeOK'
    <3>1. /\ store'.inbox \subseteq [id : Persisted, disposition : {"committed", "quarantined"}]
          /\ store'.rows \in Persisted \cup {NoWriter}
          /\ store'.quarantine \subseteq [id : Faulty, released : BOOLEAN]
      BY <1>2, <1>3, <1>4 DEF HostTypeOK, TypeOK
    <3>2. acked' \subseteq Deliveries
      BY <1>2, <1>3 DEF HostTypeOK, TypeOK, id
    <3> QED
      BY <1>3, <3>1, <3>2 DEF HostTypeOK, TypeOK
  <2>2. DOMAIN worker' = Worker
    BY <1>3 DEF HostTypeOK
  <2> QED
    BY <1>4, <2>1, <2>2 DEF HostTypeOK
<1>9. Linked(store.checkpoint)' /\ Dated(store.checkpoint)'
  BY <1>2, <1>4 DEF Linked, Dated
<1>10. TransactionWhole'
  <2>1. Whole(n, Rows("committed")', store'.rows)
    BY <1>2, <1>4, <1>7
  <2>2. {q.id : q \in store'.quarantine} = Rows("quarantined")'
    <3>1. {q.id : q \in store.quarantine} = Rows("quarantined")
      BY WholeStore DEF HostBooks
    <3> QED
      BY <1>4, <1>7, <3>1
  <2>3. Whole(store.checkpoint, Rows("committed"), store.rows)'
    BY <2>1, <1>4
  <2>4. (TransactionWhole <=>
           /\ Whole(store.checkpoint, Rows("committed"), store.rows)
           /\ {q.id : q \in store.quarantine} = Rows("quarantined"))'
    BY WholeStore, PTL
  <2> QED
    BY <2>2, <2>3, <2>4
<1>11. RequestsMade'
  <2>1. SUFFICES ASSUME NEW d \in Deliveries, request'[d] # NoRequest
                 PROVE  LET q == request'[d] IN
                          /\ q \in Requests /\ q.id = d
                          /\ q.kind = (IF d \in Persisted THEN "persist" ELSE "admit")
                          /\ q.migrates => d \in Migrating
                          /\ q.expected <= n.revision
                          /\ q.expected # n.revision
    BY <1>4 DEF RequestsMade
  <2>2. request'[d] = request[d] /\ request[d] # NoRequest
    BY <2>1
  <2>3. LET q == request[d] IN
          /\ q \in Requests /\ q.id = d
          /\ q.kind = (IF d \in Persisted THEN "persist" ELSE "admit")
          /\ q.migrates => d \in Migrating
          /\ q.expected <= c.revision
    BY <2>2 DEF HostBooks, RequestsMade, c
  <2>4. request[d].expected \in Nat
    BY <2>3 DEF Requests
  <2> QED
    BY <1>6, <2>2, <2>3, <2>4
<1>12. Staging'
  <2>1. SUFFICES ASSUME NEW v \in Worker, worker'[v] # Idle
                 PROVE  /\ worker'[v].read \in Nat /\ worker'[v].read <= n.revision
                        /\ worker'[v].read # n.revision
    BY <1>4 DEF Staging, ReadIsCurrent
  <2>2. worker'[v] = worker[v] /\ worker[v] # Idle
    BY <2>1, <1>3 DEF HostTypeOK
  <2>3. worker[v].read \in Nat /\ worker[v].read <= c.revision
    BY <2>2 DEF HostBooks, Staging, c
  <2> QED
    BY <1>6, <2>2, <2>3
<1>13. AcknowledgedStays'
  <2>1. SUFFICES ASSUME NEW d \in acked'
                 PROVE  /\ AcceptedIn(n, d)
                        /\ d \in Persisted => d \in Rows("committed")' /\ TerminalIn(n, d)
    BY <1>4 DEF AcknowledgedStays, AcceptedIn, TerminalIn
  <2>2. CASE d \in acked
    <3>1. /\ AcceptedIn(c, d)
          /\ d \in Persisted => d \in Rows("committed") /\ TerminalIn(c, d)
      BY <2>2 DEF HostBooks, AcknowledgedStays, c
    <3>2. /\ AcceptedIn(c, d) => AcceptedIn(n, d)
          /\ TerminalIn(c, d) => TerminalIn(n, d)
      BY <1>2, <1>5, EndsGrown
    <3> QED
      BY <1>7, <3>1, <3>2
  <2>3. CASE d \notin acked
    <3>1. worker[w].kind # "step" /\ d = id
      BY <2>3 DEF id
    <3> QED
      BY <1>2, <1>7, <3>1
  <2> QED
    BY <2>2, <2>3
<1> QED
  BY <1>8, <1>9, <1>10, <1>11, <1>12, <1>13 DEF HostBooks

-----------------------------------------------------------------------------
(* The other steps of the host.                                              *)

(* A step that leaves the stored checkpoint and the committed rows alone.    *)
LEMMA StandingBooks ==
  ASSUME HostBooks, TypeOK',
         store' = [checkpoint |-> store'.checkpoint, inbox |-> store'.inbox,
                   rows |-> store'.rows, quarantine |-> store'.quarantine],
         store'.checkpoint = store.checkpoint, store'.rows = store.rows,
         Rows("committed")' = Rows("committed"),
         {q.id : q \in store'.quarantine} = Rows("quarantined")',
         DOMAIN request' = Deliveries, DOMAIN worker' = Worker,
         \A d \in Deliveries :
           \/ request'[d] = request[d] \/ request'[d] = NoRequest
           \/ LET q == request'[d] IN
                /\ q \in Requests /\ q.id = d
                /\ q.kind = (IF d \in Persisted THEN "persist" ELSE "admit")
                /\ q.migrates => d \in Migrating
                /\ q.expected = store.checkpoint.revision
                /\ Presentable(store.checkpoint, d),
         \A w \in Worker :
           \/ worker'[w] = worker[w] \/ worker'[w] = Idle
           \/ /\ worker'[w].read = store.checkpoint.revision
              /\ StagedFrom(store.checkpoint, worker'[w]),
         \A d \in acked' \ acked :
           /\ AcceptedIn(store.checkpoint, d)
           /\ d \in Persisted => d \in Rows("committed") /\ TerminalIn(store.checkpoint, d)
  PROVE  HostBooks'
<1> DEFINE c == store.checkpoint
<1>1. c \in Checkpoint /\ Linked(c) /\ Dated(c) /\ Whole(c, Rows("committed"), store.rows)
  BY WholeStore DEF HostBooks, Linked
<1>2. c.revision \in Nat
  BY <1>1, CheckpointFields
<1> HIDE DEF c
<1>3. store'.checkpoint = c
  BY DEF c
<1>4. HostTypeOK'
  BY DEF HostTypeOK
<1>5. Linked(store.checkpoint)' /\ Dated(store.checkpoint)'
  BY <1>1, <1>3
<1>6. TransactionWhole'
  <2>1. Whole(store.checkpoint, Rows("committed"), store.rows)'
    BY <1>1, <1>3
  <2>2. (TransactionWhole <=>
           /\ Whole(store.checkpoint, Rows("committed"), store.rows)
           /\ {q.id : q \in store.quarantine} = Rows("quarantined"))'
    BY WholeStore, PTL
  <2> QED
    BY <2>1, <2>2
<1>7. RequestsMade'
  <2>1. \A e : Presentable(store.checkpoint, e)' <=> Presentable(c, e)
    BY <1>3 DEF Presentable, TargetRuns
  <2>2. SUFFICES ASSUME NEW d \in Deliveries, request'[d] # NoRequest
                 PROVE  LET q == request'[d] IN
                          /\ q \in Requests /\ q.id = d
                          /\ q.kind = (IF d \in Persisted THEN "persist" ELSE "admit")
                          /\ q.migrates => d \in Migrating
                          /\ q.expected <= c.revision
                          /\ q.expected = c.revision => Presentable(c, d)
    BY <1>3, <2>1 DEF RequestsMade
  <2>3. CASE request'[d] = request[d]
    BY <2>2, <2>3 DEF HostBooks, RequestsMade, c
  <2>4. CASE request'[d] # request[d]
    BY <2>2, <2>4, <1>2 DEF c
  <2> QED
    BY <2>3, <2>4
<1>8. Staging'
  <2>1. \A job : StagedFrom(store.checkpoint, job)' <=> StagedFrom(c, job)
    BY <1>3 DEF StagedFrom
  <2>2. SUFFICES ASSUME NEW w \in Worker, worker'[w] # Idle
                 PROVE  /\ worker'[w].read \in Nat /\ worker'[w].read <= c.revision
                        /\ worker'[w].read = c.revision => StagedFrom(c, worker'[w])
    BY <1>3 DEF Staging, ReadIsCurrent, StagedFrom
  <2>3. CASE worker'[w] = worker[w]
    BY <2>2, <2>3 DEF HostBooks, Staging, ReadIsCurrent, c
  <2>4. CASE worker'[w] # worker[w]
    BY <2>2, <2>4, <1>2 DEF c
  <2> QED
    BY <2>3, <2>4
<1>9. AcknowledgedStays'
  BY <1>3 DEF HostBooks, AcknowledgedStays, AcceptedIn, TerminalIn, c
<1> QED
  BY <1>4, <1>5, <1>6, <1>7, <1>8, <1>9, <1>3, <1>1 DEF HostBooks

(* One delivery at most has artifacts that do not resolve.                   *)
LEMMA FaultySingle ==
  \A d, e \in Faulty : d = e
<1>1. IsFiniteSet(Faulty) /\ Cardinality(Faulty) \in Nat /\ Cardinality(Faulty) <= 1
  BY FaultyAssumption, FS_CardinalityType
<1>2. Cardinality(Faulty) = 0 \/ Cardinality(Faulty) = 1
  BY <1>1
<1>3. CASE Cardinality(Faulty) = 0
  BY <1>1, <1>3, FS_EmptySet
<1>4. CASE Cardinality(Faulty) = 1
  <2>1. PICK x : Faulty = {x}
    BY <1>1, <1>4, FS_Singleton
  <2> QED
    BY <2>1
<1> QED
  BY <1>2, <1>3, <1>4

(* What the books say of the store, its callers and its workers.             *)
LEMMA BooksTyped ==
  ASSUME HostBooks
  PROVE  /\ TypeOK
         /\ store = [checkpoint |-> store.checkpoint, inbox |-> store.inbox,
                     rows |-> store.rows, quarantine |-> store.quarantine]
         /\ DOMAIN request = Deliveries /\ DOMAIN worker = Worker
         /\ {q.id : q \in store.quarantine} = Rows("quarantined")
         /\ store.checkpoint \in Checkpoint /\ store.checkpoint.revision \in Nat
<1>1. store.checkpoint \in Checkpoint
  BY DEF HostBooks, Linked
<1>2. store.checkpoint.revision \in Nat
  BY <1>1, CheckpointFields
<1>3. {q.id : q \in store.quarantine} = Rows("quarantined")
  BY WholeStore DEF HostBooks
<1> QED
  BY <1>1, <1>2, <1>3 DEF HostBooks, HostTypeOK

(* What a caller has asked for, when the checkpoint is still the one it saw. *)
LEMMA RequestFacts ==
  ASSUME HostBooks, NEW d \in Deliveries, request[d] # NoRequest
  PROVE  /\ request[d] \in Requests /\ request[d].id = d
         /\ request[d].kind = (IF d \in Persisted THEN "persist" ELSE "admit")
         /\ request[d].migrates => d \in Migrating
         /\ CurrentRequest(d) => Presentable(store.checkpoint, d)
  BY DEF HostBooks, RequestsMade, CurrentRequest

(* A caller names the checkpoint it sees.                                    *)
LEMMA AskBooks ==
  ASSUME HostBooks, NEW d \in Deliveries, Ask(d)
  PROVE  HostBooks'
<1> DEFINE q == [kind |-> IF d \in Persisted THEN "persist" ELSE "admit", id |-> d,
                 expected |-> store.checkpoint.revision,
                 migrates |-> d \in Migrating /\ store.checkpoint.definition = "source"]
<1>1. /\ Presentable(store.checkpoint, d)
      /\ request' = [request EXCEPT ![d] = q]
      /\ UNCHANGED <<store, worker, acked, refused, unresolved, faults>>
  BY DEF Ask
<1>2. q \in Requests /\ q.id = d
      /\ q.kind = (IF d \in Persisted THEN "persist" ELSE "admit")
      /\ (q.migrates => d \in Migrating) /\ q.expected = store.checkpoint.revision
  BY BooksTyped DEF Requests
<1> HIDE DEF q
<1>3. DOMAIN request' = Deliveries /\ request'[d] = q
      /\ \A e \in Deliveries \ {d} : request'[e] = request[e]
  BY <1>1, BooksTyped
<1>4. TypeOK' /\ Rows("committed")' = Rows("committed") /\ Rows("quarantined")' = Rows("quarantined")
  BY <1>1, BooksTyped DEF TypeOK, Rows
<1>5. \A e \in Deliveries :
        \/ request'[e] = request[e] \/ request'[e] = NoRequest
        \/ LET p == request'[e] IN
             /\ p \in Requests /\ p.id = e
             /\ p.kind = (IF e \in Persisted THEN "persist" ELSE "admit")
             /\ p.migrates => e \in Migrating
             /\ p.expected = store.checkpoint.revision
             /\ Presentable(store.checkpoint, e)
  BY <1>1, <1>2, <1>3
<1>6. /\ store' = [checkpoint |-> store'.checkpoint, inbox |-> store'.inbox,
                   rows |-> store'.rows, quarantine |-> store'.quarantine]
      /\ {x.id : x \in store'.quarantine} = Rows("quarantined")'
      /\ DOMAIN worker' = Worker
      /\ \A w \in Worker : worker'[w] = worker[w]
      /\ acked' \ acked = {}
      /\ store'.checkpoint = store.checkpoint /\ store'.rows = store.rows
  BY <1>1, <1>4, BooksTyped
<1> QED
  BY <1>3, <1>4, <1>5, <1>6, StandingBooks

(* A delivery whose artifacts do not resolve is set aside.                   *)
LEMMA QuarantineBooks ==
  ASSUME HostBooks, NEW w \in Worker, NEW d \in Deliveries, Quarantine(w, d)
  PROVE  HostBooks'
<1> DEFINE row == [id |-> d, disposition |-> "quarantined"]
           aside == [id |-> d, released |-> FALSE]
<1>1. /\ d \in unresolved /\ store.quarantine = {}
      /\ store' = [store EXCEPT !.inbox = @ \cup {row}, !.quarantine = {aside}]
      /\ UNCHANGED <<request, worker, acked, refused, unresolved, faults>>
  BY DEF Quarantine
<1>2. /\ store' = [checkpoint |-> store'.checkpoint, inbox |-> store'.inbox,
                   rows |-> store'.rows, quarantine |-> store'.quarantine]
      /\ store'.checkpoint = store.checkpoint /\ store'.rows = store.rows
      /\ store'.inbox = store.inbox \cup {row} /\ store'.quarantine = {aside}
  BY <1>1, BooksTyped
<1>3. d \in Faulty /\ d \in Persisted
  BY <1>1, BooksTyped, KindAssumption DEF TypeOK
<1>4. /\ row.id = d /\ row.disposition = "quarantined" /\ aside.id = d
      /\ row \in [id : Persisted, disposition : {"committed", "quarantined"}]
      /\ aside \in [id : Faulty, released : BOOLEAN]
  BY <1>3
<1> HIDE DEF row, aside
<1>5. TypeOK'
  BY <1>1, <1>2, <1>4, BooksTyped DEF TypeOK
<1>6. Rows("committed")' = Rows("committed")
  <2>1. {y \in store'.inbox : y.disposition = "committed"}
          = {y \in store.inbox : y.disposition = "committed"}
    BY <1>2, <1>4
  <2> QED
    BY <2>1 DEF Rows
<1>7. {q.id : q \in store'.quarantine} = Rows("quarantined")'
  <2>1. Rows("quarantined") = {}
    BY <1>1, BooksTyped
  <2>2. {y \in store'.inbox : y.disposition = "quarantined"}
          = {y \in store.inbox : y.disposition = "quarantined"} \cup {row}
    BY <1>2, <1>4
  <2>3. Rows("quarantined")' = {d}
    BY <2>1, <2>2, <1>4 DEF Rows
  <2>4. {q.id : q \in store'.quarantine} = {d}
    BY <1>2, <1>4
  <2> QED
    BY <2>3, <2>4
<1>8. /\ DOMAIN request' = Deliveries /\ DOMAIN worker' = Worker
      /\ \A e \in Deliveries : request'[e] = request[e]
      /\ \A v \in Worker : worker'[v] = worker[v]
      /\ acked' \ acked = {}
  BY <1>1, BooksTyped
<1> QED
  BY <1>2, <1>5, <1>6, <1>7, <1>8, StandingBooks

(* An operator releases what was set aside.                                  *)
LEMMA ReleaseBooks ==
  ASSUME HostBooks, NEW d \in Deliveries, Release(d)
  PROVE  HostBooks'
<1> DEFINE aside == [id |-> d, released |-> TRUE]
<1>1. /\ Held(d)
      /\ store' = [store EXCEPT !.quarantine = {aside}]
      /\ unresolved' = unresolved \ {d}
      /\ UNCHANGED <<request, worker, acked, refused, faults>>
  BY DEF Release
<1>2. /\ store' = [checkpoint |-> store'.checkpoint, inbox |-> store'.inbox,
                   rows |-> store'.rows, quarantine |-> store'.quarantine]
      /\ store'.checkpoint = store.checkpoint /\ store'.rows = store.rows
      /\ store'.inbox = store.inbox /\ store'.quarantine = {aside}
  BY <1>1, BooksTyped
<1>3. PICK q \in store.quarantine : q.id = d
  BY <1>1 DEF Held
<1>4. store.quarantine \subseteq [id : Faulty, released : BOOLEAN]
  BY BooksTyped DEF TypeOK
<1>5. d \in Faulty
  BY <1>3, <1>4
<1>6. aside.id = d /\ aside \in [id : Faulty, released : BOOLEAN]
  BY <1>5
<1> HIDE DEF aside
<1>7. TypeOK'
  BY <1>1, <1>2, <1>6, BooksTyped DEF TypeOK
<1>8. Rows("committed")' = Rows("committed") /\ Rows("quarantined")' = Rows("quarantined")
  BY <1>2 DEF Rows
<1>9. {x.id : x \in store'.quarantine} = Rows("quarantined")'
  <2>1. \A x \in store.quarantine : x.id = d
    BY <1>4, <1>5, FaultySingle
  <2>2. {x.id : x \in store.quarantine} = {d}
    BY <1>3, <2>1
  <2>3. {x.id : x \in store'.quarantine} = {d}
    BY <1>2, <1>6
  <2> QED
    BY <2>2, <2>3, <1>8, BooksTyped
<1>10. /\ DOMAIN request' = Deliveries /\ DOMAIN worker' = Worker
       /\ \A e \in Deliveries : request'[e] = request[e]
       /\ \A v \in Worker : worker'[v] = worker[v]
       /\ acked' \ acked = {}
  BY <1>1, BooksTyped
<1> QED
  BY <1>2, <1>7, <1>8, <1>9, <1>10, StandingBooks

(* A step that writes nothing.                                               *)
LEMMA ReadOnly ==
  ASSUME HostBooks, UNCHANGED store
  PROVE  /\ store' = [checkpoint |-> store'.checkpoint, inbox |-> store'.inbox,
                      rows |-> store'.rows, quarantine |-> store'.quarantine]
         /\ store'.checkpoint = store.checkpoint /\ store'.rows = store.rows
         /\ Rows("committed")' = Rows("committed")
         /\ {q.id : q \in store'.quarantine} = Rows("quarantined")'
<1>1. Rows("committed")' = Rows("committed") /\ Rows("quarantined")' = Rows("quarantined")
  BY DEF Rows
<1> QED
  BY <1>1, BooksTyped

(* A worker takes a request up.                                              *)
LEMMA BeginBooks ==
  ASSUME HostBooks, NEW w \in Worker, NEW d \in Deliveries, Begin(w, d)
  PROVE  HostBooks'
<1> DEFINE c == store.checkpoint
           result == IF request[d].kind = "persist" THEN Combined(c, d, request[d].migrates)
                     ELSE Admitted(c, d)
           job == Staged(request[d].kind, d, result)
<1>1. /\ request[d] # NoRequest /\ CurrentRequest(d) /\ TargetRuns(c, d)
      /\ worker' = [worker EXCEPT ![w] = job]
      /\ UNCHANGED <<store, request, acked, refused, unresolved, faults>>
  BY DEF Begin, Offered
<1>2. /\ request[d] \in Requests /\ request[d].id = d
      /\ request[d].kind = (IF d \in Persisted THEN "persist" ELSE "admit")
      /\ request[d].migrates => d \in Migrating
      /\ Presentable(c, d)
  BY <1>1, RequestFacts
<1>3. request[d].migrates \in BOOLEAN
  BY <1>2 DEF Requests
<1>4. d \in Persisted \cup Pays => c.ready[MailboxOf(d)] = <<>>
  BY <1>1, <1>2 DEF Presentable
<1>5. job.kind = request[d].kind /\ job.id = d /\ job.read = c.revision
      /\ job.checkpoint = result
  BY DEF Staged
<1>6. ~Replayed(request[d])
  BY <1>1 DEF CurrentRequest
<1>7. StagedFrom(c, job)
  <2>1. CASE d \in Persisted
    <3>1. d \notin Rows("committed")
      BY <2>1, <1>2, <1>6, CommittedFacts DEF Replayed
    <3>2. job.kind = "persist" /\ job.checkpoint = Combined(c, d, request[d].migrates)
      BY <2>1, <1>2, <1>5
    <3> HIDE DEF c, job, result
    <3> QED
      BY <2>1, <3>1, <3>2, <1>1, <1>2, <1>3, <1>4, <1>5 DEF StagedFrom
  <2>2. CASE d \notin Persisted
    <3>1. job.kind = "admit" /\ job.checkpoint = Admitted(c, d)
      BY <2>2, <1>2, <1>5
    <3>2. ~AcceptedIn(c, d)
      BY <2>2, <1>2, <1>6 DEF Replayed
    <3>3. d \in Pays => c.ready["payment"] = <<>>
      BY <1>4 DEF MailboxOf
    <3> HIDE DEF c, job, result
    <3> QED
      BY <2>2, <3>1, <3>2, <3>3, <1>5 DEF StagedFrom
  <2> QED
    BY <2>1, <2>2
<1> HIDE DEF job, result
<1>8. /\ DOMAIN worker' = Worker /\ worker'[w] = job
      /\ \A v \in Worker \ {w} : worker'[v] = worker[v]
  BY <1>1, BooksTyped
<1>9. \A v \in Worker :
        \/ worker'[v] = worker[v] \/ worker'[v] = Idle
        \/ worker'[v].read = c.revision /\ StagedFrom(c, worker'[v])
  BY <1>5, <1>7, <1>8
<1>10. TypeOK'
  BY <1>1, BooksTyped DEF TypeOK
<1>11. /\ DOMAIN request' = Deliveries
       /\ \A e \in Deliveries : request'[e] = request[e]
       /\ acked' \ acked = {}
  BY <1>1, BooksTyped
<1>12. UNCHANGED store
  BY <1>1
<1> QED
  BY <1>8, <1>9, <1>10, <1>11, <1>12, ReadOnly, StandingBooks

(* A worker takes up what a runtime holds.                                   *)
LEMMA BeginStepBooks ==
  ASSUME HostBooks, NEW w \in Worker, NEW r \in Runtimes, BeginStep(w, r)
  PROVE  HostBooks'
<1> DEFINE c == store.checkpoint
           job == Staged("step", Head(c.ready[r]).id, Processed(c, r))
<1>1. /\ Runnable(c, r) /\ worker' = [worker EXCEPT ![w] = job]
      /\ UNCHANGED <<store, request, acked, refused, unresolved, faults>>
  BY DEF BeginStep
<1>2. job.kind = "step" /\ job.read = c.revision /\ job.checkpoint = Processed(c, r)
  BY DEF Staged
<1> HIDE DEF job
<1>3. StagedFrom(c, job)
  BY <1>1, <1>2 DEF StagedFrom
<1>4. /\ DOMAIN worker' = Worker /\ worker'[w] = job
      /\ \A v \in Worker \ {w} : worker'[v] = worker[v]
  BY <1>1, BooksTyped
<1>5. \A v \in Worker :
        \/ worker'[v] = worker[v] \/ worker'[v] = Idle
        \/ worker'[v].read = c.revision /\ StagedFrom(c, worker'[v])
  BY <1>2, <1>3, <1>4
<1>6. TypeOK'
  BY <1>1, BooksTyped DEF TypeOK
<1>7. /\ DOMAIN request' = Deliveries
      /\ \A e \in Deliveries : request'[e] = request[e]
      /\ acked' \ acked = {} /\ UNCHANGED store
  BY <1>1, BooksTyped
<1> QED
  BY <1>4, <1>5, <1>6, <1>7, ReadOnly, StandingBooks

(* A step that at most ends requests and lets workers go.                    *)
LEMMA EndingBooks ==
  ASSUME HostBooks, TypeOK', UNCHANGED store,
         DOMAIN request' = Deliveries, DOMAIN worker' = Worker,
         \A d \in Deliveries : request'[d] = request[d] \/ request'[d] = NoRequest,
         \A w \in Worker : worker'[w] = worker[w] \/ worker'[w] = Idle,
         \A d \in acked' \ acked :
           /\ AcceptedIn(store.checkpoint, d)
           /\ d \in Persisted => d \in Rows("committed") /\ TerminalIn(store.checkpoint, d)
  PROVE  HostBooks'
  BY ReadOnly, StandingBooks

(* A worker answers a delivery from what the store holds, or refuses it.     *)
LEMMA AnsweredBooks ==
  ASSUME HostBooks, NEW w \in Worker, NEW d \in Deliveries,
         AnswerReplay(w, d) \/ Conflict(w, d) \/ Refuse(w, d)
  PROVE  HostBooks'
<1>1. /\ request' = [request EXCEPT ![d] = NoRequest]
      /\ UNCHANGED <<store, worker, unresolved, faults>>
      /\ refused' = refused \/ refused' = refused \cup {d}
      /\ acked' = acked \/ (acked' = acked \cup {d} /\ Replayed(request[d]))
      /\ request[d] # NoRequest
  <2>1. CASE AnswerReplay(w, d)
    BY <2>1 DEF AnswerReplay, Offered
  <2>2. CASE Conflict(w, d)
    BY <2>2 DEF Conflict, Offered
  <2>3. CASE Refuse(w, d)
    BY <2>3 DEF Refuse, Offered
  <2> QED
    BY <2>1, <2>2, <2>3
<1>2. TypeOK'
  BY <1>1, BooksTyped DEF TypeOK
<1>3. /\ DOMAIN request' = Deliveries /\ DOMAIN worker' = Worker
      /\ \A e \in Deliveries : request'[e] = request[e] \/ request'[e] = NoRequest
      /\ \A v \in Worker : worker'[v] = worker[v]
  BY <1>1, BooksTyped
<1>4. Replayed(request[d]) =>
        /\ AcceptedIn(store.checkpoint, d)
        /\ d \in Persisted => d \in Rows("committed") /\ TerminalIn(store.checkpoint, d)
  <2>1. /\ request[d].id = d
        /\ request[d].kind = (IF d \in Persisted THEN "persist" ELSE "admit")
    BY <1>1, RequestFacts
  <2> QED
    BY <2>1, CommittedFacts DEF Replayed
<1>5. \A e \in acked' \ acked :
        /\ AcceptedIn(store.checkpoint, e)
        /\ e \in Persisted => e \in Rows("committed") /\ TerminalIn(store.checkpoint, e)
  BY <1>1, <1>4
<1>6. UNCHANGED store
  BY <1>1
<1> QED
  BY <1>2, <1>3, <1>5, <1>6, EndingBooks

(* A worker drops what it staged.                                            *)
LEMMA DroppedBooks ==
  ASSUME HostBooks, NEW w \in Worker, Rollback(w) \/ Fail(w)
  PROVE  HostBooks'
<1>1. /\ worker' = [worker EXCEPT ![w] = Idle]
      /\ request' = request \/ request' = [request EXCEPT ![worker[w].id] = NoRequest]
      /\ UNCHANGED <<store, acked, refused, unresolved>>
      /\ faults' = faults \/ (faults < MaxFaults /\ faults' = faults + 1)
  BY DEF Rollback, Fail
<1>2. TypeOK'
  BY <1>1, BooksTyped, MaxFaultsAssumption DEF TypeOK
<1>3. /\ DOMAIN request' = Deliveries /\ DOMAIN worker' = Worker
      /\ \A e \in Deliveries : request'[e] = request[e] \/ request'[e] = NoRequest
      /\ \A v \in Worker : worker'[v] = worker[v] \/ worker'[v] = Idle
      /\ acked' \ acked = {} /\ UNCHANGED store
  BY <1>1, BooksTyped
<1> QED
  BY <1>2, <1>3, EndingBooks

(* A worker commits, and the broker hears of it or not.                      *)
LEMMA CommittedBooks ==
  ASSUME HostBooks, NEW w \in Worker, Commit(w) \/ CommitUnanswered(w)
  PROVE  HostBooks'
<1> DEFINE told == IF worker[w].kind = "step" THEN {} ELSE {worker[w].id}
<1>1. /\ worker[w] # Idle /\ ReadIsCurrent(w)
      /\ store' = Written(store, w) /\ worker' = [worker EXCEPT ![w] = Idle]
      /\ \/ request' = request
         \/ request' = [d \in Deliveries |-> IF d \in told THEN NoRequest ELSE request[d]]
      /\ acked' = acked \/ acked' = acked \cup told
      /\ UNCHANGED <<refused, unresolved>>
      /\ faults' = faults \/ (faults < MaxFaults /\ faults' = faults + 1)
  BY DEF Commit, CommitUnanswered
<1>2. faults' \in 0 .. MaxFaults
  BY <1>1, BooksTyped, MaxFaultsAssumption DEF TypeOK
<1>3. \A d \in acked' \ acked : worker[w].kind # "step" /\ d = worker[w].id
  BY <1>1
<1> HIDE DEF told
<1>4. /\ DOMAIN request' = Deliveries
      /\ \A d \in Deliveries : request'[d] = request[d] \/ request'[d] = NoRequest
  BY <1>1, BooksTyped
<1> QED
  BY <1>1, <1>2, <1>3, <1>4, CommitBooks

LEMMA HostStep == HostBooks /\ [Next]_vars => HostBooks'
<1> SUFFICES ASSUME HostBooks, [Next]_vars PROVE HostBooks'
  OBVIOUS
<1>1. ASSUME NEW d \in Deliveries, Ask(d) \/ Release(d) PROVE HostBooks'
  BY <1>1, AskBooks, ReleaseBooks
<1>2. ASSUME NEW w \in Worker, NEW d \in Deliveries, Present(w, d) PROVE HostBooks'
  BY <1>2, BeginBooks, AnsweredBooks, QuarantineBooks DEF Present
<1>3. ASSUME NEW w \in Worker, NEW r \in Runtimes, BeginStep(w, r) PROVE HostBooks'
  BY <1>3, BeginStepBooks
<1>4. ASSUME NEW w \in Worker,
             Commit(w) \/ Rollback(w) \/ CommitUnanswered(w) \/ Fail(w)
      PROVE  HostBooks'
  BY <1>4, CommittedBooks, DroppedBooks
<1>5. CASE UNCHANGED vars
  <2>1. TypeOK'
    BY <1>5, BooksTyped DEF TypeOK, vars
  <2>2. /\ DOMAIN request' = Deliveries /\ DOMAIN worker' = Worker
        /\ \A e \in Deliveries : request'[e] = request[e]
        /\ \A v \in Worker : worker'[v] = worker[v]
        /\ acked' \ acked = {} /\ UNCHANGED store
    BY <1>5, BooksTyped DEF vars
  <2> QED
    BY <2>1, <2>2, EndingBooks
<1> QED
  BY <1>1, <1>2, <1>3, <1>4, <1>5 DEF Next, Work

-----------------------------------------------------------------------------
(* The books stay right through every interleaving of the callers, the       *)
(* workers and the operator, lost answers and crashes included: the stored   *)
(* checkpoint is linked and dated, every transaction is whole, what a worker *)
(* staged follows from the checkpoint it read for as long as that one is     *)
(* stored, and what was acknowledged is there.                               *)
THEOREM HostBooksKept == Spec => []HostBooks
<1>1. Init => HostBooks
  BY HostInit
<1>2. HostBooks /\ [Next]_vars => HostBooks'
  BY HostStep
<1> QED
  BY <1>1, <1>2, PTL DEF Spec

(* The inbox, the rows, the quarantine and the books of callers have their   *)
(* types.                                                                    *)
THEOREM HostTypeCorrect == Spec => []TypeOK
<1>1. HostBooks => TypeOK
  BY BooksTyped
<1> QED
  BY <1>1, HostBooksKept, PTL

(* Whatever the transactions of a host store, in any order, passes the       *)
(* checkpoint validator (validate_checkpoint_derivation): one acceptance per *)
(* host delivery, one producer per native event, an intent per effect,       *)
(* nothing orphaned, in two places or out of order.                          *)
THEOREM EvidenceLinkedKept == Spec => []EvidenceLinked
<1>1. HostBooks => EvidenceLinked
  BY LinkedValid DEF HostBooks, EvidenceLinked
<1> QED
  BY <1>1, HostBooksKept, PTL

(* Acceptance, end, outbox, migration audit, inbox row and application rows  *)
(* of a persisted delivery are committed as one unit, of one revision, or    *)
(* not at all (persistence_process_v1).                                      *)
THEOREM TransactionWholeKept == Spec => []TransactionWhole
<1>1. HostBooks => TransactionWhole
  BY DEF HostBooks
<1> QED
  BY <1>1, HostBooksKept, PTL

(* What the broker was told to forget stays in the store, whichever answers  *)
(* are lost and whichever transactions conflict.                             *)
THEOREM AcknowledgedStaysKept == Spec => []AcknowledgedStays
<1>1. HostBooks => AcknowledgedStays
  BY DEF HostBooks
<1> QED
  BY <1>1, HostBooksKept, PTL

(* History is only added to: a step leaves the stored checkpoint as it is or *)
(* is one operation later, with every receipt, intent and audit that was     *)
(* there, of one new revision for all it adds.  Two transactions that read   *)
(* the same checkpoint never both commit.                                    *)
THEOREM HistoryGrows ==
  Spec => [][\/ store'.checkpoint = store.checkpoint
             \/ Grows(store.checkpoint, store'.checkpoint)]_vars
<1>1. ASSUME HostBooks, [Next]_vars
      PROVE  \/ store'.checkpoint = store.checkpoint
             \/ Grows(store.checkpoint, store'.checkpoint)
  <2>1. CASE \E w \in Worker : Commit(w) \/ CommitUnanswered(w)
    <3>1. PICK w \in Worker : Commit(w) \/ CommitUnanswered(w)
      BY <2>1
    <3>2. worker[w] # Idle /\ ReadIsCurrent(w) /\ store' = Written(store, w)
      BY <3>1 DEF Commit, CommitUnanswered
    <3>3. StagedFrom(store.checkpoint, worker[w])
      BY <1>1, <3>2 DEF HostBooks, Staging
    <3>4. Grows(store.checkpoint, worker[w].checkpoint)
      BY <1>1, <3>3, StagedWhole
    <3>5. store'.checkpoint = worker[w].checkpoint
      BY <1>1, <3>2, WrittenFields DEF HostBooks
    <3> QED
      BY <3>4, <3>5
  <2>2. CASE UNCHANGED store
    BY <2>2
  <2>3. CASE \E w \in Worker, d \in Deliveries : Quarantine(w, d)
    BY <1>1, <2>3, BooksTyped DEF Quarantine
  <2>4. CASE \E d \in Deliveries : Release(d)
    BY <1>1, <2>4, BooksTyped DEF Release
  <2>5. \/ \E w \in Worker : Commit(w) \/ CommitUnanswered(w)
        \/ UNCHANGED store
        \/ \E w \in Worker, d \in Deliveries : Quarantine(w, d)
        \/ \E d \in Deliveries : Release(d)
    BY <1>1 DEF Next, Work, Present, Ask, Begin, AnswerReplay, Conflict, Refuse, BeginStep,
                Rollback, Fail, vars
  <2> QED
    BY <2>1, <2>2, <2>3, <2>4, <2>5
<1> QED
  BY <1>1, HostBooksKept, PTL DEF Spec

=============================================================================
