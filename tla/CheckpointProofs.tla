-------------------------- MODULE CheckpointProofs --------------------------
(***************************************************************************)
(* Theorems about Checkpoint, for any sets of identities, events and         *)
(* writers, any number of sends and batches of any length.                   *)
(***************************************************************************)
EXTENDS CheckpointInvariant, CheckpointRefinement, FiniteSetTheorems, TLAPS

-----------------------------------------------------------------------------
(* Lemmas about the operators of the model.                                  *)

(* A batch is a sequence of envelopes, numbered from 1.                      *)
LEMMA BatchType ==
  ASSUME NEW b \in Batches
  PROVE  /\ Len(b) \in Nat
         /\ Len(b) >= 1
         /\ DOMAIN b = 1..Len(b)
         /\ \A i \in DOMAIN b : b[i] \in Envelope
<1>1. PICK n \in 1..MaxBatch : b \in [1..n -> Envelope]
  BY DEF Batches
<1>2. n \in Nat /\ n >= 1
  BY BoundAssumption
<1>3. b \in Seq(Envelope) /\ Len(b) = n
  BY <1>1, <1>2
<1> QED
  BY <1>1, <1>2, <1>3

(* A batch of new members is a batch.                                        *)
LEMMA FreshIsBatch == FreshBatches \subseteq Batches
  BY DEF FreshBatches

(* The entries and receipts of an admitted batch have their types.           *)
LEMMA AllocationType ==
  ASSUME TypeOK, NEW fresh \in Batches
  PROVE  /\ AllocatedEntries(fresh) \subseteq ReadyEntry
         /\ AllocatedReceipts(fresh) \subseteq AcceptanceReceipt
<1>1. Len(fresh) \in Nat /\ DOMAIN fresh = 1..Len(fresh)
      /\ \A i \in DOMAIN fresh : fresh[i] \in Envelope
  BY BatchType
<1>2. \A i \in DOMAIN fresh : i - 1 \in Nat
  BY <1>1
<1>3. nextAcc \in Nat /\ nextQueue \in Nat /\ nextReceipt \in Nat /\ revision \in Nat
  BY DEF TypeOK
<1>4. AllocatedEntries(fresh) \subseteq ReadyEntry
  BY <1>1, <1>2, <1>3 DEF AllocatedEntries, ReadyEntry
<1>5. AllocatedReceipts(fresh) \subseteq AcceptanceReceipt
  BY <1>1, <1>2, <1>3 DEF AllocatedReceipts, AcceptanceReceipt
<1> QED
  BY <1>4, <1>5

(* A step's numbers, effects and receipt have their types.                   *)
LEMMA StepType ==
  ASSUME TypeOK, NEW m \in ready
  PROVE  /\ m.env \in Envelope
         /\ SendCount(m.env.event) \in Nat
         /\ StepAllocation(m.env.event) \in Nat
         /\ StatusAfter(m.env.event) \in {"running", "completed", "faulted"}
         /\ NewIntents(m.env) \subseteq PendingIntent
         /\ TerminalReceipt(m) \in TerminalReceiptType
<1>1. m \in ReadyEntry
  BY DEF TypeOK
<1>2. m.env \in Envelope /\ m.acc \in Nat /\ m.queue \in Nat /\ m.env.id \in EventId
  BY <1>1 DEF ReadyEntry, Envelope
<1>3. SendCount(m.env.event) \in Nat
  BY SendsAssumption DEF SendCount
<1>4. /\ nextStep \in Nat /\ nextOutput \in Nat /\ revision \in Nat
      /\ nextReceipt \in Nat /\ status \in {"running", "completed", "faulted"}
  BY DEF TypeOK
<1>5. StepAllocation(m.env.event) \in Nat
  BY <1>4 DEF StepAllocation
<1>6. StatusAfter(m.env.event) \in {"running", "completed", "faulted"}
  BY <1>4 DEF StatusAfter
<1>7. DispositionOf(m.env.event) \in Disposition
  BY DEF DispositionOf, Disposition
<1>8. \A k \in 1..SendCount(m.env.event) : k \in Nat /\ k - 1 \in Nat
  BY <1>3
<1>9. \A k \in 1..SendCount(m.env.event) : EmittedEffect(m.env, k) \in EffectId
  BY <1>2, <1>4, <1>8 DEF EmittedEffect, EffectId
<1>10. NewIntents(m.env) \subseteq PendingIntent
  BY <1>4, <1>8, <1>9 DEF NewIntents, PendingIntent, PendingStatus
<1>11. TerminalReceipt(m) \in TerminalReceiptType
  BY <1>2, <1>4, <1>6, <1>7, <1>9 DEF TerminalReceipt, TerminalReceiptType
<1> QED
  BY <1>2, <1>3, <1>5, <1>6, <1>10, <1>11

-----------------------------------------------------------------------------
(* Type correctness.                                                         *)

LEMMA TypeInit == Init => TypeOK
  BY DEF Init, TypeOK, ReadyEntry, AcceptanceReceipt, TerminalReceiptType,
         EventTombstone, PendingIntent, SettledRecord, EffectTombstone

(* A commit leaves a revision and a set of writers.                          *)
LEMMA CommitType ==
  ASSUME TypeOK, NEW w \in Writer, NEW answered \in BOOLEAN, Commit(w, answered)
  PROVE  revision' \in Nat /\ current' \subseteq Writer
  BY DEF TypeOK, Commit

LEMMA TypeStep == TypeOK /\ [Next]_vars => TypeOK'
<1> SUFFICES ASSUME TypeOK, [Next]_vars PROVE TypeOK'
  OBVIOUS
<1> USE DEF rootVars, mailVars, stepVars, logVars, outboxVars, hostVars
<1>1. CASE UNCHANGED vars
  BY <1>1 DEF TypeOK, vars
<1>2. ASSUME NEW w \in Writer, Load(w) PROVE TypeOK'
  BY <1>2 DEF TypeOK, Load
<1>3. ASSUME NEW b \in Batches, AdmitReplay({b[i] : i \in DOMAIN b}) PROVE TypeOK'
  <2>1. {b[i] : i \in DOMAIN b} \subseteq Envelope
    BY BatchType
  <2> QED
    BY <1>3, <2>1 DEF TypeOK, AdmitReplay
<1>4. ASSUME NEW w \in Writer, NEW answered \in BOOLEAN, Create(w, answered)
      PROVE  TypeOK'
  BY <1>4 DEF TypeOK, Create
<1>5. ASSUME NEW w \in Writer, NEW answered \in BOOLEAN, NEW fresh \in FreshBatches,
             NEW repeats \in SUBSET RetainedEnvelopes, Admit(w, fresh, repeats, answered)
      PROVE  TypeOK'
  <2>1. /\ Len(fresh) \in Nat
        /\ {fresh[i] : i \in DOMAIN fresh} \subseteq Envelope
    BY BatchType, FreshIsBatch
  <2>2. /\ AllocatedEntries(fresh) \subseteq ReadyEntry
        /\ AllocatedReceipts(fresh) \subseteq AcceptanceReceipt
    BY AllocationType, FreshIsBatch
  <2>3. RetainedEnvelopes \subseteq Envelope
    BY DEF TypeOK, RetainedEnvelopes, ReadyEntry, AcceptanceReceipt,
           TerminalReceiptType, EventTombstone
  <2>4. revision' \in Nat /\ current' \subseteq Writer
    BY <1>5, CommitType DEF Admit
  <2> QED
    BY <1>5, <2>1, <2>2, <2>3, <2>4 DEF TypeOK, Admit
<1>6. ASSUME NEW w \in Writer, NEW answered \in BOOLEAN, NEW m \in ready,
             Step(w, m, answered)
      PROVE  TypeOK'
  <2>1. revision' \in Nat /\ current' \subseteq Writer
    BY <1>6, CommitType DEF Step
  <2>2. handledCount' \in [EventId -> Nat]
    <3>1. handledCount \in [EventId -> Nat]
      BY DEF TypeOK
    <3>2. m.env.id \in EventId
      BY StepType DEF Envelope
    <3>3. handledCount' = [handledCount EXCEPT ![m.env.id] = @ + 1]
      BY <1>6 DEF Step
    <3> QED
      BY <3>1, <3>2, <3>3
  <2>3. /\ terminals' \subseteq TerminalReceiptType
        /\ pending' \subseteq PendingIntent
        /\ status' \in {"running", "completed", "faulted"}
        /\ nextStep' \in Nat /\ nextOutput' \in Nat
    BY <1>6, StepType DEF TypeOK, Step
  <2> QED
    BY <1>6, <2>1, <2>2, <2>3 DEF TypeOK, Step
<1>7. ASSUME NEW w \in Writer, NEW answered \in BOOLEAN, NEW p \in pending,
             NEW report \in PendingStatus, UpdateOutbox(w, p, report, answered)
      PROVE  TypeOK'
  <2>1. revision' \in Nat /\ current' \subseteq Writer
    BY <1>7, CommitType DEF UpdateOutbox
  <2>2. Reported(p, report) \in PendingIntent
    BY DEF TypeOK, PendingIntent, Reported
  <2> QED
    BY <1>7, <2>1, <2>2 DEF TypeOK, UpdateOutbox
<1>8. ASSUME NEW w \in Writer, NEW answered \in BOOLEAN, NEW p \in pending,
             NEW report \in Report, Terminalize(w, p, report, answered)
      PROVE  TypeOK'
  <2>1. revision' \in Nat /\ current' \subseteq Writer
    BY <1>8, CommitType DEF Terminalize
  <2>2. [terminalSeq |-> nextTerminal, effect |-> p.effect, sequence |-> p.sequence,
         revision |-> revision + 1, outcome |-> report] \in SettledRecord
    BY ReportAssumption DEF TypeOK, PendingIntent, SettledRecord
  <2> QED
    BY <1>8, <2>1, <2>2 DEF TypeOK, Terminalize
<1>9. ASSUME NEW w \in Writer, NEW answered \in BOOLEAN, NEW s \in settled,
             Compact(w, s, answered)
      PROVE  TypeOK'
  <2>1. revision' \in Nat /\ current' \subseteq Writer
    BY <1>9, CommitType DEF Compact
  <2>2. [terminalSeq |-> s.terminalSeq, effect |-> s.effect,
         revision |-> s.revision, outcome |-> s.outcome] \in EffectTombstone
    BY DEF TypeOK, SettledRecord, EffectTombstone
  <2>3. effectTombs' \in Seq(EffectTombstone)
    BY <1>9, <2>2 DEF TypeOK, Compact
  <2> QED
    BY <1>9, <2>1, <2>3 DEF TypeOK, Compact
<1>10. ASSUME NEW w \in Writer, NEW answered \in BOOLEAN, NEW a \in accepted,
              NEW t \in terminals, Prune(w, a, t, answered)
       PROVE  TypeOK'
  <2>1. revision' \in Nat /\ current' \subseteq Writer
    BY <1>10, CommitType DEF Prune
  <2>2. PruneTombstone(a, t) \in EventTombstone
    BY DEF TypeOK, PruneTombstone, AcceptanceReceipt, TerminalReceiptType,
           EventTombstone
  <2>3. t.seq \in Nat
    BY DEF TypeOK, TerminalReceiptType
  <2> QED
    BY <1>10, <2>1, <2>2, <2>3 DEF TypeOK, Prune, AfterCutoff
<1>11. ASSUME NEW w \in Writer, NEW answered \in BOOLEAN, Tombstone(w, answered)
       PROVE  TypeOK'
  <2>1. revision' \in Nat /\ current' \subseteq Writer
    BY <1>11, CommitType DEF Tombstone
  <2> QED
    BY <1>11, <2>1 DEF TypeOK, Tombstone
<1> QED
  BY <1>1, <1>2, <1>3, <1>4, <1>5, <1>6, <1>7, <1>8, <1>9, <1>10, <1>11 DEF Next

(* Every document and view of a writer has the shape the code gives it.      *)
THEOREM TypeCorrect == Spec => []TypeOK
  BY TypeInit, TypeStep, PTL DEF Spec

-----------------------------------------------------------------------------
(* The bookkeeping of deliveries.                                            *)

(* The numbers, identities and pairing of what a batch allocates.            *)
LEMMA AllocationFacts ==
  ASSUME TypeOK, NEW fresh \in FreshBatches
  PROVE  /\ \A m \in AllocatedEntries(fresh) :
              /\ nextAcc <= m.acc /\ m.acc < nextAcc + Len(fresh)
              /\ m.queue < nextQueue + Len(fresh)
              /\ m.env.id \notin RetainedIds
              /\ \E r \in AllocatedReceipts(fresh) : r.env = m.env /\ r.acc = m.acc
         /\ \A r \in AllocatedReceipts(fresh) :
              /\ nextAcc <= r.acc /\ r.acc < nextAcc + Len(fresh)
              /\ nextReceipt <= r.seq /\ r.seq < nextReceipt + Len(fresh)
              /\ r.revision = revision + 1
              /\ r.env.id \notin RetainedIds
              /\ \E m \in AllocatedEntries(fresh) : m.env = r.env /\ m.acc = r.acc
         /\ DistinctIn(AllocatedEntries(fresh))
         /\ DistinctIn(AllocatedReceipts(fresh))
         /\ \A r, s \in AllocatedReceipts(fresh) : r.seq = s.seq => r = s
         /\ \A i \in DOMAIN fresh : \E m \in AllocatedEntries(fresh) : m.env = fresh[i]
<1>1. /\ Len(fresh) \in Nat /\ DOMAIN fresh = 1..Len(fresh)
      /\ \A i \in DOMAIN fresh : i \in Nat /\ 0 <= i - 1 /\ i - 1 < Len(fresh)
  BY BatchType, FreshIsBatch
<1>2. nextAcc \in Nat /\ nextQueue \in Nat /\ nextReceipt \in Nat /\ revision \in Nat
  BY DEF TypeOK
<1>3. /\ \A i \in DOMAIN fresh : fresh[i].id \notin RetainedIds
      /\ \A i, j \in DOMAIN fresh : fresh[i].id = fresh[j].id => i = j
  BY DEF FreshBatches
<1> DEFINE Entry(i) == [env |-> fresh[i], acc |-> nextAcc + (i - 1),
                        queue |-> nextQueue + (i - 1)]
           Receipt(i) == [seq |-> nextReceipt + (i - 1), env |-> fresh[i],
                          acc |-> nextAcc + (i - 1), revision |-> revision + 1]
<1>4. \A m \in AllocatedEntries(fresh) : \E i \in DOMAIN fresh : m = Entry(i)
  BY DEF AllocatedEntries
<1>5. \A r \in AllocatedReceipts(fresh) : \E i \in DOMAIN fresh : r = Receipt(i)
  BY DEF AllocatedReceipts
<1>6. \A i \in DOMAIN fresh : /\ Entry(i) \in AllocatedEntries(fresh)
                              /\ Receipt(i) \in AllocatedReceipts(fresh)
  BY DEF AllocatedEntries, AllocatedReceipts
<1>7. \A m \in AllocatedEntries(fresh) :
        /\ nextAcc <= m.acc /\ m.acc < nextAcc + Len(fresh)
        /\ m.queue < nextQueue + Len(fresh)
        /\ m.env.id \notin RetainedIds
        /\ \E r \in AllocatedReceipts(fresh) : r.env = m.env /\ r.acc = m.acc
  <2> SUFFICES ASSUME NEW i \in DOMAIN fresh
               PROVE  /\ nextAcc <= Entry(i).acc /\ Entry(i).acc < nextAcc + Len(fresh)
                      /\ Entry(i).queue < nextQueue + Len(fresh)
                      /\ Entry(i).env.id \notin RetainedIds
                      /\ Receipt(i).env = Entry(i).env /\ Receipt(i).acc = Entry(i).acc
    BY <1>4, <1>6
  <2> QED
    BY <1>1, <1>2, <1>3
<1>8. \A r \in AllocatedReceipts(fresh) :
        /\ nextAcc <= r.acc /\ r.acc < nextAcc + Len(fresh)
        /\ nextReceipt <= r.seq /\ r.seq < nextReceipt + Len(fresh)
        /\ r.revision = revision + 1
        /\ r.env.id \notin RetainedIds
        /\ \E m \in AllocatedEntries(fresh) : m.env = r.env /\ m.acc = r.acc
  <2> SUFFICES ASSUME NEW r \in AllocatedReceipts(fresh)
               PROVE  /\ nextAcc <= r.acc /\ r.acc < nextAcc + Len(fresh)
                      /\ nextReceipt <= r.seq /\ r.seq < nextReceipt + Len(fresh)
                      /\ r.revision = revision + 1
                      /\ r.env.id \notin RetainedIds
                      /\ \E m \in AllocatedEntries(fresh) :
                           m.env = r.env /\ m.acc = r.acc
    OBVIOUS
  <2>1. PICK i \in DOMAIN fresh : r = Receipt(i)
    BY <1>5
  <2>2. /\ nextAcc <= r.acc /\ r.acc < nextAcc + Len(fresh)
        /\ nextReceipt <= r.seq /\ r.seq < nextReceipt + Len(fresh)
        /\ r.revision = revision + 1
        /\ r.env.id \notin RetainedIds
    BY <1>1, <1>2, <1>3, <2>1
  <2>3. Entry(i).env = r.env /\ Entry(i).acc = r.acc
    BY <2>1
  <2> QED
    BY <1>6, <2>2, <2>3
<1>9. \A i, j \in DOMAIN fresh :
        /\ Entry(i).env.id = Entry(j).env.id \/ Entry(i).acc = Entry(j).acc => i = j
        /\ Receipt(i).env.id = Receipt(j).env.id \/ Receipt(i).acc = Receipt(j).acc
             \/ Receipt(i).seq = Receipt(j).seq => i = j
  BY <1>1, <1>2, <1>3
<1>10. DistinctIn(AllocatedEntries(fresh))
  BY <1>4, <1>9 DEF DistinctIn
<1>11. /\ DistinctIn(AllocatedReceipts(fresh))
       /\ \A r, s \in AllocatedReceipts(fresh) : r.seq = s.seq => r = s
  BY <1>5, <1>9 DEF DistinctIn
<1>12. \A i \in DOMAIN fresh : \E m \in AllocatedEntries(fresh) : m.env = fresh[i]
  BY <1>6
<1> QED
  BY <1>7, <1>8, <1>10, <1>11, <1>12

(* Whatever holds a delivery retains its identity and its envelope.          *)
LEMMA HoldersRetain ==
  \A x \in accepted \cup terminals \cup tombs \cup ready :
    x.env \in RetainedEnvelopes /\ x.env.id \in RetainedIds
<1>1. \A x \in accepted \cup terminals \cup tombs \cup ready : x.env \in RetainedEnvelopes
  BY DEF RetainedEnvelopes
<1> QED
  BY <1>1 DEF RetainedIds

(* The numbers in a well-typed document are natural numbers.                 *)
LEMMA HolderNumbers ==
  ASSUME TypeOK
  PROVE  /\ \A r \in accepted : r.seq \in Nat /\ r.acc \in Nat /\ r.revision \in Nat
         /\ \A t \in terminals : /\ t.seq \in Nat /\ t.acc \in Nat
                                 /\ t.queue \in Nat /\ t.revision \in Nat
         /\ \A t \in tombs : t.acc \in Nat
         /\ \A m \in ready : m.acc \in Nat /\ m.queue \in Nat
         /\ nextAcc \in Nat /\ nextQueue \in Nat /\ nextReceipt \in Nat
         /\ cutoff \in Nat /\ revision \in Nat
  BY DEF TypeOK, AcceptanceReceipt, TerminalReceiptType, EventTombstone, ReadyEntry

LEMMA BookkeepingInit == Init => Bookkeeping
<1> SUFFICES ASSUME Init PROVE Bookkeeping
  OBVIOUS
<1>1. TypeOK
  BY TypeInit
<1>2. /\ accepted = {} /\ terminals = {} /\ tombs = {} /\ ready = {} /\ acked = {}
      /\ cutoff = 0 /\ nextReceipt = 1 /\ handledCount = [e \in EventId |-> 0]
  BY DEF Init
<1> QED
  BY <1>1, <1>2
     DEF Bookkeeping, ReceiptNumbers, ReceiptsNotInFuture, EventLocatedOnce,
         AcceptanceEvidence, DistinctIn, NoneShared, Live, Done, Gone,
         TerminalsAccepted, HandledIsRecorded, PrunedOnce, AckedRetained

(* An operation that leaves the deliveries alone.                            *)
LEMMA BookkeepingFrame ==
  ASSUME Bookkeeping, TypeOK',
         UNCHANGED <<ready, nextAcc, nextQueue, accepted, terminals, tombs,
                     nextReceipt, cutoff, handledCount>>,
         revision' \in {revision, revision + 1},
         acked' \subseteq acked \cup RetainedEnvelopes
  PROVE  Bookkeeping'
<1>1. TypeOK /\ revision \in Nat
  BY DEF Bookkeeping, TypeOK
<1>2. ReceiptsNotInFuture'
  <2>1. ReceiptsNotInFuture
    BY DEF Bookkeeping
  <2> QED
    BY <1>1, <2>1, HolderNumbers DEF ReceiptsNotInFuture
<1>3. AckedRetained'
  BY DEF Bookkeeping, AckedRetained, RetainedEnvelopes
<1> QED
  BY <1>2, <1>3
     DEF Bookkeeping, ReceiptNumbers, EventLocatedOnce, AcceptanceEvidence,
         DistinctIn, NoneShared, Live, Done, Gone, TerminalsAccepted,
         HandledIsRecorded, PrunedOnce

(* Admission adds entries and receipts with fresh identities and numbers.    *)
LEMMA BookkeepingAdmit ==
  ASSUME Bookkeeping, TypeOK', NEW w \in Writer, NEW answered \in BOOLEAN,
         NEW fresh \in FreshBatches, NEW repeats \in SUBSET RetainedEnvelopes,
         Admit(w, fresh, repeats, answered)
  PROVE  Bookkeeping'
<1> DEFINE E == AllocatedEntries(fresh)
           R == AllocatedReceipts(fresh)
           n == Len(fresh)
<1>1. /\ ready' = ready \cup E /\ accepted' = accepted \cup R
      /\ nextAcc' = nextAcc + n /\ nextQueue' = nextQueue + n
      /\ nextReceipt' = nextReceipt + n
      /\ revision' = revision + 1
      /\ acked' \subseteq acked \cup {fresh[i] : i \in DOMAIN fresh} \cup repeats
      /\ UNCHANGED <<terminals, tombs, cutoff, handledCount>>
  BY DEF Admit, Commit, stepVars
<1>2. n \in Nat /\ n >= 1
  BY BatchType, FreshIsBatch
<1>3. TypeOK
  BY DEF Bookkeeping
<1>4. /\ \A m \in E : /\ nextAcc <= m.acc /\ m.acc < nextAcc + n
                      /\ m.queue < nextQueue + n /\ m.env.id \notin RetainedIds
                      /\ \E r \in R : r.env = m.env /\ r.acc = m.acc
      /\ \A r \in R : /\ nextAcc <= r.acc /\ r.acc < nextAcc + n
                      /\ nextReceipt <= r.seq /\ r.seq < nextReceipt + n
                      /\ r.revision = revision + 1 /\ r.env.id \notin RetainedIds
                      /\ \E m \in E : m.env = r.env /\ m.acc = r.acc
      /\ DistinctIn(E) /\ DistinctIn(R)
      /\ \A r, s \in R : r.seq = s.seq => r = s
      /\ \A i \in DOMAIN fresh : \E m \in E : m.env = fresh[i]
  BY <1>3, AllocationFacts
<1>5. /\ \A m \in E : m.acc \in Nat /\ m.queue \in Nat
      /\ \A r \in R : r.acc \in Nat /\ r.seq \in Nat
  BY <1>3, AllocationType, FreshIsBatch DEF ReadyEntry, AcceptanceReceipt
<1> HIDE DEF E, R, n
<1>6. \A x \in accepted \cup terminals \cup tombs \cup ready : x.env.id \in RetainedIds
  BY HoldersRetain
<1>7. \A x \in Live \cup Done \cup Gone \cup accepted : x.acc < nextAcc
  BY DEF Bookkeeping, EventLocatedOnce
<1>8. ReceiptNumbers'
  <2>1. ReceiptNumbers
    BY DEF Bookkeeping
  <2>2. /\ \A r \in accepted' : cutoff < r.seq /\ r.seq < nextReceipt + n
        /\ \A t \in terminals : cutoff < t.seq /\ t.seq < nextReceipt + n
    BY <1>1, <1>2, <1>3, <1>4, <1>5, <2>1, HolderNumbers DEF ReceiptNumbers
  <2>3. \A r \in R, x \in accepted \cup terminals : r.seq # x.seq
    BY <1>3, <1>4, <1>5, <2>1, HolderNumbers DEF ReceiptNumbers
  <2>4. cutoff < nextReceipt + n
    BY <1>2, <1>3, <2>1, HolderNumbers DEF ReceiptNumbers
  <2> QED
    BY <1>1, <1>4, <2>1, <2>2, <2>3, <2>4 DEF ReceiptNumbers
<1>9. ReceiptsNotInFuture'
  BY <1>1, <1>3, <1>4, HolderNumbers DEF Bookkeeping, ReceiptsNotInFuture
<1>10. EventLocatedOnce'
  <2>1. DistinctIn(ready)' /\ NoneShared(ready, terminals)' /\ NoneShared(ready, tombs)'
    BY <1>1, <1>3, <1>4, <1>5, <1>6, <1>7, HolderNumbers
       DEF Bookkeeping, EventLocatedOnce, DistinctIn, NoneShared, Live, Done, Gone
  <2>2. DistinctIn(terminals)' /\ DistinctIn(tombs)' /\ NoneShared(terminals, tombs)'
    BY <1>1 DEF Bookkeeping, EventLocatedOnce, DistinctIn, NoneShared, Live, Done, Gone
  <2>3. \A x \in ready' \cup terminals' \cup tombs' \cup accepted' : x.acc < nextAcc'
    BY <1>1, <1>2, <1>3, <1>4, <1>5, <1>7, HolderNumbers DEF Live, Done, Gone
  <2>4. \A m \in ready' \cup terminals' : m.queue < nextQueue'
    <3>1. \A m \in ready \cup terminals : m.queue < nextQueue
      BY DEF Bookkeeping, EventLocatedOnce, Live, Done
    <3> QED
      BY <1>1, <1>2, <1>3, <1>4, <1>5, <3>1, HolderNumbers
  <2> QED
    BY <2>1, <2>2, <2>3, <2>4 DEF EventLocatedOnce, Live, Done, Gone
<1>11. AcceptanceEvidence'
  <2>1. AcceptanceEvidence
    BY DEF Bookkeeping
  <2>2. \A m \in ready' : \E r \in accepted' : r.env = m.env /\ r.acc = m.acc
    BY <1>1, <1>4, <2>1 DEF AcceptanceEvidence, Live
  <2>3. \A t \in terminals', r \in accepted' :
          (r.env.id = t.env.id \/ r.acc = t.acc) =>
            r.env = t.env /\ r.acc = t.acc /\ r.seq < t.seq /\ r.revision <= t.revision
    <3>1. \A t \in terminals, r \in R : r.env.id # t.env.id /\ r.acc # t.acc
      BY <1>3, <1>4, <1>5, <1>6, <1>7, HolderNumbers DEF Done
    <3> QED
      BY <1>1, <2>1, <3>1 DEF AcceptanceEvidence, Done
  <2>4. NoneShared(accepted, tombs)'
    <3>1. \A t \in tombs, r \in R : r.env.id # t.env.id /\ r.acc # t.acc
      BY <1>3, <1>4, <1>5, <1>6, <1>7, HolderNumbers DEF Gone
    <3> QED
      BY <1>1, <2>1, <3>1 DEF AcceptanceEvidence, NoneShared, Gone
  <2>5. \A r \in accepted' : \E x \in ready' \cup terminals' :
          x.env = r.env /\ x.acc = r.acc
    BY <1>1, <1>4, <2>1 DEF AcceptanceEvidence, Live, Done
  <2> QED
    BY <2>2, <2>3, <2>4, <2>5 DEF AcceptanceEvidence, Live, Done, Gone
<1>12. DistinctIn(accepted)'
  BY <1>1, <1>3, <1>4, <1>5, <1>6, <1>7, HolderNumbers DEF Bookkeeping, DistinctIn
<1>13. TerminalsAccepted'
  BY <1>1 DEF Bookkeeping, TerminalsAccepted
<1>14. HandledIsRecorded' /\ PrunedOnce'
  BY <1>1 DEF Bookkeeping, HandledIsRecorded, PrunedOnce
<1>15. AckedRetained'
  BY <1>1, <1>4 DEF Bookkeeping, AckedRetained, RetainedEnvelopes
<1> QED
  BY <1>8, <1>9, <1>10, <1>11, <1>12, <1>13, <1>14, <1>15 DEF Bookkeeping

(* Processing moves a delivery from the mailbox to a terminal receipt.       *)
LEMMA BookkeepingStep ==
  ASSUME Bookkeeping, TypeOK', NEW w \in Writer, NEW answered \in BOOLEAN,
         NEW m \in ready, Step(w, m, answered)
  PROVE  Bookkeeping'
<1> DEFINE t == TerminalReceipt(m)
<1>1. /\ ready' = ready \ {m} /\ terminals' = terminals \cup {t}
      /\ nextReceipt' = nextReceipt + 1 /\ revision' = revision + 1
      /\ handledCount' = [handledCount EXCEPT ![m.env.id] = @ + 1]
      /\ UNCHANGED <<accepted, tombs, cutoff, nextAcc, nextQueue, acked>>
  BY DEF Step, Commit
<1>2. /\ t.seq = nextReceipt /\ t.env = m.env /\ t.acc = m.acc /\ t.queue = m.queue
      /\ t.revision = revision + 1
  BY DEF TerminalReceipt
<1>3. TypeOK
  BY DEF Bookkeeping
<1> HIDE DEF t
<1>4. EventLocatedOnce /\ AcceptanceEvidence /\ ReceiptNumbers
  BY DEF Bookkeeping
<1>5. /\ \A x \in ready \ {m} : x.env.id # m.env.id /\ x.acc # m.acc
      /\ \A x \in terminals : x.env.id # m.env.id /\ x.acc # m.acc
      /\ \A x \in tombs : x.env.id # m.env.id /\ x.acc # m.acc
  BY <1>4 DEF EventLocatedOnce, DistinctIn, NoneShared, Live, Done, Gone
<1>6. ReceiptNumbers'
  <2>1. cutoff < nextReceipt
    BY <1>4 DEF ReceiptNumbers
  <2>2. \A x \in accepted \cup terminals : cutoff < x.seq /\ x.seq < nextReceipt + 1
    BY <1>3, <1>4, HolderNumbers DEF ReceiptNumbers
  <2>3. \A x \in accepted \cup terminals : x.seq # nextReceipt
    BY <1>3, <1>4, HolderNumbers DEF ReceiptNumbers
  <2>4. cutoff < nextReceipt + 1 /\ nextReceipt < nextReceipt + 1
    BY <1>3, <2>1, HolderNumbers
  <2> QED
    BY <1>1, <1>2, <1>4, <2>1, <2>2, <2>3, <2>4 DEF ReceiptNumbers
<1>7. ReceiptsNotInFuture'
  BY <1>1, <1>2, <1>3, HolderNumbers DEF Bookkeeping, ReceiptsNotInFuture
<1>8. EventLocatedOnce'
  <2>1. DistinctIn(ready)' /\ DistinctIn(terminals)' /\ DistinctIn(tombs)'
    BY <1>1, <1>2, <1>4, <1>5 DEF EventLocatedOnce, DistinctIn, Live, Done, Gone
  <2>2. /\ NoneShared(ready, terminals)' /\ NoneShared(ready, tombs)'
        /\ NoneShared(terminals, tombs)'
    BY <1>1, <1>2, <1>4, <1>5 DEF EventLocatedOnce, NoneShared, Live, Done, Gone
  <2>3. /\ \A x \in ready' \cup terminals' \cup tombs' \cup accepted' : x.acc < nextAcc'
        /\ \A x \in ready' \cup terminals' : x.queue < nextQueue'
    BY <1>1, <1>2, <1>4 DEF EventLocatedOnce, Live, Done, Gone
  <2> QED
    BY <2>1, <2>2, <2>3 DEF EventLocatedOnce, Live, Done, Gone
<1>9. AcceptanceEvidence'
  <2>1. \A r \in accepted :
          (r.env.id = m.env.id \/ r.acc = m.acc) => r.env = m.env /\ r.acc = m.acc
    <3>1. PICK a \in accepted : a.env = m.env /\ a.acc = m.acc
      BY <1>4 DEF AcceptanceEvidence, Live
    <3> QED
      BY <3>1 DEF Bookkeeping, DistinctIn
  <2>2. \A r \in accepted : r.seq < nextReceipt /\ r.revision <= revision + 1
    BY <1>3, HolderNumbers DEF Bookkeeping, ReceiptNumbers, ReceiptsNotInFuture
  <2>3. \A u \in terminals', r \in accepted' :
          (r.env.id = u.env.id \/ r.acc = u.acc) =>
            r.env = u.env /\ r.acc = u.acc /\ r.seq < u.seq /\ r.revision <= u.revision
    BY <1>1, <1>2, <1>4, <2>1, <2>2 DEF AcceptanceEvidence, Done
  <2>4. \A x \in ready' : \E r \in accepted' : r.env = x.env /\ r.acc = x.acc
    BY <1>1, <1>4 DEF AcceptanceEvidence, Live
  <2>5. \A r \in accepted' : \E x \in ready' \cup terminals' :
          x.env = r.env /\ x.acc = r.acc
    BY <1>1, <1>2, <1>4 DEF AcceptanceEvidence, Live, Done
  <2>6. NoneShared(accepted, tombs)'
    BY <1>1, <1>4 DEF AcceptanceEvidence, NoneShared, Gone
  <2> QED
    BY <2>3, <2>4, <2>5, <2>6 DEF AcceptanceEvidence, Live, Done, Gone
<1>10. DistinctIn(accepted)'
  BY <1>1 DEF Bookkeeping, DistinctIn
<1>11. TerminalsAccepted'
  BY <1>1, <1>2, <1>4 DEF Bookkeeping, TerminalsAccepted, AcceptanceEvidence, Live
<1>12. HandledIsRecorded'
  <2> SUFFICES ASSUME NEW e \in EventId
               PROVE  handledCount'[e] =
                 IF \E x \in terminals' \cup tombs' : x.env.id = e THEN 1 ELSE 0
    BY DEF HandledIsRecorded
  <2>1. handledCount \in [EventId -> Nat]
    BY <1>3 DEF TypeOK
  <2>2. handledCount[e] = IF \E x \in terminals \cup tombs : x.env.id = e THEN 1 ELSE 0
    BY DEF Bookkeeping, HandledIsRecorded
  <2>3. CASE e = m.env.id
    <3>1. handledCount[e] = 0
      BY <1>5, <2>2, <2>3
    <3>2. handledCount'[e] = 1
      BY <1>1, <2>1, <2>3, <3>1
    <3> QED
      BY <1>1, <1>2, <2>3, <3>2
  <2>4. CASE e # m.env.id
    <3>1. handledCount'[e] = handledCount[e]
      BY <1>1, <2>1, <2>4
    <3>2. (\E x \in terminals' \cup tombs' : x.env.id = e)
            <=> \E x \in terminals \cup tombs : x.env.id = e
      BY <1>1, <1>2, <2>4
    <3> QED
      BY <2>2, <3>1, <3>2
  <2> QED
    BY <2>3, <2>4
<1>13. PrunedOnce'
  BY <1>1 DEF Bookkeeping, PrunedOnce
<1>14. AckedRetained'
  BY <1>1, <1>2 DEF Bookkeeping, AckedRetained, RetainedEnvelopes
<1> QED
  BY <1>6, <1>7, <1>8, <1>9, <1>10, <1>11, <1>12, <1>13, <1>14 DEF Bookkeeping

(* The first pruning takes the two receipts of one delivery, its acceptance  *)
(* and its terminal one, and leaves the delivery a tombstone.                *)
LEMMA FirstPruning ==
  ASSUME Bookkeeping, NEW w \in Writer, NEW answered \in BOOLEAN,
         NEW a \in accepted, NEW t \in terminals, Prune(w, a, t, answered),
         MaxCutoff < 4
  PROVE  /\ cutoff = 0 /\ tombs = {} /\ cutoff' = 2
         /\ a.env = t.env /\ a.acc = t.acc
         /\ accepted' = accepted \ {a} /\ terminals' = terminals \ {t}
         /\ \A r \in accepted' : r.seq > 2
         /\ \A r \in terminals' : r.seq > 2
         /\ t.seq = 2
         /\ \E g : g.env = t.env /\ g.acc = t.acc /\ tombs' = {g}
<1>1. /\ a.seq = cutoff + 1 /\ t.seq = cutoff + 2 /\ t.seq <= MaxCutoff
      /\ accepted' = {r \in accepted : r.seq > t.seq}
      /\ terminals' = {r \in terminals : r.seq > t.seq}
      /\ tombs' = {PruneTombstone(a, t)} /\ cutoff' = t.seq /\ revision' = revision + 1
      /\ UNCHANGED <<ready, nextAcc, nextQueue, nextReceipt, handledCount, acked>>
  BY DEF Prune, AfterCutoff, Commit, mailVars, stepVars
<1>2. PruneTombstone(a, t).env = t.env /\ PruneTombstone(a, t).acc = a.acc
  BY DEF PruneTombstone
<1>3. TypeOK /\ EventLocatedOnce /\ AcceptanceEvidence /\ ReceiptNumbers
  BY DEF Bookkeeping
<1>4. cutoff = 0 /\ tombs = {}
  BY <1>1, <1>3, BoundAssumption, HolderNumbers DEF Bookkeeping, PrunedOnce
<1>5. a.seq = 1 /\ t.seq = 2 /\ cutoff' = 2
  BY <1>1, <1>4
<1>6. accepted' = accepted \ {a}
  <2>1. \A r \in accepted : r.seq > 2 <=> r # a
    <3> SUFFICES ASSUME NEW r \in accepted PROVE r.seq > 2 <=> r # a
      OBVIOUS
    <3>1. r.seq \in Nat /\ r.seq > 0 /\ r.seq # 2
      BY <1>3, <1>4, <1>5, HolderNumbers DEF ReceiptNumbers
    <3>2. r.seq = 1 <=> r = a
      BY <1>3, <1>5 DEF ReceiptNumbers
    <3> QED
      BY <1>5, <3>1, <3>2
  <2> QED
    BY <1>1, <1>5, <2>1
<1>7. terminals' = terminals \ {t}
  <2>1. \A r \in terminals : r.seq > 2 <=> r # t
    <3> SUFFICES ASSUME NEW r \in terminals PROVE r.seq > 2 <=> r # t
      OBVIOUS
    <3>1. r.seq \in Nat /\ r.seq > 0 /\ r.seq # 1
      BY <1>3, <1>4, <1>5, HolderNumbers DEF ReceiptNumbers
    <3>2. r.seq = 2 <=> r = t
      BY <1>3, <1>5 DEF ReceiptNumbers
    <3> QED
      BY <1>5, <3>1, <3>2
  <2> QED
    BY <1>1, <1>5, <2>1
<1>8. a.env = t.env /\ a.acc = t.acc
  <2>1. PICK r \in accepted : r.env = t.env /\ r.acc = t.acc
    BY DEF Bookkeeping, TerminalsAccepted
  <2>2. r.seq < 2
    BY <1>3, <1>5, <2>1 DEF AcceptanceEvidence, Done
  <2>3. r = a
    BY <1>3, <1>4, <1>5, <2>2, HolderNumbers DEF ReceiptNumbers
  <2> QED
    BY <2>1, <2>3
<1> QED
  BY <1>1, <1>2, <1>4, <1>5, <1>6, <1>7, <1>8

LEMMA BookkeepingPrune ==
  ASSUME Bookkeeping, TypeOK', NEW w \in Writer, NEW answered \in BOOLEAN,
         NEW a \in accepted, NEW t \in terminals, Prune(w, a, t, answered),
         MaxCutoff < 4
  PROVE  Bookkeeping'
<1>1. /\ revision' = revision + 1
      /\ UNCHANGED <<ready, nextAcc, nextQueue, nextReceipt, handledCount, acked>>
  BY DEF Prune, Commit, mailVars, stepVars
<1>2. TypeOK /\ EventLocatedOnce /\ AcceptanceEvidence /\ ReceiptNumbers
  BY DEF Bookkeeping
<1>3. cutoff = 0 /\ tombs = {}
  BY FirstPruning
<1>4. t.seq = 2 /\ cutoff' = 2
  BY FirstPruning
<1>5. accepted' = accepted \ {a} /\ \A r \in accepted' : r.seq > 2
  BY FirstPruning
<1>6. terminals' = terminals \ {t} /\ \A r \in terminals' : r.seq > 2
  BY FirstPruning
<1>7. a.env = t.env /\ a.acc = t.acc
  BY FirstPruning
<1>8. PICK g : g.env = t.env /\ g.acc = t.acc /\ tombs' = {g}
  BY FirstPruning
<1>9. ReceiptNumbers'
  <2>1. 2 < nextReceipt
    BY <1>2, <1>4 DEF ReceiptNumbers
  <2>2. (\A r \in accepted : r.seq \in Nat) /\ (\A r \in terminals : r.seq \in Nat)
    BY <1>2, HolderNumbers
  <2> QED
    BY <1>1, <1>2, <1>4, <1>5, <1>6, <2>1, <2>2 DEF ReceiptNumbers
<1>10. ReceiptsNotInFuture'
  BY <1>1, <1>2, <1>5, <1>6, HolderNumbers DEF Bookkeeping, ReceiptsNotInFuture
<1>11. EventLocatedOnce'
  <2>1. DistinctIn(ready)' /\ DistinctIn(terminals)' /\ DistinctIn(tombs)'
    <3>1. DistinctIn(ready)'
      BY <1>1, <1>2 DEF EventLocatedOnce, DistinctIn, Live
    <3>2. DistinctIn(terminals)'
      BY <1>2, <1>6 DEF EventLocatedOnce, DistinctIn, Done
    <3>3. DistinctIn(tombs)'
      BY <1>8 DEF DistinctIn
    <3> QED
      BY <3>1, <3>2, <3>3
  <2>2. NoneShared(ready, terminals)' /\ NoneShared(ready, tombs)'
    BY <1>1, <1>2, <1>6, <1>8 DEF EventLocatedOnce, NoneShared, Live, Done, Gone
  <2>3. NoneShared(terminals, tombs)'
    BY <1>1, <1>2, <1>6, <1>8 DEF EventLocatedOnce, DistinctIn, NoneShared, Done
  <2>4. /\ \A x \in ready' \cup terminals' \cup tombs' \cup accepted' : x.acc < nextAcc'
        /\ \A x \in ready' \cup terminals' : x.queue < nextQueue'
    BY <1>1, <1>2, <1>5, <1>6, <1>8 DEF EventLocatedOnce, Live, Done, Gone
  <2> QED
    BY <2>1, <2>2, <2>3, <2>4 DEF EventLocatedOnce, Live, Done, Gone
<1>12. \A x \in ready \cup (terminals \ {t}) : x.env.id # t.env.id /\ x.acc # t.acc
  BY <1>2 DEF EventLocatedOnce, DistinctIn, NoneShared, Live, Done
<1>13. AcceptanceEvidence'
  <2>1. \A m \in ready' : \E r \in accepted' : r.env = m.env /\ r.acc = m.acc
    <3> SUFFICES ASSUME NEW m \in ready
                 PROVE  \E r \in accepted \ {a} : r.env = m.env /\ r.acc = m.acc
      BY <1>1, <1>5
    <3>1. PICK r \in accepted : r.env = m.env /\ r.acc = m.acc
      BY <1>2 DEF AcceptanceEvidence, Live
    <3> QED
      BY <1>7, <1>12, <3>1
  <2>2. \A u \in terminals', r \in accepted' :
          (r.env.id = u.env.id \/ r.acc = u.acc) =>
            r.env = u.env /\ r.acc = u.acc /\ r.seq < u.seq /\ r.revision <= u.revision
    BY <1>2, <1>5, <1>6 DEF AcceptanceEvidence, Done
  <2>3. NoneShared(accepted, tombs)'
    <3>1. \A r \in accepted \ {a} : r.env.id # a.env.id /\ r.acc # a.acc
      BY DEF Bookkeeping, DistinctIn
    <3> QED
      BY <1>1, <1>5, <1>7, <1>8, <3>1 DEF NoneShared
  <2>4. \A r \in accepted' : \E x \in ready' \cup terminals' :
          x.env = r.env /\ x.acc = r.acc
    <3> SUFFICES ASSUME NEW r \in accepted, r # a
                 PROVE  \E x \in ready \cup (terminals \ {t}) :
                          x.env = r.env /\ x.acc = r.acc
      BY <1>1, <1>5, <1>6
    <3>1. PICK x \in ready \cup terminals : x.env = r.env /\ x.acc = r.acc
      BY <1>2 DEF AcceptanceEvidence, Live, Done
    <3>2. r.acc # a.acc
      BY DEF Bookkeeping, DistinctIn
    <3> QED
      BY <1>7, <3>1, <3>2
  <2> QED
    BY <2>1, <2>2, <2>3, <2>4 DEF AcceptanceEvidence, Live, Done, Gone
<1>14. DistinctIn(accepted)'
  BY <1>5 DEF Bookkeeping, DistinctIn
<1>15. TerminalsAccepted'
  <2> SUFFICES ASSUME NEW u \in terminals \ {t}
               PROVE  \E r \in accepted \ {a} : r.env = u.env /\ r.acc = u.acc
    BY <1>5, <1>6 DEF TerminalsAccepted
  <2>1. PICK r \in accepted : r.env = u.env /\ r.acc = u.acc
    BY DEF Bookkeeping, TerminalsAccepted
  <2> QED
    BY <1>7, <1>12, <2>1
<1>16. HandledIsRecorded'
  <2>1. \A e \in EventId : (\E x \in terminals' \cup tombs' : x.env.id = e)
                             <=> \E x \in terminals \cup tombs : x.env.id = e
    BY <1>1, <1>3, <1>6, <1>8
  <2> QED
    BY <1>1, <2>1 DEF Bookkeeping, HandledIsRecorded
<1>17. PrunedOnce'
  BY <1>4 DEF PrunedOnce
<1>18. AckedRetained'
  <2>1. RetainedEnvelopes \subseteq RetainedEnvelopes'
    BY <1>1, <1>3, <1>5, <1>6, <1>7, <1>8 DEF RetainedEnvelopes
  <2> QED
    BY <1>1, <2>1 DEF Bookkeeping, AckedRetained
<1> QED
  BY <1>9, <1>10, <1>11, <1>13, <1>14, <1>15, <1>16, <1>17, <1>18 DEF Bookkeeping

(* Every step keeps the books.                                               *)
LEMMA BookkeepingNext ==
  ASSUME Bookkeeping, [Next]_vars, MaxCutoff < 4
  PROVE  Bookkeeping'
<1>1. TypeOK'
  BY TypeStep DEF Bookkeeping
<1> USE DEF rootVars, mailVars, stepVars, logVars, outboxVars, hostVars
<1>2. CASE UNCHANGED vars
  BY <1>1, <1>2, BookkeepingFrame DEF vars
<1>3. ASSUME NEW w \in Writer, Load(w) PROVE Bookkeeping'
  BY <1>1, <1>3, BookkeepingFrame DEF Load
<1>4. ASSUME NEW b \in Batches, AdmitReplay({b[i] : i \in DOMAIN b})
      PROVE  Bookkeeping'
  <2>1. {b[i] : i \in DOMAIN b} \subseteq RetainedEnvelopes
    BY <1>4 DEF AdmitReplay, AdmissionDisposition
  <2> QED
    BY <1>1, <1>4, <2>1, BookkeepingFrame DEF AdmitReplay
<1>5. ASSUME NEW w \in Writer, NEW answered \in BOOLEAN,
             \/ Create(w, answered)
             \/ \E p \in pending, report \in PendingStatus :
                  UpdateOutbox(w, p, report, answered)
             \/ \E p \in pending, report \in Report :
                  Terminalize(w, p, report, answered)
             \/ \E s \in settled : Compact(w, s, answered)
             \/ Tombstone(w, answered)
      PROVE  Bookkeeping'
  <2>1. /\ UNCHANGED <<ready, nextAcc, nextQueue, accepted, terminals, tombs,
                       nextReceipt, cutoff, handledCount, acked>>
        /\ revision' \in {revision, revision + 1}
    BY <1>5 DEF Create, UpdateOutbox, Terminalize, Compact, Tombstone, Commit
  <2> QED
    BY <1>1, <2>1, BookkeepingFrame
<1>6. ASSUME NEW w \in Writer, NEW answered \in BOOLEAN, NEW fresh \in FreshBatches,
             NEW repeats \in SUBSET RetainedEnvelopes, Admit(w, fresh, repeats, answered)
      PROVE  Bookkeeping'
  BY <1>1, <1>6, BookkeepingAdmit
<1>7. ASSUME NEW w \in Writer, NEW answered \in BOOLEAN, NEW m \in ready,
             Step(w, m, answered)
      PROVE  Bookkeeping'
  BY <1>1, <1>7, BookkeepingStep
<1>8. ASSUME NEW w \in Writer, NEW answered \in BOOLEAN, NEW a \in accepted,
             NEW t \in terminals, Prune(w, a, t, answered)
      PROVE  Bookkeeping'
  BY <1>1, <1>8, BookkeepingPrune
<1> QED
  BY <1>2, <1>3, <1>4, <1>5, <1>6, <1>7, <1>8 DEF Next

(* While one pruning is allowed, the inductive invariant holds.              *)
THEOREM BookkeepingCorrect ==
  ASSUME MaxCutoff < 4
  PROVE  Spec => []Bookkeeping
<1>1. Bookkeeping /\ [Next]_vars => Bookkeeping'
  BY BookkeepingNext
<1> QED
  BY <1>1, BookkeepingInit, PTL DEF Spec

(* The core runs each delivery at most once, and whatever the broker was     *)
(* told to forget the document still knows.                                  *)
THEOREM DeliveredAtMostOnce ==
  ASSUME MaxCutoff < 4
  PROVE  Spec => [](AtMostOnce /\ AckedRetained)
<1>1. Bookkeeping => AtMostOnce /\ AckedRetained
  BY DEF Bookkeeping, HandledIsRecorded, AtMostOnce
<1> QED
  BY <1>1, BookkeepingCorrect, PTL

(* Every delivery is in one place and its acceptance can be accounted for.   *)
THEOREM DeliveriesAccounted ==
  ASSUME MaxCutoff < 4
  PROVE  Spec => [](EventLocatedOnce /\ AcceptanceEvidence)
<1>1. Bookkeeping => EventLocatedOnce /\ AcceptanceEvidence
  BY DEF Bookkeeping
<1> QED
  BY <1>1, BookkeepingCorrect, PTL

(* No step forgets a retained envelope.                                      *)
LEMMA EnvelopesKept ==
  ASSUME Bookkeeping, [Next]_vars, MaxCutoff < 4
  PROVE  RetainedEnvelopes \subseteq RetainedEnvelopes'
<1> USE DEF rootVars, mailVars, stepVars, logVars, outboxVars, hostVars
<1>1. CASE UNCHANGED vars
  BY <1>1 DEF vars, RetainedEnvelopes
<1>2. ASSUME NEW w \in Writer, Load(w)
      PROVE  RetainedEnvelopes \subseteq RetainedEnvelopes'
  BY <1>2 DEF Load, RetainedEnvelopes
<1>3. ASSUME NEW b \in Batches, AdmitReplay({b[i] : i \in DOMAIN b})
      PROVE  RetainedEnvelopes \subseteq RetainedEnvelopes'
  BY <1>3 DEF AdmitReplay, RetainedEnvelopes
<1>4. ASSUME NEW w \in Writer, NEW answered \in BOOLEAN,
             \/ Create(w, answered)
             \/ \E p \in pending, report \in PendingStatus :
                  UpdateOutbox(w, p, report, answered)
             \/ \E p \in pending, report \in Report :
                  Terminalize(w, p, report, answered)
             \/ \E s \in settled : Compact(w, s, answered)
             \/ Tombstone(w, answered)
      PROVE  RetainedEnvelopes \subseteq RetainedEnvelopes'
  <2>1. UNCHANGED <<ready, accepted, terminals, tombs>>
    BY <1>4 DEF Create, UpdateOutbox, Terminalize, Compact, Tombstone
  <2> QED
    BY <2>1 DEF RetainedEnvelopes
<1>5. ASSUME NEW w \in Writer, NEW answered \in BOOLEAN, NEW fresh \in FreshBatches,
             NEW repeats \in SUBSET RetainedEnvelopes, Admit(w, fresh, repeats, answered)
      PROVE  RetainedEnvelopes \subseteq RetainedEnvelopes'
  BY <1>5 DEF Admit, RetainedEnvelopes
<1>6. ASSUME NEW w \in Writer, NEW answered \in BOOLEAN, NEW m \in ready,
             Step(w, m, answered)
      PROVE  RetainedEnvelopes \subseteq RetainedEnvelopes'
  <2>1. TerminalReceipt(m).env = m.env
    BY DEF TerminalReceipt
  <2> QED
    BY <1>6, <2>1 DEF Step, RetainedEnvelopes
<1>7. ASSUME NEW w \in Writer, NEW answered \in BOOLEAN, NEW a \in accepted,
             NEW t \in terminals, Prune(w, a, t, answered)
      PROVE  RetainedEnvelopes \subseteq RetainedEnvelopes'
  <2>1. ready' = ready
    BY <1>7 DEF Prune
  <2>2. /\ tombs = {} /\ a.env = t.env
        /\ accepted' = accepted \ {a} /\ terminals' = terminals \ {t}
        /\ \E g : g.env = t.env /\ tombs' = {g}
    BY <1>7, FirstPruning
  <2> QED
    BY <2>1, <2>2 DEF RetainedEnvelopes
<1> QED
  BY <1>1, <1>2, <1>3, <1>4, <1>5, <1>6, <1>7 DEF Next

(* A retained identity keeps its envelope in every later document.           *)
THEOREM IdentitiesKept ==
  ASSUME MaxCutoff < 4
  PROVE  Spec => IdentityNeverForgotten
<1>1. Bookkeeping /\ [Next]_vars => RetainedEnvelopes \subseteq RetainedEnvelopes'
  BY EnvelopesKept
<1> QED
  BY <1>1, BookkeepingCorrect, PTL DEF Spec, IdentityNeverForgotten

-----------------------------------------------------------------------------
(* The effects of the document: where they are, what a response finds of     *)
(* them, and the promise of DeliveryLedger.                                  *)

(* The records of the outbox carry natural numbers.                          *)
LEMMA OutboxNumbers ==
  ASSUME TypeOK
  PROVE  /\ \A p \in pending \cup settled :
              p.sequence \in Nat /\ p.effect.step \in Nat /\ p.effect \in EffectId
         /\ \A s \in settled : s.terminalSeq \in Nat
         /\ \A i \in DOMAIN effectTombs : /\ effectTombs[i].terminalSeq \in Nat
                                          /\ effectTombs[i].effect.step \in Nat
                                          /\ effectTombs[i].effect \in EffectId
         /\ nextStep \in Nat /\ nextOutput \in Nat /\ nextTerminal \in Nat
<1>1. \A p \in pending \cup settled : p.sequence \in Nat /\ p.effect \in EffectId
  BY DEF TypeOK, PendingIntent, SettledRecord
<1>2. \A s \in settled : s.terminalSeq \in Nat
  BY DEF TypeOK, SettledRecord
<1>3. \A i \in DOMAIN effectTombs : effectTombs[i] \in EffectTombstone
  BY DEF TypeOK
<1>4. \A i \in DOMAIN effectTombs : /\ effectTombs[i].terminalSeq \in Nat
                                    /\ effectTombs[i].effect \in EffectId
  BY <1>3 DEF EffectTombstone
<1>5. \A x \in EffectId : x.step \in Nat
  BY DEF EffectId
<1> QED
  BY <1>1, <1>2, <1>4, <1>5 DEF TypeOK

(* The intents of a step are new: numbered from the output counter upwards,  *)
(* emitted in the current logical step, which is then over.                  *)
LEMMA IntentFacts ==
  ASSUME TypeOK, NEW m \in ready
  PROVE  /\ \A p \in NewIntents(m.env) :
              /\ nextOutput <= p.sequence
              /\ p.sequence < nextOutput + SendCount(m.env.event)
              /\ p.effect.cause = m.env.id
              /\ p.effect.step = nextStep
              /\ p.effect.action \in 1..Sends
              /\ StepAllocation(m.env.event) = nextStep + 1
         /\ \A p, q \in NewIntents(m.env) :
              (p.effect = q.effect \/ p.sequence = q.sequence) => p = q
         /\ StepAllocation(m.env.event) >= nextStep
<1>1. nextOutput \in Nat /\ nextStep \in Nat
  BY DEF TypeOK
<1>2. SendCount(m.env.event) \in Nat
  BY StepType
<1> DEFINE Intent(k) == [effect |-> EmittedEffect(m.env, k),
                         sequence |-> nextOutput + (k - 1),
                         revision |-> revision + 1, status |-> "not_attempted"]
           S == 1..SendCount(m.env.event)
<1>3. \A p \in NewIntents(m.env) : \E k \in S : p = Intent(k)
  BY DEF NewIntents
<1>4. \A k \in S :
        /\ nextOutput <= Intent(k).sequence
        /\ Intent(k).sequence < nextOutput + SendCount(m.env.event)
        /\ Intent(k).effect.cause = m.env.id
        /\ Intent(k).effect.step = nextStep
        /\ Intent(k).effect.action = k
  BY <1>1, <1>2 DEF EmittedEffect
<1>5. \A k \in S : m.env.event = "emit_outputs" /\ k \in 1..Sends
  BY SendsAssumption DEF SendCount
<1>6. \A k \in S : StepAllocation(m.env.event) = nextStep + 1
  BY <1>5 DEF StepAllocation, DispositionOf
<1>7. \A k, l \in S : (Intent(k).effect = Intent(l).effect
                        \/ Intent(k).sequence = Intent(l).sequence) => k = l
  <2> SUFFICES ASSUME NEW k \in S, NEW l \in S,
                      \/ Intent(k).effect = Intent(l).effect
                      \/ Intent(k).sequence = Intent(l).sequence
               PROVE  k = l
    OBVIOUS
  <2>1. CASE Intent(k).effect = Intent(l).effect
    BY <1>4, <2>1
  <2>2. CASE Intent(k).sequence = Intent(l).sequence
    BY <1>1, <1>2, <2>2
  <2> QED
    BY <2>1, <2>2
<1>8. StepAllocation(m.env.event) >= nextStep
  BY <1>1 DEF StepAllocation
<1> HIDE DEF Intent, S
<1>9. \A p \in NewIntents(m.env) :
        /\ nextOutput <= p.sequence
        /\ p.sequence < nextOutput + SendCount(m.env.event)
        /\ p.effect.cause = m.env.id
        /\ p.effect.step = nextStep
        /\ p.effect.action \in 1..Sends
        /\ StepAllocation(m.env.event) = nextStep + 1
  BY <1>3, <1>4, <1>5, <1>6
<1> QED
  BY <1>3, <1>7, <1>8, <1>9

(* A pending intent and a terminal record differ in their fields.            *)
LEMMA PendingNotSettled ==
  ASSUME TypeOK
  PROVE  pending \cap settled = {}
<1>1. \A x \in PendingIntent : "status" \in DOMAIN x
  BY DEF PendingIntent
<1>2. \A x \in SettledRecord : "status" \notin DOMAIN x
  BY DEF SettledRecord
<1> QED
  BY <1>1, <1>2 DEF TypeOK

(* What compaction appends is the last tombstone; the others keep their place.*)
LEMMA AppendedTombstone ==
  ASSUME TypeOK, NEW g \in EffectTombstone, effectTombs' = Append(effectTombs, g)
  PROVE  \A i \in DOMAIN effectTombs' :
           \/ i \in DOMAIN effectTombs /\ effectTombs'[i] = effectTombs[i]
           \/ i = Len(effectTombs) + 1 /\ effectTombs'[i] = g
<1>1. effectTombs \in Seq(EffectTombstone)
  BY DEF TypeOK
<1> QED
  BY <1>1

-----------------------------------------------------------------------------
(* The places of an effect.                                                  *)

LEMMA OutboxInit == Init => OutboxBooks
<1> SUFFICES ASSUME Init PROVE OutboxBooks
  OBVIOUS
<1>1. TypeOK
  BY TypeInit
<1>2. pending = {} /\ settled = {} /\ effectTombs = <<>>
  BY DEF Init
<1> QED
  BY <1>1, <1>2 DEF OutboxBooks, EffectNumbers, EffectPlaces

(* A step adds intents with new effects and numbers.                         *)
LEMMA OutboxStep ==
  ASSUME OutboxBooks, TypeOK', NEW w \in Writer, NEW answered \in BOOLEAN,
         NEW m \in ready, Step(w, m, answered)
  PROVE  OutboxBooks'
<1> DEFINE N == NewIntents(m.env)
<1>1. /\ pending' = pending \cup N
      /\ nextOutput' = nextOutput + SendCount(m.env.event)
      /\ nextStep' = StepAllocation(m.env.event)
      /\ UNCHANGED <<settled, effectTombs, nextTerminal>>
  BY DEF Step
<1>2. TypeOK /\ EffectNumbers /\ EffectPlaces
  BY DEF OutboxBooks
<1>3. /\ \A p \in N : /\ nextOutput <= p.sequence /\ p.sequence < nextOutput'
                      /\ p.effect.step = nextStep /\ nextStep' = nextStep + 1
      /\ \A p, q \in N : (p.effect = q.effect \/ p.sequence = q.sequence) => p = q
      /\ nextStep' >= nextStep
  BY <1>1, <1>2, IntentFacts
<1>4. nextOutput' >= nextOutput
  BY <1>1, <1>2, StepType DEF TypeOK
<1>5. /\ \A p \in N : p.sequence \in Nat
      /\ nextOutput \in Nat /\ nextStep \in Nat /\ nextOutput' \in Nat /\ nextStep' \in Nat
  BY <1>2, StepType DEF PendingIntent, TypeOK
<1> HIDE DEF N
<1>6. EffectNumbers'
  <2>1. \A p \in pending' \cup settled' :
          p.sequence < nextOutput' /\ p.effect.step < nextStep'
    <3>1. \A p \in pending \cup settled :
            p.sequence < nextOutput' /\ p.effect.step < nextStep'
      BY <1>2, <1>3, <1>4, <1>5, OutboxNumbers DEF EffectNumbers
    <3>2. \A p \in N : p.sequence < nextOutput' /\ p.effect.step < nextStep'
      BY <1>3, <1>5
    <3> QED
      BY <1>1, <3>1, <3>2
  <2>2. \A i \in DOMAIN effectTombs : effectTombs[i].effect.step < nextStep'
    BY <1>2, <1>3, <1>5, OutboxNumbers DEF EffectNumbers
  <2> QED
    BY <1>1, <1>2, <2>1, <2>2 DEF EffectNumbers
<1>7. EffectPlaces'
  <2>1. \A p \in N, q \in pending \cup settled :
          p.effect # q.effect /\ p.sequence # q.sequence
    BY <1>2, <1>3, <1>5, OutboxNumbers DEF EffectNumbers
  <2>2. \A p \in N, i \in DOMAIN effectTombs : p.effect # effectTombs[i].effect
    BY <1>2, <1>3, <1>5, OutboxNumbers DEF EffectNumbers
  <2>3. \A p, q \in pending' \cup settled' :
          (p.effect = q.effect \/ p.sequence = q.sequence) => p = q
    BY <1>1, <1>2, <1>3, <2>1 DEF EffectPlaces
  <2> QED
    BY <1>1, <1>2, <2>2, <2>3 DEF EffectPlaces
<1> QED
  BY <1>6, <1>7 DEF OutboxBooks

(* A report replaces an intent, by itself or by a terminal record.           *)
LEMMA OutboxReport ==
  ASSUME OutboxBooks, TypeOK', NEW w \in Writer, NEW answered \in BOOLEAN,
         NEW p \in pending, NEW report,
         UpdateOutbox(w, p, report, answered) \/ Terminalize(w, p, report, answered)
  PROVE  OutboxBooks'
<1>1. TypeOK /\ EffectNumbers /\ EffectPlaces
  BY DEF OutboxBooks
<1>2. UNCHANGED <<nextStep, nextOutput, effectTombs>>
  BY DEF UpdateOutbox, Terminalize, stepVars
<1>3. p \notin settled
  BY <1>1, PendingNotSettled
<1>4. ASSUME UpdateOutbox(w, p, report, answered) PROVE OutboxBooks'
  <2>1. PICK r : r.effect = p.effect /\ r.sequence = p.sequence
                   /\ pending' = (pending \ {p}) \cup {r}
    BY <1>4 DEF UpdateOutbox, Reported
  <2>2. UNCHANGED <<settled, nextTerminal>>
    BY <1>4 DEF UpdateOutbox
  <2> QED
    BY <1>1, <1>2, <1>3, <2>1, <2>2 DEF OutboxBooks, EffectNumbers, EffectPlaces
<1>5. ASSUME Terminalize(w, p, report, answered) PROVE OutboxBooks'
  <2>1. PICK r : /\ r.effect = p.effect /\ r.sequence = p.sequence
                 /\ r.terminalSeq = nextTerminal
                 /\ settled' = settled \cup {r} /\ pending' = pending \ {p}
    BY <1>5 DEF Terminalize
  <2>2. nextTerminal' = nextTerminal + 1 /\ nextTerminal \in Nat
    BY <1>1, <1>5 DEF Terminalize, TypeOK
  <2>3. EffectNumbers'
    BY <1>1, <1>2, <2>1, <2>2, OutboxNumbers DEF EffectNumbers
  <2>4. EffectPlaces'
    <3>1. /\ \A s \in settled : /\ s.terminalSeq # r.terminalSeq
                                /\ s.effect # r.effect \/ s = p
          /\ \A i \in DOMAIN effectTombs : /\ effectTombs[i].terminalSeq # r.terminalSeq
                                           /\ effectTombs[i].effect # r.effect
      BY <1>1, <2>1, OutboxNumbers DEF EffectNumbers, EffectPlaces
    <3> QED
      BY <1>1, <1>2, <1>3, <2>1, <3>1 DEF EffectPlaces
  <2> QED
    BY <2>3, <2>4 DEF OutboxBooks
<1> QED
  BY <1>4, <1>5

(* Compaction replaces a terminal record by the last tombstone.              *)
LEMMA OutboxCompact ==
  ASSUME OutboxBooks, TypeOK', NEW w \in Writer, NEW answered \in BOOLEAN,
         NEW s \in settled, Compact(w, s, answered)
  PROVE  OutboxBooks'
<1> DEFINE g == [terminalSeq |-> s.terminalSeq, effect |-> s.effect,
                 revision |-> s.revision, outcome |-> s.outcome]
<1>1. /\ settled' = settled \ {s} /\ effectTombs' = Append(effectTombs, g)
      /\ UNCHANGED <<pending, nextStep, nextOutput, nextTerminal>>
  BY DEF Compact, stepVars
<1>2. TypeOK /\ EffectNumbers /\ EffectPlaces
  BY DEF OutboxBooks
<1>3. g \in EffectTombstone /\ g.terminalSeq = s.terminalSeq /\ g.effect = s.effect
  BY <1>2 DEF TypeOK, SettledRecord, EffectTombstone
<1> HIDE DEF g
<1>4. \A i \in DOMAIN effectTombs' :
        \/ i \in DOMAIN effectTombs /\ effectTombs'[i] = effectTombs[i]
        \/ i = Len(effectTombs) + 1 /\ effectTombs'[i] = g
  BY <1>1, <1>2, <1>3, AppendedTombstone
<1>5. EffectNumbers'
  BY <1>1, <1>2, <1>3, <1>4 DEF EffectNumbers
<1>6. EffectPlaces'
  <2>1. \A r \in settled' : r.terminalSeq # g.terminalSeq /\ r.effect # g.effect
    BY <1>1, <1>2, <1>3 DEF EffectPlaces
  <2>2. \A i \in DOMAIN effectTombs : /\ effectTombs[i].terminalSeq # g.terminalSeq
                                      /\ effectTombs[i].effect # g.effect
    BY <1>2, <1>3 DEF EffectPlaces
  <2>3. \A p \in pending : p.effect # g.effect
    <3>1. s \notin pending
      BY <1>2, PendingNotSettled
    <3> QED
      BY <1>2, <1>3, <3>1 DEF EffectPlaces
  <2> QED
    BY <1>1, <1>2, <1>4, <2>1, <2>2, <2>3 DEF EffectPlaces
<1> QED
  BY <1>5, <1>6 DEF OutboxBooks

(* No other operation touches the outbox or its counters.                    *)
LEMMA OutboxFrame ==
  ASSUME OutboxBooks, TypeOK',
         UNCHANGED <<nextStep, nextOutput, pending, settled, effectTombs, nextTerminal>>
  PROVE  OutboxBooks'
  BY DEF OutboxBooks, EffectNumbers, EffectPlaces

LEMMA OutboxNext == OutboxBooks /\ [Next]_vars => OutboxBooks'
<1> SUFFICES ASSUME OutboxBooks, [Next]_vars PROVE OutboxBooks'
  OBVIOUS
<1>1. TypeOK'
  BY TypeStep DEF OutboxBooks
<1> USE DEF rootVars, mailVars, stepVars, logVars, outboxVars, hostVars
<1>2. CASE UNCHANGED vars
  BY <1>1, <1>2, OutboxFrame DEF vars
<1>3. ASSUME NEW w \in Writer, Load(w) PROVE OutboxBooks'
  BY <1>1, <1>3, OutboxFrame DEF Load
<1>4. ASSUME NEW b \in Batches, AdmitReplay({b[i] : i \in DOMAIN b})
      PROVE  OutboxBooks'
  BY <1>1, <1>4, OutboxFrame DEF AdmitReplay
<1>5. ASSUME NEW w \in Writer, NEW answered \in BOOLEAN,
             \/ Create(w, answered)
             \/ \E fresh \in FreshBatches, repeats \in SUBSET RetainedEnvelopes :
                  Admit(w, fresh, repeats, answered)
             \/ \E a \in accepted, t \in terminals : Prune(w, a, t, answered)
             \/ Tombstone(w, answered)
      PROVE  OutboxBooks'
  <2>1. UNCHANGED <<nextStep, nextOutput, pending, settled, effectTombs, nextTerminal>>
    BY <1>5 DEF Create, Admit, Prune, Tombstone
  <2> QED
    BY <1>1, <2>1, OutboxFrame
<1>6. ASSUME NEW w \in Writer, NEW answered \in BOOLEAN, NEW m \in ready,
             Step(w, m, answered)
      PROVE  OutboxBooks'
  BY <1>1, <1>6, OutboxStep
<1>7. ASSUME NEW w \in Writer, NEW answered \in BOOLEAN, NEW p \in pending, NEW report,
             UpdateOutbox(w, p, report, answered) \/ Terminalize(w, p, report, answered)
      PROVE  OutboxBooks'
  BY <1>1, <1>7, OutboxReport
<1>8. ASSUME NEW w \in Writer, NEW answered \in BOOLEAN, NEW s \in settled,
             Compact(w, s, answered)
      PROVE  OutboxBooks'
  BY <1>1, <1>8, OutboxCompact
<1> QED
  BY <1>2, <1>3, <1>4, <1>5, <1>6, <1>7, <1>8 DEF Next

LEMMA OutboxCorrect == Spec => []OutboxBooks
  BY OutboxInit, OutboxNext, PTL DEF Spec

(* Tombstones of different effects are different, so there are as many of    *)
(* them as the sequence is long.                                             *)
LEMMA TombstonesCounted ==
  ASSUME TypeOK, EffectPlaces
  PROVE  Cardinality({effectTombs[i] : i \in DOMAIN effectTombs}) = Len(effectTombs)
<1> DEFINE S == DOMAIN effectTombs
           T == {effectTombs[i] : i \in S}
           f == [i \in S |-> effectTombs[i]]
<1>1. Len(effectTombs) \in Nat /\ S = 1..Len(effectTombs)
  BY DEF TypeOK
<1>2. \A i, j \in S : effectTombs[i] = effectTombs[j] => i = j
  BY DEF EffectPlaces
<1>3. f \in Bijection(S, T)
  BY <1>2 DEF Bijection, Injection, Surjection, IsInjective
<1>4. ExistsBijection(1..Len(effectTombs), T)
  BY <1>1, <1>3 DEF ExistsBijection
<1> QED
  BY <1>1, <1>4, FS_CountingElements

(* An effect is pending, terminal or compacted, and never two of them.       *)
LEMMA PlacesLocate == OutboxBooks => EffectLocatedOnce
<1> SUFFICES ASSUME OutboxBooks PROVE EffectLocatedOnce
  OBVIOUS
<1> DEFINE compacted == {effectTombs[i] : i \in DOMAIN effectTombs}
<1>1. TypeOK /\ EffectNumbers /\ EffectPlaces
  BY DEF OutboxBooks
<1>2. \A t \in compacted : \E i \in DOMAIN effectTombs : t = effectTombs[i]
  OBVIOUS
<1>3. Cardinality(compacted) = Len(effectTombs)
  BY <1>1, TombstonesCounted
<1> HIDE DEF compacted
<1>4. \A p, q \in pending \cup settled :
        (p.effect = q.effect \/ p.sequence = q.sequence) => p = q
  BY <1>1 DEF EffectPlaces
<1>5. \A s \in settled \cup compacted : s.terminalSeq < nextTerminal
  BY <1>1, <1>2 DEF EffectNumbers
<1>6. \A s, t \in settled \cup compacted :
        (s.terminalSeq = t.terminalSeq \/ s.effect = t.effect) => s = t
  BY <1>1, <1>2 DEF EffectPlaces
<1>7. \A p \in pending, t \in compacted : p.effect # t.effect
  BY <1>1, <1>2 DEF EffectPlaces
<1> QED
  BY <1>3, <1>4, <1>5, <1>6, <1>7 DEF EffectLocatedOnce, compacted

(* Every effect is in one place, with numbers of its own, whatever is        *)
(* reported, compacted or pruned: the validator's outbox checks hold in      *)
(* every document the transition functions produce.                          *)
THEOREM EffectsAccounted == Spec => []EffectLocatedOnce
  BY OutboxCorrect, PlacesLocate, PTL

-----------------------------------------------------------------------------
(* The causes of effects.                                                    *)

(* A step makes the effects of its intents available.                        *)
LEMMA EffectsAdded ==
  ASSUME NEW w \in Writer, NEW answered \in BOOLEAN, NEW m \in ready,
         Step(w, m, answered)
  PROVE  AvailableEffects' = AvailableEffects \cup {p.effect : p \in NewIntents(m.env)}
<1>1. /\ pending' = pending \cup NewIntents(m.env)
      /\ UNCHANGED <<settled, effectTombs>>
  BY DEF Step
<1> QED
  BY <1>1 DEF AvailableEffects

(* Reports and compaction move an effect and lose none.                      *)
LEMMA EffectsMoved ==
  ASSUME TypeOK, NEW w \in Writer, NEW answered \in BOOLEAN,
         \/ \E p \in pending, report \in PendingStatus : UpdateOutbox(w, p, report, answered)
         \/ \E p \in pending, report \in Report : Terminalize(w, p, report, answered)
         \/ \E s \in settled : Compact(w, s, answered)
  PROVE  AvailableEffects' = AvailableEffects
<1>1. ASSUME NEW p \in pending, NEW report, UpdateOutbox(w, p, report, answered)
      PROVE  AvailableEffects' = AvailableEffects
  <2>1. PICK r : r.effect = p.effect /\ pending' = (pending \ {p}) \cup {r}
    BY <1>1 DEF UpdateOutbox, Reported
  <2>2. UNCHANGED <<settled, effectTombs>>
    BY <1>1 DEF UpdateOutbox
  <2> QED
    BY <2>1, <2>2 DEF AvailableEffects
<1>2. ASSUME NEW p \in pending, NEW report, Terminalize(w, p, report, answered)
      PROVE  AvailableEffects' = AvailableEffects
  <2>1. PICK r : /\ r.effect = p.effect
                 /\ pending' = pending \ {p} /\ settled' = settled \cup {r}
    BY <1>2 DEF Terminalize
  <2>2. effectTombs' = effectTombs
    BY <1>2 DEF Terminalize
  <2> QED
    BY <2>1, <2>2 DEF AvailableEffects
<1>3. ASSUME NEW s \in settled, Compact(w, s, answered)
      PROVE  AvailableEffects' = AvailableEffects
  <2>1. PICK g \in EffectTombstone :
          g.effect = s.effect /\ effectTombs' = Append(effectTombs, g)
    BY <1>3 DEF Compact, TypeOK, SettledRecord, EffectTombstone
  <2>2. settled' = settled \ {s} /\ pending' = pending
    BY <1>3 DEF Compact
  <2>3. effectTombs \in Seq(EffectTombstone)
    BY DEF TypeOK
  <2>4. {effectTombs'[i].effect : i \in DOMAIN effectTombs'}
          = {effectTombs[i].effect : i \in DOMAIN effectTombs} \cup {s.effect}
    <3>1. \A i \in DOMAIN effectTombs' :
            \/ i \in DOMAIN effectTombs /\ effectTombs'[i] = effectTombs[i]
            \/ i = Len(effectTombs) + 1 /\ effectTombs'[i] = g
      BY <2>1, AppendedTombstone
    <3>2. /\ \A i \in DOMAIN effectTombs : /\ i \in DOMAIN effectTombs'
                                           /\ effectTombs'[i] = effectTombs[i]
          /\ Len(effectTombs) + 1 \in DOMAIN effectTombs'
          /\ effectTombs'[Len(effectTombs) + 1] = g
      BY <2>1, <2>3
    <3> QED
      BY <2>1, <3>1, <3>2
  <2> QED
    BY <2>2, <2>4 DEF AvailableEffects
<1> QED
  BY <1>1, <1>2, <1>3

(* No step forgets that a delivery was processed.                            *)
LEMMA FinishedKept ==
  ASSUME Bookkeeping, [Next]_vars, MaxCutoff < 4
  PROVE  \A x \in terminals \cup tombs :
           \E y \in terminals' \cup tombs' : y.env.id = x.env.id
<1>1. ASSUME NEW w \in Writer, NEW answered \in BOOLEAN, NEW m \in ready,
             Step(w, m, answered)
      PROVE  terminals \subseteq terminals' /\ tombs' = tombs
  BY <1>1 DEF Step
<1>2. ASSUME NEW w \in Writer, NEW answered \in BOOLEAN, NEW a \in accepted,
             NEW t \in terminals, Prune(w, a, t, answered)
      PROVE  /\ tombs = {} /\ terminals' = terminals \ {t}
             /\ \E g \in tombs' : g.env = t.env
  BY <1>2, FirstPruning
<1>3. \/ UNCHANGED <<terminals, tombs>>
      \/ \E w \in Writer, answered \in BOOLEAN :
           \/ \E m \in ready : Step(w, m, answered)
           \/ \E a \in accepted, t \in terminals : Prune(w, a, t, answered)
  <2> USE DEF logVars
  <2>1. CASE UNCHANGED vars
    BY <2>1 DEF vars
  <2>2. ASSUME NEW w \in Writer, Load(w) PROVE UNCHANGED <<terminals, tombs>>
    BY <2>2 DEF Load
  <2>3. ASSUME NEW b, AdmitReplay(b) PROVE UNCHANGED <<terminals, tombs>>
    BY <2>3 DEF AdmitReplay
  <2>4. ASSUME NEW w \in Writer, NEW answered \in BOOLEAN,
               \/ Create(w, answered)
               \/ \E fresh \in FreshBatches, repeats \in SUBSET RetainedEnvelopes :
                    Admit(w, fresh, repeats, answered)
               \/ \E p \in pending, report \in PendingStatus :
                    UpdateOutbox(w, p, report, answered)
               \/ \E p \in pending, report \in Report :
                    Terminalize(w, p, report, answered)
               \/ \E s \in settled : Compact(w, s, answered)
               \/ Tombstone(w, answered)
        PROVE  UNCHANGED <<terminals, tombs>>
    BY <2>4 DEF Create, Admit, UpdateOutbox, Terminalize, Compact, Tombstone
  <2> QED
    BY <2>1, <2>2, <2>3, <2>4 DEF Next
<1> QED
  BY <1>1, <1>2, <1>3

LEMMA CausesNext ==
  ASSUME LedgerBooks, [Next]_vars, MaxCutoff < 4
  PROVE  EffectCauses'
<1>1. TypeOK /\ EventLocatedOnce /\ EffectCauses /\ Bookkeeping
  BY DEF LedgerBooks, Bookkeeping
<1>2. \A x \in terminals \cup tombs :
        \E y \in terminals' \cup tombs' : y.env.id = x.env.id
  BY <1>1, FinishedKept
<1>3. ASSUME AvailableEffects' = AvailableEffects PROVE EffectCauses'
  BY <1>1, <1>2, <1>3 DEF EffectCauses
<1>4. ASSUME NEW w \in Writer, NEW answered \in BOOLEAN, NEW m \in ready,
             Step(w, m, answered)
      PROVE  EffectCauses'
  <2>1. \A x \in AvailableEffects' :
          \/ x \in AvailableEffects
          \/ x.cause = m.env.id /\ x.step = nextStep /\ x.action \in 1..Sends
    BY <1>1, <1>4, EffectsAdded, IntentFacts
  <2>2. \E t \in terminals' : t.env.id = m.env.id
    <3>1. TerminalReceipt(m).env = m.env /\ TerminalReceipt(m) \in terminals'
      BY <1>4 DEF Step, TerminalReceipt
    <3> QED
      BY <3>1
  <2>3. \A t \in terminals \cup tombs : t.env.id # m.env.id
    BY <1>1 DEF EventLocatedOnce, NoneShared, Live, Done, Gone
  <2> QED
    BY <1>1, <1>2, <2>1, <2>2, <2>3 DEF EffectCauses
<1>5. \/ AvailableEffects' = AvailableEffects
      \/ \E w \in Writer, answered \in BOOLEAN, m \in ready : Step(w, m, answered)
  <2>1. \/ UNCHANGED <<pending, settled, effectTombs>>
        \/ \E w \in Writer, answered \in BOOLEAN :
             \/ \E m \in ready : Step(w, m, answered)
             \/ \E p \in pending, report \in PendingStatus :
                  UpdateOutbox(w, p, report, answered)
             \/ \E p \in pending, report \in Report : Terminalize(w, p, report, answered)
             \/ \E s \in settled : Compact(w, s, answered)
    <3> USE DEF outboxVars
    <3>1. CASE UNCHANGED vars
      BY <3>1 DEF vars
    <3>2. ASSUME NEW w \in Writer, Load(w)
          PROVE  UNCHANGED <<pending, settled, effectTombs>>
      BY <3>2 DEF Load
    <3>3. ASSUME NEW b, AdmitReplay(b) PROVE UNCHANGED <<pending, settled, effectTombs>>
      BY <3>3 DEF AdmitReplay
    <3>4. ASSUME NEW w \in Writer, NEW answered \in BOOLEAN,
                 \/ Create(w, answered)
                 \/ \E fresh \in FreshBatches, repeats \in SUBSET RetainedEnvelopes :
                      Admit(w, fresh, repeats, answered)
                 \/ \E a \in accepted, t \in terminals : Prune(w, a, t, answered)
                 \/ Tombstone(w, answered)
          PROVE  UNCHANGED <<pending, settled, effectTombs>>
      BY <3>4 DEF Create, Admit, Prune, Tombstone
    <3> QED
      BY <3>1, <3>2, <3>3, <3>4 DEF Next
  <2>2. UNCHANGED <<pending, settled, effectTombs>> => AvailableEffects' = AvailableEffects
    BY DEF AvailableEffects
  <2> QED
    BY <1>1, <2>1, <2>2, EffectsMoved
<1> QED
  BY <1>3, <1>4, <1>5

(* The invariant that the mapping to the ledger needs.                       *)
LEMMA LedgerBooksCorrect ==
  ASSUME MaxCutoff < 4
  PROVE  Spec => []LedgerBooks
<1>1. Init => LedgerBooks
  <2>1. Init => AvailableEffects = {}
    BY DEF Init, AvailableEffects
  <2> QED
    BY <2>1, BookkeepingInit, OutboxInit DEF LedgerBooks, EffectCauses
<1>2. LedgerBooks /\ [Next]_vars => LedgerBooks'
  BY BookkeepingNext, OutboxNext, CausesNext DEF LedgerBooks
<1> QED
  BY <1>1, <1>2, PTL DEF Spec

-----------------------------------------------------------------------------
(* The refinement of the ledger, one operation of the checkpoint at a time.  *)

(* The ledger sees what the mailbox, the finished identities, the effects,   *)
(* the pending intents and the status of the root say.                       *)
LEMMA LedgerUnchanged ==
  ASSUME \A e \in EventId : PhaseOf(e)' = PhaseOf(e),
         AvailableEffects' = AvailableEffects,
         {Promise(p.effect) : p \in pending'} = {Promise(p.effect) : p \in pending},
         (rootStatus' = "tombstone") = (rootStatus = "tombstone")
  PROVE  UNCHANGED Ledger!vars
<1>1. [e \in EventId |-> PhaseOf(e)]' = [e \in EventId |-> PhaseOf(e)]
  OBVIOUS
<1>2. {Promise(x) : x \in AvailableEffects}' = {Promise(x) : x \in AvailableEffects}
  OBVIOUS
<1> QED
  BY <1>1, <1>2 DEF Ledger!vars

LEMMA PhaseUnchanged ==
  ASSUME UNCHANGED <<ready, terminals, tombs>>
  PROVE  \A e \in EventId : PhaseOf(e)' = PhaseOf(e)
  BY DEF PhaseOf

(* Admission takes a batch of unknown deliveries.                            *)
LEMMA AdmitAccepts ==
  ASSUME LedgerBooks, NEW w \in Writer, NEW answered \in BOOLEAN,
         NEW fresh \in FreshBatches, NEW repeats \in SUBSET RetainedEnvelopes,
         Admit(w, fresh, repeats, answered)
  PROVE  \E batch \in SUBSET EventId : Ledger!Accept(batch)
<1> DEFINE batch == {fresh[i].id : i \in DOMAIN fresh}
<1>1. /\ ready' = ready \cup AllocatedEntries(fresh)
      /\ rootStatus = "retained"
      /\ UNCHANGED <<rootStatus, terminals, tombs, pending, settled, effectTombs>>
  BY DEF Admit, NewMembersAllowed, rootVars, outboxVars
<1>2. /\ 1 \in DOMAIN fresh
      /\ \A i \in DOMAIN fresh : fresh[i].id \in EventId /\ fresh[i].id \notin RetainedIds
  BY BatchType, FreshIsBatch DEF FreshBatches, Envelope
<1>3. batch \in SUBSET EventId /\ batch # {}
  BY <1>2
<1>4. /\ \A m \in AllocatedEntries(fresh) : m.env.id \in batch
      /\ \A e \in batch : \E m \in AllocatedEntries(fresh) : m.env.id = e
  <2> DEFINE Entry(i) == [env |-> fresh[i], acc |-> nextAcc + (i - 1),
                          queue |-> nextQueue + (i - 1)]
  <2>1. AllocatedEntries(fresh) = {Entry(i) : i \in DOMAIN fresh}
    BY DEF AllocatedEntries
  <2>2. \A i \in DOMAIN fresh : Entry(i).env.id = fresh[i].id
    OBVIOUS
  <2> HIDE DEF Entry
  <2> QED
    BY <2>1, <2>2
<1>5. \A e \in batch, x \in terminals \cup tombs \cup ready : x.env.id # e
  BY <1>2, HoldersRetain
<1> HIDE DEF batch
<1>6. \A e \in batch : PhaseOf(e) = "unknown"
  BY <1>5 DEF PhaseOf
<1>7. \A e \in EventId : PhaseOf(e)' = IF e \in batch THEN "owned" ELSE PhaseOf(e)
  BY <1>1, <1>4 DEF PhaseOf
<1>8. [e \in EventId |-> PhaseOf(e)]'
        = [e \in EventId |-> IF e \in batch THEN "owned"
                            ELSE [f \in EventId |-> PhaseOf(f)][e]]
  BY <1>7
<1>9. AvailableEffects' = AvailableEffects
  BY <1>1 DEF AvailableEffects
<1>10. Ledger!Accept(batch)
  BY <1>1, <1>3, <1>6, <1>8, <1>9 DEF Ledger!Accept
<1> QED
  BY <1>3, <1>10

(* Processing finishes a delivery and hands over its effects.                *)
LEMMA StepFinishes ==
  ASSUME LedgerBooks, NEW w \in Writer, NEW answered \in BOOLEAN, NEW m \in ready,
         Step(w, m, answered)
  PROVE  \E e \in EventId, effects \in SUBSET [cause : EventId, action : 1..Sends] :
           Ledger!Finish(e, effects)
<1> DEFINE N == NewIntents(m.env)
           E == {Promise(p.effect) : p \in N}
           e == m.env.id
<1>1. /\ ready' = ready \ {m} /\ terminals' = terminals \cup {TerminalReceipt(m)}
      /\ pending' = pending \cup N
      /\ rootStatus = "retained"
      /\ UNCHANGED <<rootStatus, tombs>>
  BY DEF Step
<1>2. TypeOK /\ EventLocatedOnce /\ EffectCauses
  BY DEF LedgerBooks, Bookkeeping
<1>3. AvailableEffects' = AvailableEffects \cup {p.effect : p \in N}
  BY EffectsAdded
<1>4. \A p \in N : p.effect.cause = e /\ p.effect.action \in 1..Sends
  BY <1>2, IntentFacts
<1>5. e \in EventId
  BY <1>2, StepType DEF Envelope
<1>6. TerminalReceipt(m).env = m.env
  BY DEF TerminalReceipt
<1> HIDE DEF N
<1>7. /\ \A x \in ready \ {m} : x.env.id # e
      /\ \A x \in terminals \cup tombs : x.env.id # e
  BY <1>2 DEF EventLocatedOnce, DistinctIn, NoneShared, Live, Done, Gone
<1>8. E \in SUBSET [cause : EventId, action : 1..Sends] /\ \A x \in E : x.cause = e
  BY <1>4, <1>5 DEF Promise
<1>9. E \cap {Promise(x) : x \in AvailableEffects} = {}
  <2>1. \A x \in AvailableEffects : Promise(x).cause # e
    BY <1>2, <1>7 DEF EffectCauses, Promise
  <2> QED
    BY <1>8, <2>1
<1>10. PhaseOf(e) = "owned"
  BY DEF PhaseOf
<1>11. \A f \in EventId : PhaseOf(f)' = IF f = e THEN "finished" ELSE PhaseOf(f)
  BY <1>1, <1>6, <1>7 DEF PhaseOf
<1>12. [f \in EventId |-> PhaseOf(f)]'
         = [[f \in EventId |-> PhaseOf(f)] EXCEPT ![e] = "finished"]
  BY <1>11
<1>13. {Promise(x) : x \in AvailableEffects}' = {Promise(x) : x \in AvailableEffects} \cup E
  BY <1>3
<1>14. {Promise(p.effect) : p \in pending}' = {Promise(p.effect) : p \in pending} \cup E
  BY <1>1
<1>15. Ledger!Finish(e, E)
  BY <1>1, <1>5, <1>8, <1>9, <1>10, <1>12, <1>13, <1>14 DEF Ledger!Finish
<1> QED
  BY <1>5, <1>8, <1>15

(* A terminal report settles the effect: no other pending intent has the     *)
(* same promise, because all effects of a cause come from one step.          *)
LEMMA TerminalizeSettles ==
  ASSUME LedgerBooks, NEW w \in Writer, NEW answered \in BOOLEAN, NEW p \in pending,
         NEW report \in Report, Terminalize(w, p, report, answered)
  PROVE  \E x \in [cause : EventId, action : 1..Sends] : Ledger!Settle(x)
<1> DEFINE x == Promise(p.effect)
<1>1. pending' = pending \ {p} /\ UNCHANGED <<rootStatus, ready, terminals, tombs>>
  BY DEF Terminalize, rootVars, mailVars, logVars
<1>2. TypeOK /\ EffectPlaces /\ EffectCauses
  BY DEF LedgerBooks, OutboxBooks
<1>3. \A q \in pending : q.effect \in AvailableEffects /\ q.effect \in EffectId
  BY <1>2, OutboxNumbers DEF AvailableEffects
<1>4. \A q \in pending : Promise(q.effect) = x => q = p
  <2> SUFFICES ASSUME NEW q \in pending, Promise(q.effect) = x PROVE q = p
    OBVIOUS
  <2>1. q.effect.cause = p.effect.cause /\ q.effect.action = p.effect.action
    BY DEF Promise
  <2>2. q.effect.step = p.effect.step
    BY <1>2, <1>3, <2>1 DEF EffectCauses
  <2>3. q.effect = p.effect
    BY <1>3, <2>1, <2>2 DEF EffectId
  <2> QED
    BY <1>2, <2>3 DEF EffectPlaces
<1>5. x \in [cause : EventId, action : 1..Sends]
  BY <1>2, <1>3 DEF Promise, EffectCauses, EffectId
<1>6. {Promise(q.effect) : q \in pending'} = {Promise(q.effect) : q \in pending} \ {x}
  BY <1>1, <1>4
<1>7. AvailableEffects' = AvailableEffects
  BY <1>2, EffectsMoved
<1>8. \A e \in EventId : PhaseOf(e)' = PhaseOf(e)
  BY <1>1, PhaseUnchanged
<1>9. Ledger!Settle(x)
  BY <1>1, <1>6, <1>7, <1>8 DEF Ledger!Settle
<1> QED
  BY <1>5, <1>9

(* A root becomes a tombstone when nothing is owned and nothing pending.     *)
LEMMA TombstoneCloses ==
  ASSUME NEW w \in Writer, NEW answered \in BOOLEAN, Tombstone(w, answered)
  PROVE  Ledger!Close
<1>1. /\ rootStatus = "retained" /\ rootStatus' = "tombstone"
      /\ ready = {} /\ pending = {}
      /\ UNCHANGED <<ready, terminals, tombs, pending, settled, effectTombs>>
  BY DEF Tombstone, Drained, mailVars, logVars, outboxVars
<1>2. AvailableEffects' = AvailableEffects
  BY <1>1 DEF AvailableEffects
<1>3. \A e \in EventId : PhaseOf(e)' = PhaseOf(e) /\ PhaseOf(e) # "owned"
  BY <1>1 DEF PhaseOf
<1> QED
  BY <1>1, <1>2, <1>3 DEF Ledger!Close

(* Pruning leaves the phase of every delivery.                               *)
LEMMA PruneStutters ==
  ASSUME LedgerBooks, NEW w \in Writer, NEW answered \in BOOLEAN,
         NEW a \in accepted, NEW t \in terminals, Prune(w, a, t, answered),
         MaxCutoff < 4
  PROVE  UNCHANGED Ledger!vars
<1>1. UNCHANGED <<rootStatus, ready, pending, settled, effectTombs>>
  BY DEF Prune, rootVars, mailVars, outboxVars
<1>2. Bookkeeping
  BY DEF LedgerBooks
<1>3. tombs = {} /\ terminals' = terminals \ {t} /\ \E g : g.env = t.env /\ tombs' = {g}
  BY <1>2, FirstPruning
<1>4. \A e \in EventId : (\E r \in terminals' \cup tombs' : r.env.id = e)
                          <=> \E r \in terminals \cup tombs : r.env.id = e
  BY <1>3
<1>5. \A e \in EventId : PhaseOf(e)' = PhaseOf(e)
  BY <1>1, <1>4 DEF PhaseOf
<1>6. AvailableEffects' = AvailableEffects
  BY <1>1 DEF AvailableEffects
<1> QED
  BY <1>1, <1>5, <1>6, LedgerUnchanged

(* Other reports and compaction change records that senders and destinations *)
(* do not see.                                                               *)
LEMMA OutboxStutters ==
  ASSUME LedgerBooks, NEW w \in Writer, NEW answered \in BOOLEAN,
         \/ \E p \in pending, report \in PendingStatus : UpdateOutbox(w, p, report, answered)
         \/ \E s \in settled : Compact(w, s, answered)
  PROVE  UNCHANGED Ledger!vars
<1>1. UNCHANGED <<rootStatus, ready, terminals, tombs>>
  BY DEF UpdateOutbox, Compact, rootVars, mailVars, logVars
<1>2. AvailableEffects' = AvailableEffects
  BY EffectsMoved DEF LedgerBooks, Bookkeeping
<1>3. {Promise(p.effect) : p \in pending'} = {Promise(p.effect) : p \in pending}
  <2>1. ASSUME NEW p \in pending, NEW report, UpdateOutbox(w, p, report, answered)
        PROVE  {Promise(q.effect) : q \in pending'} = {Promise(q.effect) : q \in pending}
    <3>1. PICK r : r.effect = p.effect /\ pending' = (pending \ {p}) \cup {r}
      BY <2>1 DEF UpdateOutbox, Reported
    <3> QED
      BY <3>1
  <2>2. ASSUME NEW s \in settled, Compact(w, s, answered)
        PROVE  pending' = pending
    BY <2>2 DEF Compact
  <2> QED
    BY <2>1, <2>2
<1>4. \A e \in EventId : PhaseOf(e)' = PhaseOf(e)
  BY <1>1, PhaseUnchanged
<1> QED
  BY <1>1, <1>2, <1>3, <1>4, LedgerUnchanged

(* Reading, creation and replays change nothing the ledger sees.             *)
LEMMA ViewsStutter ==
  ASSUME UNCHANGED <<ready, terminals, tombs, pending, settled, effectTombs>>,
         (rootStatus' = "tombstone") = (rootStatus = "tombstone")
  PROVE  UNCHANGED Ledger!vars
<1>1. AvailableEffects' = AvailableEffects
  BY DEF AvailableEffects
<1> QED
  BY <1>1, PhaseUnchanged, LedgerUnchanged

LEMMA LedgerStep ==
  ASSUME LedgerBooks, [Next]_vars, MaxCutoff < 4
  PROVE  [Ledger!Next]_(Ledger!vars)
<1> USE DEF rootVars, mailVars, stepVars, logVars, outboxVars, hostVars
<1>1. CASE UNCHANGED vars
  BY <1>1, ViewsStutter DEF vars
<1>2. ASSUME NEW w \in Writer, Load(w) PROVE UNCHANGED Ledger!vars
  BY <1>2, ViewsStutter DEF Load
<1>3. ASSUME NEW b, AdmitReplay(b) PROVE UNCHANGED Ledger!vars
  BY <1>3, ViewsStutter DEF AdmitReplay
<1>4. ASSUME NEW w \in Writer, NEW answered \in BOOLEAN, Create(w, answered)
      PROVE  UNCHANGED Ledger!vars
  BY <1>4, ViewsStutter DEF Create
<1>5. ASSUME NEW w \in Writer, NEW answered \in BOOLEAN, NEW fresh \in FreshBatches,
             NEW repeats \in SUBSET RetainedEnvelopes, Admit(w, fresh, repeats, answered)
      PROVE  Ledger!Next
  BY <1>5, AdmitAccepts DEF Ledger!Next
<1>6. ASSUME NEW w \in Writer, NEW answered \in BOOLEAN, NEW m \in ready,
             Step(w, m, answered)
      PROVE  Ledger!Next
  BY <1>6, StepFinishes DEF Ledger!Next
<1>7. ASSUME NEW w \in Writer, NEW answered \in BOOLEAN, NEW p \in pending,
             NEW report \in Report, Terminalize(w, p, report, answered)
      PROVE  Ledger!Next
  BY <1>7, TerminalizeSettles DEF Ledger!Next
<1>8. ASSUME NEW w \in Writer, NEW answered \in BOOLEAN, Tombstone(w, answered)
      PROVE  Ledger!Next
  BY <1>8, TombstoneCloses DEF Ledger!Next
<1>9. ASSUME NEW w \in Writer, NEW answered \in BOOLEAN,
             \/ \E p \in pending, report \in PendingStatus :
                  UpdateOutbox(w, p, report, answered)
             \/ \E s \in settled : Compact(w, s, answered)
             \/ \E a \in accepted, t \in terminals : Prune(w, a, t, answered)
      PROVE  UNCHANGED Ledger!vars
  BY <1>9, OutboxStutters, PruneStutters
<1> QED
  BY <1>1, <1>2, <1>3, <1>4, <1>5, <1>6, <1>7, <1>8, <1>9 DEF Next

(* The document implements the ledger: every operation of the checkpoint is  *)
(* an operation of the ledger or invisible to senders and destinations, so a *)
(* delivery is owned and finished once, hands over its effects in the step   *)
(* that finishes it, and each of them is settled at most once.               *)
THEOREM LedgerImplemented ==
  ASSUME MaxCutoff < 4
  PROVE  Spec => ImplementsLedger
<1>1. Init => Ledger!Init
  BY DEF Init, Ledger!Init, PhaseOf, AvailableEffects
<1>2. LedgerBooks /\ [Next]_vars => [Ledger!Next]_(Ledger!vars)
  BY LedgerStep
<1> QED
  BY <1>1, <1>2, LedgerBooksCorrect, PTL DEF Spec, ImplementsLedger, Ledger!Spec

-----------------------------------------------------------------------------
(* Answers.                                                                  *)

(* A retained delivery has one acceptance receipt or tombstone.              *)
LEMMA OneAdmissionEvidence ==
  Bookkeeping => \A id \in RetainedIds : Cardinality(AdmissionEvidence(id)) = 1
<1> SUFFICES ASSUME Bookkeeping, NEW id \in RetainedIds
             PROVE  Cardinality(AdmissionEvidence(id)) = 1
  OBVIOUS
<1>1. EventLocatedOnce /\ AcceptanceEvidence /\ TerminalsAccepted /\ DistinctIn(accepted)
  BY DEF Bookkeeping
<1>2. PICK x \in accepted \cup terminals \cup tombs \cup ready : x.env.id = id
  BY DEF RetainedIds, RetainedEnvelopes
<1>3. \E y \in accepted \cup tombs : y.env.id = id
  BY <1>1, <1>2 DEF TerminalsAccepted, AcceptanceEvidence, Live
<1>4. \A y, z \in accepted \cup tombs : y.env.id = id /\ z.env.id = id => y = z
  BY <1>1 DEF DistinctIn, EventLocatedOnce, AcceptanceEvidence, NoneShared, Gone
<1>5. \E y : AdmissionEvidence(id) = {y}
  BY <1>3, <1>4 DEF AdmissionEvidence
<1> QED
  BY <1>5, FS_Singleton

(* An effect with a record has one.                                          *)
LEMMA OneOutboxEvidence ==
  EffectPlaces => \A r \in pending \cup settled : Cardinality(OutboxEvidence(r.effect)) = 1
<1> SUFFICES ASSUME EffectPlaces, NEW r \in pending \cup settled
             PROVE  Cardinality(OutboxEvidence(r.effect)) = 1
  OBVIOUS
<1>1. OutboxEvidence(r.effect) = {r}
  BY DEF OutboxEvidence, EffectPlaces
<1> QED
  BY <1>1, FS_Singleton

(* A pending effect has one intent.                                          *)
LEMMA OneIntent ==
  EffectPlaces => \A p \in pending : Cardinality({q \in pending : q.effect = p.effect}) = 1
<1> SUFFICES ASSUME EffectPlaces, NEW p \in pending
             PROVE  Cardinality({q \in pending : q.effect = p.effect}) = 1
  OBVIOUS
<1>1. {q \in pending : q.effect = p.effect} = {p}
  BY DEF EffectPlaces
<1> QED
  BY <1>1, FS_Singleton

(* A delivery is somewhere in the document, with the numbers it was given.   *)
Recorded(r) ==
  \/ r \in ready \cup terminals
  \/ \E t \in terminals : t.env = r.env /\ t.acc = r.acc /\ t.queue = r.queue
  \/ \E g \in tombs : g.env = r.env /\ g.acc = r.acc

(* A step request that names a delivery by its numbers is recognised.        *)
LEMMA StepRecognised ==
  EventLocatedOnce =>
    \A r : Recorded(r) => StepDisposition(r.env, r.acc, r.queue) = "replayed"
<1> SUFFICES ASSUME EventLocatedOnce, NEW r, Recorded(r)
             PROVE  StepDisposition(r.env, r.acc, r.queue) = "replayed"
  OBVIOUS
<1> DEFINE live == {m \in ready : m.env.id = r.env.id}
           done == {t \in terminals : t.env.id = r.env.id}
           gone == {t \in tombs : t.env.id = r.env.id}
<1>1. \/ \E m \in live : m.env = r.env /\ m.acc = r.acc /\ m.queue = r.queue
      \/ \E t \in done : t.env = r.env /\ t.acc = r.acc /\ t.queue = r.queue
      \/ \E g \in gone : g.env = r.env /\ g.acc = r.acc
  <2>1. CASE r \in ready
    BY <2>1
  <2>2. CASE r \in terminals
    BY <2>2
  <2>3. CASE \E t \in terminals : t.env = r.env /\ t.acc = r.acc /\ t.queue = r.queue
    BY <2>3
  <2>4. CASE \E g \in tombs : g.env = r.env /\ g.acc = r.acc
    BY <2>4
  <2> QED
    BY <2>1, <2>2, <2>3, <2>4 DEF Recorded
<1>2. \A x, y \in live \cup done \cup gone : x = y
  BY DEF EventLocatedOnce, DistinctIn, NoneShared, Live, Done, Gone
<1>3. live \cup done \cup gone # {} /\ \A x \in live \cup done \cup gone : x.env = r.env
  BY <1>1, <1>2
<1> HIDE DEF live, done, gone
<1>4. \/ \E m \in live : m.acc = r.acc /\ m.queue = r.queue
      \/ \E t \in done : t.acc = r.acc /\ t.queue = r.queue
      \/ \E g \in gone : g.acc = r.acc
  BY <1>1
<1> QED
  BY <1>3, <1>4 DEF StepDisposition, live, done, gone

(* A delivery that was ready or processed stays so, or leaves a tombstone.   *)
LEMMA PlaceKept ==
  ASSUME Bookkeeping, Next, MaxCutoff < 4, NEW r \in ready \cup terminals
  PROVE  Recorded(r)'
<1> DEFINE Kept == ready \subseteq ready' /\ terminals \subseteq terminals'
<1>1. ASSUME NEW w \in Writer, NEW answered \in BOOLEAN, NEW m \in ready,
             Step(w, m, answered)
      PROVE  /\ ready' = ready \ {m} /\ terminals \subseteq terminals'
             /\ \E t \in terminals' : t.env = m.env /\ t.acc = m.acc /\ t.queue = m.queue
  <2>1. ready' = ready \ {m} /\ terminals' = terminals \cup {TerminalReceipt(m)}
    BY <1>1 DEF Step
  <2>2. /\ TerminalReceipt(m).env = m.env /\ TerminalReceipt(m).acc = m.acc
        /\ TerminalReceipt(m).queue = m.queue
    BY DEF TerminalReceipt
  <2> QED
    BY <2>1, <2>2
<1>2. ASSUME NEW w \in Writer, NEW answered \in BOOLEAN, NEW a \in accepted,
             NEW t \in terminals, Prune(w, a, t, answered)
      PROVE  /\ ready' = ready /\ terminals' = terminals \ {t}
             /\ \E g \in tombs' : g.env = t.env /\ g.acc = t.acc
  BY <1>2, FirstPruning DEF Prune, mailVars
<1> USE DEF mailVars, logVars
<1>3. ASSUME NEW w \in Writer, Load(w) PROVE Kept
  BY <1>3 DEF Load
<1>4. ASSUME NEW b, AdmitReplay(b) PROVE Kept
  BY <1>4 DEF AdmitReplay
<1>5. ASSUME NEW w \in Writer, NEW answered \in BOOLEAN,
             \/ Create(w, answered)
             \/ \E fresh \in FreshBatches, repeats \in SUBSET RetainedEnvelopes :
                  Admit(w, fresh, repeats, answered)
             \/ \E p \in pending, report \in PendingStatus :
                  UpdateOutbox(w, p, report, answered)
             \/ \E p \in pending, report \in Report : Terminalize(w, p, report, answered)
             \/ \E s \in settled : Compact(w, s, answered)
             \/ Tombstone(w, answered)
      PROVE  Kept
  BY <1>5 DEF Create, Admit, UpdateOutbox, Terminalize, Compact, Tombstone
<1>6. \/ Kept
      \/ \E w \in Writer, answered \in BOOLEAN :
           \/ \E m \in ready : Step(w, m, answered)
           \/ \E a \in accepted, t \in terminals : Prune(w, a, t, answered)
  BY <1>3, <1>4, <1>5 DEF Next
<1>7. CASE Kept
  BY <1>7 DEF Recorded
<1>8. CASE \E w \in Writer, answered \in BOOLEAN, m \in ready : Step(w, m, answered)
  <2>1. PICK w \in Writer, answered \in BOOLEAN, m \in ready : Step(w, m, answered)
    BY <1>8
  <2> QED
    BY <1>1, <2>1 DEF Recorded
<1>9. CASE \E w \in Writer, answered \in BOOLEAN, a \in accepted, t \in terminals :
             Prune(w, a, t, answered)
  <2>1. PICK w \in Writer, answered \in BOOLEAN, a \in accepted, t \in terminals :
          Prune(w, a, t, answered)
    BY <1>9
  <2> QED
    BY <1>2, <2>1 DEF Recorded
<1> QED
  BY <1>6, <1>7, <1>8, <1>9

(* The last terminal receipt is the one just written, with one pending       *)
(* intent for every emission.                                                *)
LEMMA StepAnswered ==
  ASSUME LedgerBooks, LedgerBooks', NEW w \in Writer, NEW answered \in BOOLEAN,
         NEW m \in ready, Step(w, m, answered),
         NEW t \in terminals' \ terminals
  PROVE  /\ t = LastTerminal'
         /\ \A e \in t.emissions : Cardinality(EmissionEvidence(t)[e])' = 1
<1>1. /\ terminals' = terminals \cup {TerminalReceipt(m)}
      /\ pending' = pending \cup NewIntents(m.env)
      /\ nextReceipt' = nextReceipt + 1
  BY DEF Step
<1>2. t = TerminalReceipt(m)
  BY <1>1
<1>3. t.seq = nextReceipt
  BY <1>2 DEF TerminalReceipt
<1>4. \A u \in terminals : u.seq \in Nat /\ u.seq < t.seq /\ t.seq \in Nat
  BY <1>3, HolderNumbers DEF LedgerBooks, Bookkeeping, ReceiptNumbers
<1>5. t.seq \in Nat
  BY <1>3 DEF LedgerBooks, Bookkeeping, TypeOK
<1>6. \A u \in terminals' : (\A v \in terminals' : v.seq <= u.seq) <=> u = t
  BY <1>1, <1>2, <1>4, <1>5
<1>7. t = LastTerminal'
  BY <1>6 DEF LastTerminal
<1>8. \A e \in t.emissions : \E p \in pending' : p.effect = e
  <2>1. t.emissions = {EmittedEffect(m.env, k) : k \in 1..SendCount(m.env.event)}
    BY <1>2 DEF TerminalReceipt
  <2>2. \A k \in 1..SendCount(m.env.event) :
          \E p \in NewIntents(m.env) : p.effect = EmittedEffect(m.env, k)
    <3> DEFINE Intent(k) == [effect |-> EmittedEffect(m.env, k),
                             sequence |-> nextOutput + (k - 1),
                             revision |-> revision + 1, status |-> "not_attempted"]
    <3>1. NewIntents(m.env) = {Intent(k) : k \in 1..SendCount(m.env.event)}
      BY DEF NewIntents
    <3>2. \A k \in 1..SendCount(m.env.event) : Intent(k).effect = EmittedEffect(m.env, k)
      OBVIOUS
    <3> QED
      BY <3>1, <3>2
  <2> QED
    BY <1>1, <2>1, <2>2
<1>9. \A p \in pending' : Cardinality({q \in pending' : q.effect = p.effect}) = 1
  <2>1. EffectPlaces'
    BY DEF LedgerBooks, OutboxBooks
  <2>2. (\A p \in pending : Cardinality({q \in pending : q.effect = p.effect}) = 1)'
    BY <2>1, OneIntent, PTL
  <2> QED
    BY <2>2
<1>10. \A e \in t.emissions : EmissionEvidence(t)[e]' = {q \in pending' : q.effect = e}
  BY DEF EmissionEvidence
<1> QED
  BY <1>7, <1>8, <1>9, <1>10

(* A terminal report is recognised by what is retained of its effect.        *)
LEMMA ReportRecognised ==
  ASSUME TypeOK, Next, NEW s \in settled
  PROVE  (s.outcome \in RetainedDispositions(s.effect))'
<1> USE DEF outboxVars
<1>1. CASE s \in settled'
  BY <1>1 DEF RetainedDispositions
<1>2. CASE \E w \in Writer, answered \in BOOLEAN : Compact(w, s, answered)
  <2> DEFINE g == [terminalSeq |-> s.terminalSeq, effect |-> s.effect,
                   revision |-> s.revision, outcome |-> s.outcome]
             last == Len(effectTombs) + 1
  <2>1. effectTombs' = Append(effectTombs, g)
    BY <1>2 DEF Compact
  <2>2. last \in DOMAIN effectTombs' /\ effectTombs'[last] = g
    BY <2>1 DEF TypeOK
  <2>3. g.outcome = s.outcome /\ g.effect = s.effect
    OBVIOUS
  <2> QED
    BY <2>2, <2>3 DEF RetainedDispositions
<1>3. \/ s \in settled'
      \/ \E w \in Writer, answered \in BOOLEAN : Compact(w, s, answered)
  <2>1. ASSUME NEW w \in Writer, Load(w) PROVE s \in settled'
    BY <2>1 DEF Load
  <2>2. ASSUME NEW b, AdmitReplay(b) PROVE s \in settled'
    BY <2>2 DEF AdmitReplay
  <2>3. ASSUME NEW w \in Writer, NEW answered \in BOOLEAN,
               \/ Create(w, answered)
               \/ \E fresh \in FreshBatches, repeats \in SUBSET RetainedEnvelopes :
                    Admit(w, fresh, repeats, answered)
               \/ \E m \in ready : Step(w, m, answered)
               \/ \E p \in pending, report \in PendingStatus :
                    UpdateOutbox(w, p, report, answered)
               \/ \E p \in pending, report \in Report : Terminalize(w, p, report, answered)
               \/ \E a \in accepted, t \in terminals : Prune(w, a, t, answered)
               \/ Tombstone(w, answered)
        PROVE  s \in settled'
    BY <2>3 DEF Create, Admit, Step, UpdateOutbox, Terminalize, Prune, Tombstone
  <2>4. ASSUME NEW w \in Writer, NEW answered \in BOOLEAN, NEW u \in settled,
               Compact(w, u, answered), u # s
        PROVE  s \in settled'
    BY <2>4 DEF Compact
  <2> QED
    BY <2>1, <2>2, <2>3, <2>4 DEF Next
<1> QED
  BY <1>1, <1>2, <1>3

(* Only a step writes a terminal receipt.                                    *)
LEMMA OnlyStepsFinish ==
  ASSUME Next, NEW t \in terminals' \ terminals
  PROVE  \E w \in Writer, answered \in BOOLEAN, m \in ready : Step(w, m, answered)
<1> USE DEF logVars
<1>1. ASSUME NEW w \in Writer, Load(w) PROVE terminals' \subseteq terminals
  BY <1>1 DEF Load
<1>2. ASSUME NEW b, AdmitReplay(b) PROVE terminals' \subseteq terminals
  BY <1>2 DEF AdmitReplay
<1>3. ASSUME NEW w \in Writer, NEW answered \in BOOLEAN,
             \/ Create(w, answered)
             \/ \E fresh \in FreshBatches, repeats \in SUBSET RetainedEnvelopes :
                  Admit(w, fresh, repeats, answered)
             \/ \E p \in pending, report \in PendingStatus :
                  UpdateOutbox(w, p, report, answered)
             \/ \E p \in pending, report \in Report : Terminalize(w, p, report, answered)
             \/ \E s \in settled : Compact(w, s, answered)
             \/ \E a \in accepted, u \in terminals : Prune(w, a, u, answered)
             \/ Tombstone(w, answered)
      PROVE  terminals' \subseteq terminals
  BY <1>3 DEF Create, Admit, UpdateOutbox, Terminalize, Compact, Prune, AfterCutoff, Tombstone
<1> QED
  BY <1>1, <1>2, <1>3 DEF Next

(* Whatever a commit does, its own request and every request answered before *)
(* can be answered from the document it leaves: after lost responses,        *)
(* compaction and one pruning.                                               *)
THEOREM RequestsStayAnswerable ==
  ASSUME MaxCutoff < 4
  PROVE  Spec => RequestsAnswered
<1>1. ASSUME LedgerBooks, LedgerBooks', Next PROVE CommitAnswered
  <2>1. ASSUME NEW t \in terminals' \ terminals
        PROVE  /\ t = LastTerminal'
               /\ \A e \in t.emissions : Cardinality(EmissionEvidence(t)[e])' = 1
    BY <1>1, <2>1, OnlyStepsFinish, StepAnswered
  <2>2. EffectPlaces'
    BY <1>1 DEF LedgerBooks, OutboxBooks
  <2>3. (\A r \in pending \cup settled : Cardinality(OutboxEvidence(r.effect)) = 1)'
    BY <2>2, OneOutboxEvidence, PTL
  <2> QED
    BY <2>1, <2>3 DEF CommitAnswered
<1>2. ASSUME LedgerBooks, LedgerBooks', Next PROVE RetryAnswered
  <2>1. Bookkeeping /\ TypeOK /\ Bookkeeping' /\ EventLocatedOnce'
    BY <1>2 DEF LedgerBooks, Bookkeeping
  <2>2. (\A r : Recorded(r) => StepDisposition(r.env, r.acc, r.queue) = "replayed")'
    BY <2>1, StepRecognised, PTL
  <2>3. \A r \in ready \cup terminals :
          StepDisposition(r.env, r.acc, r.queue)' = "replayed"
    BY <1>2, <2>1, <2>2, PlaceKept
  <2>4. \A q \in StepRequests : StepDisposition(q.env, q.acc, q.queue)' = "replayed"
    BY <2>3 DEF StepRequests
  <2>5. (\A id \in RetainedIds : Cardinality(AdmissionEvidence(id)) = 1)'
    BY <2>1, OneAdmissionEvidence, PTL
  <2>6. RetainedIds \subseteq RetainedIds'
    BY <1>2, <2>1, EnvelopesKept DEF RetainedIds
  <2>7. \A id \in RetainedIds : Cardinality(AdmissionEvidence(id))' = 1
    BY <2>5, <2>6
  <2>8. \A s \in settled : s.outcome \in RetainedDispositions(s.effect)'
    BY <1>2, <2>1, ReportRecognised
  <2>9. \A q \in ReportRequests : q.disposition \in RetainedDispositions(q.effect)'
    BY <2>8 DEF ReportRequests
  <2> QED
    BY <2>4, <2>7, <2>9 DEF RetryAnswered
<1>3. LedgerBooks /\ LedgerBooks' /\ [Next]_vars => [CommitAnswered /\ RetryAnswered]_vars
  BY <1>1, <1>2
<1> QED
  BY <1>3, LedgerBooksCorrect, PTL DEF Spec, RequestsAnswered
=============================================================================
