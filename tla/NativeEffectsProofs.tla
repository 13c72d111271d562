------------------------- MODULE NativeEffectsProofs --------------------------
(***************************************************************************)
(* Theorems about NativeEffects, for any payloads, lease, number of attempts,*)
(* readings of the clock, routes and submissions.                            *)
(***************************************************************************)
EXTENDS NativeEffects, TLAPS

-----------------------------------------------------------------------------
(* Types.                                                                    *)

Unsettled == {"unclaimed", "leased", "ambiguous"}
Settled == {"outcome_recorded", "result_admitted"}

ReportRow ==
  [fence : Nat, kind : {"succeeded", "retryable_failure", "ambiguous"},
   payload : Payload \cup {NoPayload}]

OutcomeRow ==
  [kind : {"succeeded", "cancelled"}, payload : Payload \cup {NoPayload}, fence : Nat]

EffectRecord ==
  [state : Unsettled \cup Settled, fence : Nat, reports : SUBSET ReportRow,
   outcome : {NoOutcome} \cup OutcomeRow, event : {None, "succeeded", "cancelled"},
   receipt : BOOLEAN, cancellation : {None, "prevented_start", "reconciliation_required"},
   route : Nat]

CheckpointRow ==
  [rev : Nat, outbox : {None, "pending", "confirmed"},
   admitted : SUBSET {"succeeded", "cancelled"}, admissions : Nat]

Responses == {"produce-1", "cancel-1", "cancel-after-call"}

JournalDocument ==
  [binds : Nat, record : {NoRecord} \cup EffectRecord, responses : SUBSET Responses]

EffectsTypeOK ==
  /\ checkpoint \in CheckpointRow
  /\ journal \in JournalDocument
  /\ config \in [route : Nat, authorized : BOOLEAN, dedup : BOOLEAN]
  /\ producer \in Nat /\ epoch \in Nat /\ now \in Nat
  /\ claims \subseteq [fence : Nat, epoch : Nat, expires : Nat]
  /\ called \subseteq Nat /\ underway \subseteq Nat /\ accepted \subseteq Nat
  /\ executions \in Nat /\ submitting \in Nat
  /\ answers \subseteq OutcomeRow

-----------------------------------------------------------------------------
(* The inductive invariants.                                                 *)

(* What the record of an effect says of its attempts and its outcome.        *)
RecordBooks(rec) ==
  /\ \A r, t \in rec.reports : r.fence = t.fence => r = t
  /\ \A r \in rec.reports : r.fence <= rec.fence
  /\ rec.state = "leased" => rec.fence # 0 /\ \A r \in rec.reports : r.fence # rec.fence
  /\ rec.state \in Unsettled =>
       /\ rec.outcome = NoOutcome
       /\ \A r \in rec.reports : r.kind # "succeeded"
  /\ rec.state \in Settled =>
       /\ rec.outcome \in OutcomeRow
       /\ rec.outcome.kind \in Mapped /\ rec.event = rec.outcome.kind
       /\ \A r \in rec.reports :
            r.kind = rec.outcome.kind => r.payload = rec.outcome.payload
  /\ rec.state = "result_admitted" => rec.receipt
  /\ rec.cancellation = "prevented_start" => rec.fence = 0 /\ rec.state \in Settled

(* What the pair of documents says of the effect's place and its admission.  *)
PairBooks ==
  /\ journal.binds = checkpoint.rev
  /\ record # NoRecord <=> checkpoint.outbox # None
  /\ record # NoRecord => "produce-1" \in journal.responses /\ RecordBooks(record)
  /\ IF record.state = "result_admitted"
     THEN checkpoint.admissions = 1 /\ checkpoint.admitted = {record.event}
     ELSE checkpoint.admissions = 0 /\ checkpoint.admitted = {}

(* What hosts and workers know is so: nothing was produced before a core's   *)
(* proposal, who goes on to admit an outcome has one, who was answered knows *)
(* the outcome admitted.                                                     *)
HostBooks ==
  /\ producer # 0 => record = NoRecord
  /\ submitting > 0 => record.state \in Settled
  /\ \A a \in answers : record.state = "result_admitted" /\ record.outcome = a

(* Calls are of attempts made, and without deduplication of one attempt,     *)
(* after which the effect cannot be claimed again.                           *)
CallBooks ==
  /\ record = NoRecord => called = {}
  /\ \A f \in called : f # 0 /\ f <= record.fence
  /\ underway \cup accepted \subseteq called
  /\ underway \cap accepted = {}
  /\ executions <= 1
  /\ accepted = {} => executions = 0
  /\ ~config.dedup => \A f \in called : f = record.fence /\ record.state # "unclaimed"

EffectBooks == EffectsTypeOK /\ PairBooks /\ HostBooks /\ CallBooks

-----------------------------------------------------------------------------
(* Commits of the two documents.                                             *)

(* The effect's record and the journal's documents.                          *)
LEMMA RecordType ==
  ASSUME EffectsTypeOK
  PROVE  /\ record = NoRecord \/ record \in EffectRecord
         /\ record.state \in {None} \cup Unsettled \cup Settled
         /\ record = NoRecord <=> record.state = None
         /\ journal.responses \in SUBSET Responses /\ journal.binds \in Nat
         /\ checkpoint.rev \in Nat
  BY DEF EffectsTypeOK, record, JournalDocument, EffectRecord, CheckpointRow, NoRecord,
         None, Unsettled, Settled

(* A commit of the journal keeps the pair, if the effect keeps its place and *)
(* the record its books.                                                     *)
LEMMA JournalCommit ==
  ASSUME EffectsTypeOK, PairBooks, NEW rec \in EffectRecord, NEW refs \in SUBSET Responses,
         CommitJournal(rec, refs), record # NoRecord, record.state # "result_admitted",
         rec.state # "result_admitted", RecordBooks(rec), "produce-1" \in refs
  PROVE  /\ record' = rec /\ PairBooks'
         /\ checkpoint' \in CheckpointRow /\ journal' \in JournalDocument
<1>1. journal \in JournalDocument /\ checkpoint \in CheckpointRow
  BY DEF EffectsTypeOK
<1>2. /\ journal' = [binds |-> journal.binds, record |-> rec, responses |-> refs]
      /\ checkpoint' = checkpoint
  BY <1>1 DEF CommitJournal, JournalDocument
<1>3. record' = rec
  BY <1>2 DEF record
<1>4. journal' \in JournalDocument
  BY <1>1, <1>2 DEF JournalDocument
<1>5. rec # NoRecord
  BY DEF EffectRecord, NoRecord
<1>6. PairBooks'
  <2>1. journal'.binds = checkpoint'.rev
    BY <1>2 DEF PairBooks
  <2>2. record' # NoRecord /\ checkpoint'.outbox # None
    BY <1>2, <1>3, <1>5 DEF PairBooks
  <2>3. "produce-1" \in journal'.responses
    BY <1>2
  <2>4. RecordBooks(record')
    BY <1>3
  <2>5. checkpoint'.admissions = 0 /\ checkpoint'.admitted = {}
    BY <1>2 DEF PairBooks
  <2> QED
    BY <1>3, <2>1, <2>2, <2>3, <2>4, <2>5 DEF PairBooks
<1> QED
  BY <1>1, <1>2, <1>3, <1>4, <1>6

(* A commit of both documents keeps the pair, if they agree.                 *)
LEMMA BothCommit ==
  ASSUME EffectsTypeOK, NEW cp \in CheckpointRow, NEW rec \in EffectRecord,
         NEW refs \in SUBSET Responses, CommitBoth(cp, rec, refs), RecordBooks(rec),
         "produce-1" \in refs, cp.outbox # None,
         IF rec.state = "result_admitted"
         THEN cp.admissions = 1 /\ cp.admitted = {rec.event}
         ELSE cp.admissions = 0 /\ cp.admitted = {}
  PROVE  /\ record' = rec /\ PairBooks'
         /\ checkpoint' \in CheckpointRow /\ journal' \in JournalDocument
<1>1. checkpoint.rev + 1 \in Nat
  BY RecordType
<1>2. /\ journal' = [binds |-> checkpoint.rev + 1, record |-> rec, responses |-> refs]
      /\ checkpoint' = [cp EXCEPT !.rev = checkpoint.rev + 1]
  BY DEF CommitBoth
<1>3. record' = rec /\ rec # NoRecord
  BY <1>2 DEF record, EffectRecord, NoRecord
<1>4. journal' \in JournalDocument
  BY <1>1, <1>2 DEF JournalDocument
<1>5. /\ checkpoint' \in CheckpointRow /\ checkpoint'.rev = checkpoint.rev + 1
      /\ checkpoint'.outbox = cp.outbox /\ checkpoint'.admissions = cp.admissions
      /\ checkpoint'.admitted = cp.admitted
  BY <1>1, <1>2 DEF CheckpointRow
<1>6. PairBooks'
  <2>1. journal'.binds = checkpoint'.rev /\ "produce-1" \in journal'.responses
    BY <1>2, <1>5
  <2>2. RecordBooks(record')
    BY <1>3
  <2> QED
    BY <1>3, <1>5, <2>1, <2>2 DEF PairBooks
<1> QED
  BY <1>3, <1>4, <1>5, <1>6

(* Calls stay accounted for when the attempts go on or end: without          *)
(* deduplication only as long as there was no call.                          *)
LEMMA CallsKept ==
  ASSUME EffectsTypeOK, CallBooks, UNCHANGED providerVars, config'.dedup = config.dedup,
         record' # NoRecord, record # NoRecord,
         record'.fence \in Nat, record.fence <= record'.fence,
         ~config.dedup /\ called # {} =>
           record'.fence = record.fence /\ record'.state # "unclaimed"
  PROVE  CallBooks'
<1>1. record \in EffectRecord /\ called \subseteq Nat
  BY RecordType DEF EffectsTypeOK
<1>2. record.fence \in Nat
  BY <1>1 DEF EffectRecord
<1>3. \A f \in called : f # 0 /\ f <= record'.fence
  BY <1>1, <1>2 DEF CallBooks
<1> QED
  BY <1>3 DEF CallBooks, providerVars

-----------------------------------------------------------------------------
(* The steps.                                                                *)

LEMMA EffectsInit == Init => EffectBooks
<1> SUFFICES ASSUME Init PROVE EffectBooks
  OBVIOUS
<1>1. record = NoRecord
  BY DEF Init, record
<1>2. EffectsTypeOK
  <2>1. checkpoint \in CheckpointRow /\ journal \in JournalDocument
    BY DEF Init, CheckpointRow, JournalDocument, None
  <2>2. config \in [route : Nat, authorized : BOOLEAN, dedup : BOOLEAN]
    <3>1. config \in [route : {1}, authorized : {TRUE}, dedup : BOOLEAN]
      BY DEF Init
    <3>2. \A r \in {1}, a \in {TRUE} : r \in Nat /\ a \in BOOLEAN
      OBVIOUS
    <3> QED
      BY <3>1, <3>2
  <2> QED
    BY <2>1, <2>2 DEF Init, EffectsTypeOK
<1>3. PairBooks
  BY <1>1 DEF Init, PairBooks, None, NoRecord
<1>4. HostBooks /\ CallBooks
  BY <1>1 DEF Init, HostBooks, CallBooks
<1> QED
  BY <1>2, <1>3, <1>4 DEF EffectBooks

(* Steps that commit nothing leave the pair as it is.                        *)
LEMMA PairIdle == PairBooks /\ UNCHANGED hostVars => PairBooks' /\ record' = record
  BY DEF PairBooks, hostVars, record

LEMMA IdleStepKeepsBooks ==
  ASSUME EffectBooks, UNCHANGED hostVars, UNCHANGED answers,
         \/ Propose \/ ChangeRoute \/ Crash \/ AdvanceEpoch \/ Tick
  PROVE  EffectBooks'
<1>1. /\ UNCHANGED <<claims, providerVars, answers, checkpoint, journal>>
      /\ config' \in [route : Nat, authorized : BOOLEAN, dedup : BOOLEAN]
      /\ config'.dedup = config.dedup
      /\ submitting' \in Nat /\ producer' \in Nat /\ epoch' \in Nat /\ now' \in Nat
      /\ submitting' > 0 => submitting > 0
      /\ producer' # 0 => producer # 0 \/ record = NoRecord
  <2>1. config.route \in Nat /\ EffectsTypeOK
    BY DEF EffectBooks, EffectsTypeOK
  <2>2. CASE Propose
    BY <2>1, <2>2 DEF Propose, EffectsTypeOK, hostVars
  <2>3. CASE ChangeRoute
    <3>1. PICK authorized \in BOOLEAN :
            config' = [config EXCEPT !.route = @ + 1, !.authorized = authorized]
      BY <2>3 DEF ChangeRoute
    <3>2. config \in [route : Nat, authorized : BOOLEAN, dedup : BOOLEAN]
      BY <2>1 DEF EffectsTypeOK
    <3>3. config.route + 1 \in Nat
      BY <2>1
    <3>4. /\ config' \in [route : Nat, authorized : BOOLEAN, dedup : BOOLEAN]
          /\ config'.dedup = config.dedup
      BY <3>1, <3>2, <3>3
    <3> QED
      BY <2>1, <2>3, <3>4 DEF ChangeRoute, EffectsTypeOK, hostVars
  <2>4. CASE Crash \/ AdvanceEpoch \/ Tick
    BY <2>1, <2>4 DEF Crash, AdvanceEpoch, Tick, EffectsTypeOK, hostVars
  <2> QED
    BY <2>2, <2>3, <2>4
<1>2. PairBooks' /\ record' = record
  BY PairIdle DEF EffectBooks
<1>3. EffectsTypeOK'
  BY <1>1 DEF EffectBooks, EffectsTypeOK, providerVars
<1>4. HostBooks'
  BY <1>1, <1>2 DEF EffectBooks, HostBooks
<1>5. CallBooks'
  BY <1>1, <1>2 DEF EffectBooks, CallBooks, providerVars
<1> QED
  BY <1>2, <1>3, <1>4, <1>5 DEF EffectBooks

(* An effect that is called without deduplication was not called before.     *)
LEMMA DispatchKeepsBooks ==
  ASSUME EffectBooks, NEW c \in claims, Dispatch(c)
  PROVE  EffectBooks'
<1>1. /\ UNCHANGED <<hostVars, config, producer, epoch, now, claims, accepted, executions,
                     submitting, answers>>
      /\ called' = called \cup {c.fence} /\ underway' = underway \cup {c.fence}
      /\ c.fence \notin called /\ record.state = "leased" /\ c.fence = record.fence
  BY DEF Dispatch, Dispatchable, ClaimLive
<1>2. PairBooks' /\ record' = record
  BY <1>1, PairIdle DEF EffectBooks
<1>3. record # NoRecord /\ record \in EffectRecord
  BY <1>1, RecordType DEF EffectBooks, None
<1>4. c.fence \in Nat /\ c.fence # 0
  <2>1. RecordBooks(record)
    BY <1>3 DEF EffectBooks, PairBooks
  <2> QED
    BY <1>1, <1>3, <2>1 DEF RecordBooks, EffectRecord
<1>5. EffectsTypeOK'
  BY <1>1, <1>4 DEF EffectBooks, EffectsTypeOK, hostVars
<1>6. HostBooks'
  BY <1>1, <1>2 DEF EffectBooks, HostBooks
<1>7. CallBooks'
  <2>1. /\ \A f \in called' : f # 0 /\ f <= record.fence
        /\ underway' \cup accepted' \subseteq called'
        /\ underway' \cap accepted' = {}
    BY <1>1, <1>4 DEF EffectBooks, CallBooks
  <2>2. ~config.dedup => \A f \in called' : f = record.fence /\ record.state # "unclaimed"
    BY <1>1 DEF EffectBooks, CallBooks
  <2> QED
    BY <1>1, <1>2, <1>3, <2>1, <2>2 DEF EffectBooks, CallBooks
<1> QED
  BY <1>2, <1>5, <1>6, <1>7 DEF EffectBooks

LEMMA ProviderKeepsBooks ==
  ASSUME EffectBooks, ProviderAccepts
  PROVE  EffectBooks'
<1>1. PICK f \in underway :
        /\ underway' = underway \ {f} /\ accepted' = accepted \cup {f}
        /\ executions' = IF config.dedup /\ executions > 0 THEN executions ELSE executions + 1
        /\ UNCHANGED <<hostVars, config, producer, epoch, now, claims, called, submitting,
                       answers>>
  BY DEF ProviderAccepts
<1>2. PairBooks' /\ record' = record
  BY <1>1, PairIdle DEF EffectBooks
<1>3. EffectsTypeOK'
  BY <1>1 DEF EffectBooks, EffectsTypeOK, hostVars
<1>4. HostBooks'
  BY <1>1, <1>2 DEF EffectBooks, HostBooks
<1>5. CallBooks'
  <2>1. ~config.dedup => accepted = {}
    BY <1>1 DEF EffectBooks, CallBooks
  <2>2. executions' <= 1
    BY <1>1, <2>1 DEF EffectBooks, CallBooks, EffectsTypeOK
  <2> QED
    BY <1>1, <1>2, <2>2 DEF EffectBooks, CallBooks
<1> QED
  BY <1>2, <1>3, <1>4, <1>5 DEF EffectBooks

(* The intent's record is the first.                                         *)
LEMMA CommitIntentKeepsBooks ==
  ASSUME EffectBooks, CommitIntent
  PROVE  EffectBooks'
<1>1. /\ producer # 0 /\ producer' = 0 /\ record = NoRecord
      /\ UNCHANGED <<config, epoch, now, claims, providerVars, submitting, answers>>
  BY DEF CommitIntent, EffectBooks, HostBooks
<1>2. CASE UNCHANGED hostVars
  <2>1. PairBooks' /\ record' = record
    BY <1>2, PairIdle DEF EffectBooks
  <2> QED
    BY <1>1, <1>2, <2>1
    DEF EffectBooks, EffectsTypeOK, HostBooks, CallBooks, hostVars, providerVars
<1>3. CASE CommitBoth([checkpoint EXCEPT !.outbox = "pending"], FreshRecord(producer),
                      {"produce-1"})
  <2> DEFINE cp == [checkpoint EXCEPT !.outbox = "pending"]
             rec == FreshRecord(producer)
  <2>1. rec \in EffectRecord /\ rec.state = "unclaimed"
    BY DEF FreshRecord, EffectRecord, EffectBooks, EffectsTypeOK, Unsettled, None
  <2>2. RecordBooks(rec)
    BY DEF FreshRecord, RecordBooks, Unsettled, Settled, None
  <2>3. checkpoint.admissions = 0 /\ checkpoint.admitted = {}
    BY <1>1 DEF EffectBooks, PairBooks, NoRecord, None
  <2>4. /\ cp \in CheckpointRow /\ cp.outbox # None
        /\ cp.admissions = 0 /\ cp.admitted = {}
    BY <2>3 DEF EffectBooks, EffectsTypeOK, CheckpointRow, None
  <2>5. {"produce-1"} \in SUBSET Responses
    BY DEF Responses
  <2>6. CommitBoth(cp, rec, {"produce-1"})
    BY <1>3
  <2> HIDE DEF cp, rec
  <2>7. /\ record' = rec /\ PairBooks'
        /\ checkpoint' \in CheckpointRow /\ journal' \in JournalDocument
    BY <2>1, <2>2, <2>4, <2>5, <2>6, BothCommit DEF EffectBooks
  <2>8. submitting = 0 /\ answers = {} /\ called = {}
    BY <1>1, RecordType
    DEF EffectBooks, HostBooks, CallBooks, EffectsTypeOK, NoRecord, None, Settled
  <2>9. EffectsTypeOK'
    BY <1>1, <2>7 DEF EffectBooks, EffectsTypeOK, providerVars
  <2>10. HostBooks'
    BY <1>1, <2>8 DEF HostBooks
  <2>11. CallBooks'
    BY <1>1, <2>8 DEF EffectBooks, CallBooks, providerVars
  <2> QED
    BY <2>7, <2>9, <2>10, <2>11 DEF EffectBooks
<1> QED
  BY <1>2, <1>3 DEF CommitIntent

LEMMA TerminalizeKeepsBooks ==
  ASSUME EffectBooks, TerminalizeOutbox
  PROVE  EffectBooks'
<1> DEFINE cp == [checkpoint EXCEPT !.outbox = "confirmed"]
<1>1. /\ checkpoint.outbox = "pending" /\ CommitBoth(cp, record, journal.responses)
      /\ UNCHANGED <<config, producer, epoch, now, claims, providerVars, submitting, answers>>
  BY DEF TerminalizeOutbox
<1>2. record # NoRecord /\ record \in EffectRecord /\ journal.responses \in SUBSET Responses
  BY <1>1, RecordType DEF EffectBooks, PairBooks, None
<1>3. /\ cp \in CheckpointRow /\ cp.outbox # None
      /\ cp.admissions = checkpoint.admissions /\ cp.admitted = checkpoint.admitted
  BY DEF EffectBooks, EffectsTypeOK, CheckpointRow, None
<1> HIDE DEF cp
<1>4. /\ RecordBooks(record) /\ "produce-1" \in journal.responses
      /\ IF record.state = "result_admitted"
         THEN cp.admissions = 1 /\ cp.admitted = {record.event}
         ELSE cp.admissions = 0 /\ cp.admitted = {}
  BY <1>2, <1>3 DEF EffectBooks, PairBooks
<1>5. /\ record' = record /\ PairBooks'
      /\ checkpoint' \in CheckpointRow /\ journal' \in JournalDocument
  BY <1>1, <1>2, <1>3, <1>4, BothCommit DEF EffectBooks
<1> QED
  BY <1>1, <1>5 DEF EffectBooks, EffectsTypeOK, HostBooks, CallBooks, providerVars

(* A commit of the journal, from one record of the effect to the next.       *)
LEMMA RecordStep ==
  ASSUME EffectBooks, record # NoRecord, record.state # "result_admitted",
         NEW rec \in EffectRecord, NEW refs \in SUBSET Responses,
         CommitJournal(rec, refs), RecordBooks(rec), rec.state # "result_admitted",
         journal.responses \subseteq refs, record.fence <= rec.fence,
         ~config.dedup /\ called # {} => rec.fence = record.fence /\ rec.state # "unclaimed",
         UNCHANGED <<config, producer, epoch, now, providerVars, answers>>,
         claims' \subseteq [fence : Nat, epoch : Nat, expires : Nat],
         submitting' \in Nat,
         submitting' > 0 => rec.state \in Settled
  PROVE  EffectBooks'
<1>1. "produce-1" \in refs
  BY DEF EffectBooks, PairBooks
<1>2. /\ record' = rec /\ PairBooks'
      /\ checkpoint' \in CheckpointRow /\ journal' \in JournalDocument
  BY <1>1, JournalCommit DEF EffectBooks
<1>3. rec # NoRecord /\ rec.fence \in Nat
  BY DEF EffectRecord, NoRecord
<1>4. EffectsTypeOK'
  BY <1>2 DEF EffectBooks, EffectsTypeOK, providerVars
<1>5. HostBooks'
  BY <1>2 DEF EffectBooks, HostBooks
<1>6. CallBooks'
  BY <1>2, <1>3, CallsKept DEF EffectBooks
<1> QED
  BY <1>2, <1>4, <1>5, <1>6 DEF EffectBooks

LEMMA ClaimKeepsBooks ==
  ASSUME EffectBooks, ClaimEffect
  PROVE  EffectBooks'
<1> DEFINE n == record.fence + 1
           rec == [record EXCEPT !.state = "leased", !.fence = n]
           refs == journal.responses
           claim == [fence |-> n, epoch |-> epoch, expires |-> now + Lease]
<1>1. /\ Claimable /\ CommitJournal(rec, refs) /\ claims' = claims \cup {claim}
      /\ UNCHANGED <<config, producer, epoch, now, providerVars, submitting, answers>>
  BY DEF ClaimEffect
<1>2. /\ record.state = "unclaimed" \/ (record.state = "ambiguous" /\ config.dedup)
      /\ record.state \in Unsettled
  BY <1>1 DEF Claimable, Unsettled
<1>3. record # NoRecord /\ record \in EffectRecord /\ refs \in SUBSET Responses
  BY <1>2, RecordType DEF EffectBooks, None, Unsettled
<1>4. record.fence \in Nat /\ n \in Nat /\ n # 0 /\ record.fence <= n
  BY <1>3 DEF EffectRecord
<1>5. claims' \subseteq [fence : Nat, epoch : Nat, expires : Nat]
  <2>1. now + Lease \in Nat
    BY BoundsAssumption DEF EffectBooks, EffectsTypeOK
  <2>2. claim \in [fence : Nat, epoch : Nat, expires : Nat]
    BY <1>4, <2>1 DEF EffectBooks, EffectsTypeOK
  <2> QED
    BY <1>1, <2>2 DEF EffectBooks, EffectsTypeOK
<1> HIDE DEF claim
<1>6. /\ rec \in EffectRecord /\ rec.state = "leased" /\ rec.fence = n
      /\ rec.reports = record.reports /\ rec.outcome = record.outcome
      /\ rec.cancellation = record.cancellation
  BY <1>3, <1>4 DEF EffectRecord, Unsettled
<1> HIDE DEF rec, refs
<1>7. RecordBooks(record) /\ \A r \in record.reports : r.fence \in Nat
  BY <1>3 DEF EffectBooks, PairBooks, EffectRecord, ReportRow
<1>8. RecordBooks(rec)
  <2>1. \A r \in rec.reports : r.fence <= rec.fence /\ r.fence # rec.fence
    BY <1>4, <1>6, <1>7 DEF RecordBooks
  <2>2. rec.cancellation # "prevented_start"
    BY <1>2, <1>6, <1>7 DEF RecordBooks, Unsettled, Settled
  <2> QED
    BY <1>2, <1>4, <1>6, <1>7, <2>1, <2>2 DEF RecordBooks, Unsettled, Settled
<1>9. submitting = 0
  BY <1>2 DEF EffectBooks, EffectsTypeOK, HostBooks, Unsettled, Settled
<1>10. ~config.dedup => called = {}
  BY <1>2 DEF EffectBooks, CallBooks
<1>11. rec.state # "result_admitted" /\ record.state # "result_admitted"
  BY <1>2, <1>6
<1> QED
  BY <1>1, <1>3, <1>4, <1>5, <1>6, <1>8, <1>9, <1>10, <1>11, RecordStep DEF refs

(* Without a mapping for it no outcome is recorded.                          *)
LEMMA CancelKeepsBooks ==
  ASSUME EffectBooks, CancelEffect
  PROVE  EffectBooks'
<1>1. UNCHANGED <<config, producer, epoch, now, claims, providerVars, submitting, answers>>
  BY DEF CancelEffect
<1>2. CASE CancelBeforeClaim
  <2> DEFINE rec == [record EXCEPT !.state = "outcome_recorded",
                                   !.outcome = Outcome("cancelled", NoPayload, 0),
                                   !.event = ResultEvent("cancelled"),
                                   !.cancellation = "prevented_start"]
             refs == journal.responses \cup {"cancel-1"}
  <2>1. /\ record.state = "unclaimed" /\ record.fence = 0 /\ "cancelled" \in Mapped
        /\ CommitJournal(rec, refs)
    BY <1>2 DEF CancelBeforeClaim, NeverClaimed
  <2>2. record # NoRecord /\ record \in EffectRecord /\ refs \in SUBSET Responses
    BY <2>1, RecordType DEF EffectBooks, None, Responses
  <2>3. /\ rec \in EffectRecord /\ rec.state = "outcome_recorded" /\ rec.fence = 0
        /\ rec.reports = record.reports /\ rec.outcome \in OutcomeRow
        /\ rec.outcome.kind = "cancelled" /\ rec.event = "cancelled"
    <3>1. Outcome("cancelled", NoPayload, 0) \in OutcomeRow
      BY DEF Outcome, OutcomeRow
    <3> QED
      BY <2>1, <2>2, <3>1 DEF EffectRecord, Settled, ResultEvent, Outcome
  <2> HIDE DEF rec
  <2>4. RecordBooks(record) /\ \A r \in record.reports : r.kind # "cancelled"
    BY <2>2 DEF EffectBooks, PairBooks, EffectRecord, ReportRow
  <2>5. RecordBooks(rec)
    BY <2>1, <2>3, <2>4 DEF RecordBooks, Unsettled, Settled
  <2>6. called = {}
    BY <2>1, <2>2 DEF EffectBooks, CallBooks, EffectsTypeOK
  <2>7. /\ rec.state \in Settled /\ rec.state # "result_admitted" /\ record.fence <= rec.fence
        /\ record.state # "result_admitted" /\ journal.responses \subseteq refs
    BY <2>1, <2>3 DEF Settled
  <2>8. /\ submitting' \in Nat
        /\ claims' \subseteq [fence : Nat, epoch : Nat, expires : Nat]
    BY <1>1 DEF EffectBooks, EffectsTypeOK
  <2> HIDE DEF refs
  <2> QED
    BY <1>1, <2>1, <2>2, <2>3, <2>5, <2>6, <2>7, <2>8, RecordStep
<1>3. CASE CancelAfterPossibleCall
  <2> DEFINE rec == [record EXCEPT !.cancellation = "reconciliation_required"]
             refs == journal.responses \cup {"cancel-after-call"}
  <2>1. record.state \in {"leased", "ambiguous"} /\ CommitJournal(rec, refs)
    BY <1>3 DEF CancelAfterPossibleCall
  <2>2. record # NoRecord /\ record \in EffectRecord /\ refs \in SUBSET Responses
    BY <2>1, RecordType DEF EffectBooks, None, Responses
  <2>3. /\ rec \in EffectRecord /\ rec.state = record.state /\ rec.fence = record.fence
        /\ rec.reports = record.reports /\ rec.outcome = record.outcome
        /\ rec.event = record.event /\ rec.receipt = record.receipt
        /\ rec.cancellation = "reconciliation_required"
    BY <2>2 DEF EffectRecord
  <2> HIDE DEF rec
  <2>4. RecordBooks(rec)
    BY <2>2, <2>3 DEF EffectBooks, PairBooks, RecordBooks
  <2>5. submitting = 0
    BY <2>1 DEF EffectBooks, EffectsTypeOK, HostBooks, Settled
  <2>6. /\ rec.state # "result_admitted" /\ rec.state # "unclaimed"
        /\ record.state # "result_admitted" /\ journal.responses \subseteq refs
        /\ record.fence <= rec.fence
    BY <2>1, <2>2, <2>3 DEF EffectRecord
  <2>7. /\ submitting' = 0
        /\ claims' \subseteq [fence : Nat, epoch : Nat, expires : Nat]
    BY <1>1, <2>5 DEF EffectBooks, EffectsTypeOK
  <2> HIDE DEF refs
  <2> QED
    BY <1>1, <2>1, <2>2, <2>3, <2>4, <2>6, <2>7, RecordStep
<1> QED
  BY <1>2, <1>3 DEF CancelEffect

(* A report is of the attempt whose claim the worker holds.                  *)
LEMMA ReportFields ==
  ASSUME EffectsTypeOK, NEW c \in claims, NEW r \in Reports(c)
  PROVE  /\ r \in ReportRow /\ r.fence = c.fence
         /\ r.kind = "retryable_failure" => c.fence \notin called
<1>1. c.fence \in Nat
  BY DEF EffectsTypeOK
<1>2. \/ \E p \in Payload : r = Report(c.fence, "succeeded", p)
      \/ c.fence \notin called /\ r = Report(c.fence, "retryable_failure", NoPayload)
      \/ r = Report(c.fence, "ambiguous", NoPayload)
  BY DEF Reports
<1> QED
  BY <1>1, <1>2 DEF Report, ReportRow

(* The report of a live attempt is its first.                                *)
LEMMA RecordReportKeepsBooks ==
  ASSUME EffectBooks, NEW c \in claims, NEW r \in Reports(c), ClaimLive(c), RecordReport(r),
         UNCHANGED <<config, producer, epoch, now, claims, providerVars>>
  PROVE  EffectBooks'
<1> DEFINE reports == record.reports \cup {r}
           refs == journal.responses
           recorded == [record EXCEPT !.reports = reports, !.state = "outcome_recorded",
                                      !.outcome = Outcome(r.kind, r.payload, r.fence),
                                      !.event = ResultEvent(r.kind)]
           returned == [record EXCEPT !.reports = reports, !.state = "unclaimed"]
           doubtful == [record EXCEPT !.reports = reports, !.state = "ambiguous"]
<1>1. /\ record.state = "leased" /\ ReportAt(r.fence) = {} /\ UNCHANGED answers
      /\ c.fence = record.fence
  BY DEF RecordReport, ClaimLive
<1>2. /\ r \in ReportRow /\ r.fence = record.fence
      /\ r.kind = "retryable_failure" => record.fence \notin called
  BY <1>1, ReportFields DEF EffectBooks
<1>3. \/ /\ r.kind = "succeeded" /\ CommitJournal(recorded, refs)
         /\ submitting' = submitting + 1
      \/ r.kind = "retryable_failure" /\ CommitJournal(returned, refs) /\ UNCHANGED submitting
      \/ r.kind = "ambiguous" /\ CommitJournal(doubtful, refs) /\ UNCHANGED submitting
  <2>1. r.kind \in {"succeeded", "retryable_failure", "ambiguous"}
    BY <1>2 DEF ReportRow
  <2> QED
    BY <2>1 DEF RecordReport
<1>4. record # NoRecord /\ record \in EffectRecord /\ refs \in SUBSET Responses
  BY <1>1, RecordType DEF EffectBooks, None
<1>5. /\ RecordBooks(record) /\ record.fence \in Nat /\ record.fence # 0
      /\ record.outcome = NoOutcome
      /\ \A t \in record.reports : t.kind # "succeeded" /\ t.fence # record.fence
      /\ record.cancellation # "prevented_start"
  BY <1>1, <1>4 DEF EffectBooks, PairBooks, RecordBooks, EffectRecord, Unsettled, Settled
<1>6. reports \in SUBSET ReportRow
  BY <1>2, <1>4 DEF EffectRecord
<1>7. /\ \A t, u \in reports : t.fence = u.fence => t = u
      /\ \A t \in reports : t.fence <= record.fence
  BY <1>2, <1>5 DEF RecordBooks
<1>8. submitting = 0 /\ submitting \in Nat
  BY <1>1 DEF EffectBooks, EffectsTypeOK, HostBooks, Settled
<1>9. record.state # "result_admitted" /\ record.fence <= record.fence
  BY <1>1, <1>5
<1>10. claims' \subseteq [fence : Nat, epoch : Nat, expires : Nat]
  BY DEF EffectBooks, EffectsTypeOK
<1>11. CASE /\ r.kind = "succeeded" /\ CommitJournal(recorded, refs)
            /\ submitting' = submitting + 1
  <2>1. Outcome(r.kind, r.payload, r.fence) \in OutcomeRow
    BY <1>2, <1>11 DEF Outcome, OutcomeRow, ReportRow
  <2>2. /\ recorded \in EffectRecord /\ recorded.state = "outcome_recorded"
        /\ recorded.fence = record.fence /\ recorded.reports = reports
        /\ recorded.outcome = Outcome(r.kind, r.payload, r.fence)
        /\ recorded.event = "succeeded" /\ recorded.cancellation = record.cancellation
    BY <1>4, <1>6, <1>11, <2>1 DEF EffectRecord, Settled, ResultEvent
  <2> HIDE DEF recorded
  <2>3. /\ recorded.outcome.kind = "succeeded" /\ recorded.outcome.payload = r.payload
    BY <1>11, <2>2 DEF Outcome
  <2>4. \A t \in reports : t.kind = "succeeded" => t = r
    BY <1>5
  <2>5. RecordBooks(recorded)
    <3> HIDE DEF reports
    <3> QED
      BY <1>5, <1>7, <2>1, <2>2, <2>3, <2>4, MappedAssumption
      DEF RecordBooks, Unsettled, Settled
  <2>6. recorded.state \in Settled /\ submitting' \in Nat
    BY <1>8, <1>11, <2>2 DEF Settled
  <2>7. recorded.state # "result_admitted" /\ recorded.state # "unclaimed"
    BY <2>2
  <2> HIDE DEF refs
  <2> QED
    BY <1>1, <1>4, <1>9, <1>10, <1>11, <2>2, <2>5, <2>6, <2>7, RecordStep DEF refs
<1>12. CASE /\ r.kind = "retryable_failure" /\ CommitJournal(returned, refs)
            /\ UNCHANGED submitting
  <2>1. /\ returned \in EffectRecord /\ returned.state = "unclaimed"
        /\ returned.fence = record.fence /\ returned.reports = reports
        /\ returned.outcome = NoOutcome /\ returned.cancellation = record.cancellation
    BY <1>4, <1>5, <1>6 DEF EffectRecord, Unsettled
  <2> HIDE DEF returned
  <2>2. \A t \in reports : t.kind # "succeeded"
    BY <1>5, <1>12
  <2>3. RecordBooks(returned)
    <3> HIDE DEF reports
    <3> QED
      BY <1>5, <1>7, <2>1, <2>2 DEF RecordBooks, Unsettled, Settled
  <2>4. ~config.dedup => called = {}
    BY <1>2, <1>12 DEF EffectBooks, CallBooks
  <2>5. returned.state # "result_admitted" /\ submitting' = 0
    BY <1>8, <1>12, <2>1
  <2> HIDE DEF refs
  <2> QED
    BY <1>1, <1>4, <1>9, <1>10, <1>12, <2>1, <2>3, <2>4, <2>5, RecordStep DEF refs
<1>13. CASE r.kind = "ambiguous" /\ CommitJournal(doubtful, refs) /\ UNCHANGED submitting
  <2>1. /\ doubtful \in EffectRecord /\ doubtful.state = "ambiguous"
        /\ doubtful.fence = record.fence /\ doubtful.reports = reports
        /\ doubtful.outcome = NoOutcome /\ doubtful.cancellation = record.cancellation
    BY <1>4, <1>5, <1>6 DEF EffectRecord, Unsettled
  <2> HIDE DEF doubtful
  <2>2. \A t \in reports : t.kind # "succeeded"
    BY <1>5, <1>13
  <2>3. RecordBooks(doubtful)
    <3> HIDE DEF reports
    <3> QED
      BY <1>5, <1>7, <2>1, <2>2 DEF RecordBooks, Unsettled, Settled
  <2>4. doubtful.state # "result_admitted" /\ doubtful.state # "unclaimed" /\ submitting' = 0
    BY <1>8, <1>13, <2>1
  <2> HIDE DEF refs
  <2> QED
    BY <1>1, <1>4, <1>9, <1>10, <1>13, <2>1, <2>3, <2>4, RecordStep DEF refs
<1> QED
  BY <1>3, <1>11, <1>12, <1>13

LEMMA SubmitKeepsBooks ==
  ASSUME EffectBooks, NEW c \in claims, SubmitResult(c)
  PROVE  EffectBooks'
<1>1. UNCHANGED <<config, producer, epoch, now, claims, providerVars>>
  BY DEF SubmitResult
<1>2. PICK r \in Reports(c) :
        \/ ClaimLive(c) /\ (RecordReport(r) \/ Resume(r))
        \/ ReplayResult(c, r)
  BY DEF SubmitResult
<1>3. CASE ClaimLive(c) /\ RecordReport(r)
  BY <1>1, <1>3, RecordReportKeepsBooks
<1>4. CASE Resume(r) \/ ReplayResult(c, r)
  <2>1. UNCHANGED hostVars
    BY <1>4 DEF Resume, ReplayResult
  <2>2. PairBooks' /\ record' = record
    BY <2>1, PairIdle DEF EffectBooks
  <2>3. CallBooks'
    BY <1>1, <2>2 DEF EffectBooks, CallBooks, providerVars
  <2>4. CASE Resume(r)
    <3>1. record.state \in Settled /\ submitting' \in Nat /\ answers' = answers
      BY <2>4 DEF Resume, Settled, EffectBooks, EffectsTypeOK
    <3>2. EffectsTypeOK'
      BY <1>1, <2>1, <3>1 DEF EffectBooks, EffectsTypeOK, providerVars, hostVars
    <3> QED
      BY <1>1, <2>2, <2>3, <3>1, <3>2 DEF EffectBooks, HostBooks
  <2>5. CASE ReplayResult(c, r)
    <3>1. /\ answers' = answers \cup {record.outcome} /\ submitting' = submitting
          /\ record.state = "result_admitted"
      BY <2>5 DEF ReplayResult, Replays
    <3>2. record.outcome \in OutcomeRow
      BY <3>1, RecordType
      DEF EffectBooks, PairBooks, RecordBooks, Settled, NoRecord, None
    <3>3. EffectsTypeOK'
      BY <1>1, <2>1, <3>1, <3>2 DEF EffectBooks, EffectsTypeOK, providerVars, hostVars
    <3> QED
      BY <1>1, <2>2, <2>3, <3>1, <3>3 DEF EffectBooks, HostBooks
  <2> QED
    BY <1>4, <2>4, <2>5
<1> QED
  BY <1>2, <1>3, <1>4

(* The admission of a recorded outcome, by whoever is about to admit it.     *)
LEMMA Admission ==
  ASSUME EffectBooks, record.state = "outcome_recorded", AdmitOutcome,
         UNCHANGED <<config, producer, epoch, now, claims, providerVars>>
  PROVE  /\ record' # NoRecord /\ record'.state = "result_admitted"
         /\ record'.outcome = record.outcome
         /\ PairBooks' /\ CallBooks'
         /\ checkpoint' \in CheckpointRow /\ journal' \in JournalDocument
<1> DEFINE cp == [checkpoint EXCEPT !.admitted = @ \cup {record.event},
                                    !.admissions = @ + 1]
           rec == [record EXCEPT !.state = "result_admitted", !.receipt = TRUE]
           refs == journal.responses
<1>1. CommitBoth(cp, rec, refs)
  BY DEF AdmitOutcome
<1>2. record # NoRecord /\ record \in EffectRecord /\ refs \in SUBSET Responses
  BY RecordType DEF EffectBooks, None
<1>3. RecordBooks(record) /\ "produce-1" \in refs /\ checkpoint.outbox # None
  BY <1>2 DEF EffectBooks, PairBooks
<1>4. record.outcome \in OutcomeRow /\ record.event = record.outcome.kind
  BY <1>3 DEF RecordBooks, Settled
<1>5. record.event \in {"succeeded", "cancelled"}
  BY <1>4 DEF OutcomeRow
<1>6. /\ rec \in EffectRecord /\ rec.state = "result_admitted" /\ rec.receipt
      /\ rec.fence = record.fence /\ rec.reports = record.reports
      /\ rec.outcome = record.outcome /\ rec.event = record.event
      /\ rec.cancellation = record.cancellation
  BY <1>2 DEF EffectRecord, Settled
<1>7. /\ cp \in CheckpointRow /\ cp.outbox = checkpoint.outbox
      /\ cp.admissions = 1 /\ cp.admitted = {record.event}
  <2>1. checkpoint.admissions = 0 /\ checkpoint.admitted = {}
    BY DEF EffectBooks, PairBooks
  <2>2. checkpoint \in CheckpointRow
    BY DEF EffectBooks, EffectsTypeOK
  <2>3. {record.event} \in SUBSET {"succeeded", "cancelled"}
    BY <1>5
  <2>4. cp = [checkpoint EXCEPT !.admitted = {record.event}, !.admissions = 1]
    BY <2>1, <2>2 DEF CheckpointRow
  <2> HIDE DEF cp
  <2> QED
    BY <2>2, <2>3, <2>4 DEF CheckpointRow
<1> HIDE DEF cp, rec, refs
<1>8. RecordBooks(rec)
  BY <1>3, <1>6 DEF RecordBooks, Unsettled, Settled
<1>9. /\ record' = rec /\ PairBooks'
      /\ checkpoint' \in CheckpointRow /\ journal' \in JournalDocument
  BY <1>1, <1>2, <1>3, <1>6, <1>7, <1>8, BothCommit DEF EffectBooks
<1>10. rec # NoRecord /\ rec.fence \in Nat /\ record.fence <= rec.fence
  BY <1>6 DEF EffectRecord, NoRecord
<1>11. CallBooks'
  BY <1>2, <1>6, <1>9, <1>10, CallsKept DEF EffectBooks, CallBooks
<1> QED
  BY <1>6, <1>9, <1>10, <1>11

LEMMA FinishKeepsBooks ==
  ASSUME EffectBooks, FinishSubmission
  PROVE  EffectBooks'
<1>1. /\ submitting > 0 /\ submitting' = submitting - 1
      /\ (record.state = "outcome_recorded" /\ AdmitOutcome)
           \/ (record.state # "outcome_recorded" /\ UNCHANGED hostVars)
      /\ answers' = answers \/ answers' = answers \cup {record.outcome}
      /\ UNCHANGED <<config, producer, epoch, now, claims, providerVars>>
  BY DEF FinishSubmission, Admissible
<1>2. submitting' \in Nat /\ record.state \in Settled /\ record # NoRecord
  BY <1>1, RecordType DEF EffectBooks, EffectsTypeOK, HostBooks, Settled, None
<1>3. record.outcome \in OutcomeRow
  BY <1>2 DEF EffectBooks, PairBooks, RecordBooks
<1>4. /\ record' # NoRecord /\ record'.state = "result_admitted"
      /\ record'.outcome = record.outcome
      /\ PairBooks' /\ CallBooks'
      /\ checkpoint' \in CheckpointRow /\ journal' \in JournalDocument
  <2>1. CASE record.state = "outcome_recorded" /\ AdmitOutcome
    BY <1>1, <2>1, Admission
  <2>2. CASE record.state # "outcome_recorded" /\ UNCHANGED hostVars
    <3>1. PairBooks' /\ record' = record /\ record.state = "result_admitted"
      BY <1>2, <2>2, PairIdle DEF EffectBooks, Settled
    <3>2. CallBooks'
      BY <1>1, <3>1 DEF EffectBooks, CallBooks, providerVars
    <3> QED
      BY <1>2, <2>2, <3>1, <3>2 DEF EffectBooks, EffectsTypeOK, hostVars
  <2> QED
    BY <1>1, <2>1, <2>2
<1>5. EffectsTypeOK'
  BY <1>1, <1>2, <1>3, <1>4 DEF EffectBooks, EffectsTypeOK, providerVars
<1>6. HostBooks'
  BY <1>1, <1>2, <1>4 DEF EffectBooks, HostBooks, Settled
<1> QED
  BY <1>4, <1>5, <1>6 DEF EffectBooks

LEMMA RecoverKeepsBooks ==
  ASSUME EffectBooks, Recover
  PROVE  EffectBooks'
<1>1. UNCHANGED <<config, producer, epoch, now, claims, providerVars, submitting, answers>>
  BY DEF Recover
<1>2. CASE RecoverLease
  <2> DEFINE r == Report(record.fence, "ambiguous", NoPayload)
             reports == record.reports \cup {r}
             rec == [record EXCEPT !.state = "ambiguous", !.reports = reports]
             refs == journal.responses
  <2>1. record.state = "leased" /\ CommitJournal(rec, refs)
    BY <1>2 DEF RecoverLease
  <2>2. record # NoRecord /\ record \in EffectRecord /\ refs \in SUBSET Responses
    BY <2>1, RecordType DEF EffectBooks, None
  <2>3. /\ RecordBooks(record) /\ record.fence \in Nat /\ record.outcome = NoOutcome
        /\ \A t \in record.reports : t.kind # "succeeded" /\ t.fence # record.fence
        /\ record.cancellation # "prevented_start"
    BY <2>1, <2>2 DEF EffectBooks, PairBooks, RecordBooks, EffectRecord, Unsettled, Settled
  <2>4. r \in ReportRow /\ r.fence = record.fence /\ r.kind = "ambiguous"
    BY <2>3 DEF Report, ReportRow
  <2> HIDE DEF r
  <2>5. /\ rec \in EffectRecord /\ rec.state = "ambiguous" /\ rec.fence = record.fence
        /\ rec.reports = reports /\ rec.outcome = NoOutcome
        /\ rec.cancellation = record.cancellation
    BY <2>2, <2>3, <2>4 DEF EffectRecord, Unsettled
  <2>6. /\ \A t, u \in reports : t.fence = u.fence => t = u
        /\ \A t \in reports : t.fence <= record.fence /\ t.kind # "succeeded"
    BY <2>3, <2>4 DEF RecordBooks
  <2> HIDE DEF rec, reports
  <2>7. RecordBooks(rec)
    BY <2>3, <2>5, <2>6 DEF RecordBooks, Unsettled, Settled
  <2>8. submitting = 0
    BY <2>1 DEF EffectBooks, EffectsTypeOK, HostBooks, Settled
  <2>9. /\ rec.state # "result_admitted" /\ rec.state # "unclaimed"
        /\ record.state # "result_admitted" /\ record.fence <= rec.fence
    BY <2>1, <2>3, <2>5
  <2>10. /\ submitting' = 0
         /\ claims' \subseteq [fence : Nat, epoch : Nat, expires : Nat]
    BY <1>1, <2>8 DEF EffectBooks, EffectsTypeOK
  <2> HIDE DEF refs
  <2> QED
    BY <1>1, <2>1, <2>2, <2>5, <2>7, <2>9, <2>10, RecordStep DEF refs
<1>3. CASE RecoverOutcome
  <2>1. record.state = "outcome_recorded" /\ AdmitOutcome
    BY <1>3 DEF RecoverOutcome
  <2>2. /\ record' # NoRecord /\ record'.state = "result_admitted"
        /\ record'.outcome = record.outcome
        /\ PairBooks' /\ CallBooks'
        /\ checkpoint' \in CheckpointRow /\ journal' \in JournalDocument
    BY <1>1, <2>1, Admission
  <2>3. EffectsTypeOK'
    BY <1>1, <2>2 DEF EffectBooks, EffectsTypeOK, providerVars
  <2>4. HostBooks'
    BY <1>1, <2>1, <2>2 DEF EffectBooks, HostBooks, Settled, NoRecord, None
  <2> QED
    BY <2>2, <2>3, <2>4 DEF EffectBooks
<1> QED
  BY <1>2, <1>3 DEF Recover

LEMMA EffectsStep == EffectBooks /\ [Next]_vars => EffectBooks'
<1> SUFFICES ASSUME EffectBooks, [Next]_vars PROVE EffectBooks'
  OBVIOUS
<1>1. CASE Propose \/ ChangeRoute \/ Crash \/ AdvanceEpoch \/ Tick
  <2>1. UNCHANGED hostVars /\ UNCHANGED answers
    BY <1>1 DEF Propose, ChangeRoute, Crash, AdvanceEpoch, Tick
  <2> QED
    BY <1>1, <2>1, IdleStepKeepsBooks
<1>2. CASE CommitIntent \/ TerminalizeOutbox \/ ClaimEffect \/ ProviderAccepts
  BY <1>2, CommitIntentKeepsBooks, TerminalizeKeepsBooks, ClaimKeepsBooks, ProviderKeepsBooks
<1>3. CASE \E c \in claims : Dispatch(c) \/ SubmitResult(c)
  BY <1>3, DispatchKeepsBooks, SubmitKeepsBooks
<1>4. CASE FinishSubmission \/ CancelEffect \/ Recover
  BY <1>4, FinishKeepsBooks, CancelKeepsBooks, RecoverKeepsBooks
<1>5. CASE UNCHANGED vars
  <2>1. UNCHANGED <<checkpoint, journal, config, producer, epoch, now, claims, called,
                    underway, accepted, executions, submitting, answers>>
    BY <1>5 DEF vars
  <2>2. PairBooks' /\ record' = record
    BY <2>1, PairIdle DEF EffectBooks, hostVars
  <2>3. EffectsTypeOK'
    BY <2>1 DEF EffectBooks, EffectsTypeOK
  <2> QED
    BY <2>1, <2>2, <2>3 DEF EffectBooks, HostBooks, CallBooks
<1> QED
  BY <1>1, <1>2, <1>3, <1>4, <1>5 DEF Next

LEMMA EffectsCorrect == Spec => []EffectBooks
  BY EffectsInit, EffectsStep, PTL DEF Spec

-----------------------------------------------------------------------------
(* The properties.                                                           *)

(* Whatever outbox, workers, cancellation and recovery commit, in any order, *)
(* an archive may capture the pair of documents.                             *)
THEOREM PairMayBeCaptured == Spec => []PairNeverTorn
<1>1. EffectBooks => PairNeverTorn
  <2> SUFFICES ASSUME EffectBooks PROVE PairNeverTorn
    OBVIOUS
  <2>1. CapturePair /\ EffectLocated
    BY DEF EffectBooks, PairBooks, CapturePair, EffectLocated
  <2>2. ASSUME record # NoRecord PROVE ReportsInOrder /\ OutcomeMapped
    <3>1. record \in EffectRecord /\ RecordBooks(record)
      BY <2>2, RecordType DEF EffectBooks, PairBooks
    <3>2. record.state \in Unsettled \/ record.state \in Settled
      BY <3>1 DEF EffectRecord
    <3>3. \A r \in record.reports : ReportAt(r.fence) = {r} /\ r.fence <= record.fence
      BY <3>1 DEF RecordBooks, ReportAt
    <3>4. CASE record.state \in Unsettled
      <4>1. record.outcome = NoOutcome
        BY <3>1, <3>4 DEF RecordBooks
      <4>2. \A r \in record.reports : r.kind # NoOutcome.kind
        BY <3>1 DEF EffectRecord, ReportRow, NoOutcome, None
      <4> QED
        BY <3>3, <4>1, <4>2 DEF ReportsInOrder, OutcomeMapped
    <3>5. CASE record.state \in Settled
      BY <3>1, <3>3, <3>5 DEF RecordBooks, ReportsInOrder, OutcomeMapped, ResultEvent
    <3> QED
      BY <3>2, <3>4, <3>5
  <2> QED
    BY <2>1, <2>2 DEF PairNeverTorn, JournalInventory
<1> QED
  BY <1>1, EffectsCorrect, PTL

(* However many submissions and recoveries are about to admit a recorded     *)
(* outcome, one does, and every worker answered was given that outcome.      *)
THEOREM OneAdmission == Spec => []AdmittedOnce
<1>1. EffectBooks => AdmittedOnce
  <2> SUFFICES ASSUME EffectBooks PROVE AdmittedOnce
    OBVIOUS
  <2>1. record.state = "result_admitted" => record.receipt
    <3>1. record.state = "result_admitted" => record # NoRecord
      BY DEF NoRecord, None
    <3> QED
      BY <3>1 DEF EffectBooks, PairBooks, RecordBooks
  <2> QED
    BY <2>1 DEF EffectBooks, PairBooks, HostBooks, AdmittedOnce
<1> QED
  BY <1>1, EffectsCorrect, PTL

(* The provider carries the effect out at most once, with or without         *)
(* deduplication, and never one that was cancelled before it was claimed.    *)
THEOREM OneExecution == Spec => []ActsOnce
<1>1. EffectBooks => ActsOnce
  <2> SUFFICES ASSUME EffectBooks PROVE ActsOnce
    OBVIOUS
  <2>1. ASSUME record # NoRecord, record.cancellation = "prevented_start"
        PROVE  called = {}
    <3>1. record.fence = 0
      BY <2>1 DEF EffectBooks, PairBooks, RecordBooks
    <3>2. \A f \in called : f \in Nat /\ f # 0 /\ f <= 0
      BY <3>1 DEF EffectBooks, EffectsTypeOK, CallBooks
    <3> QED
      BY <3>2
  <2> QED
    BY <2>1 DEF EffectBooks, CallBooks, ActsOnce
<1> QED
  BY <1>1, EffectsCorrect, PTL
=============================================================================
