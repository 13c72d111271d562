---------------------------- MODULE NativeEffects ----------------------------
(***************************************************************************)
(* One committed native effect, from the operation that produces its intent  *)
(* to the admission of its result, as the committed-native-effects profile   *)
(* requires it of a host: generate_committed_native_effects_profile.py       *)
(* renders the operations, committed_native_effects_validator.py states what *)
(* a journal and the checkpoint it is paired with may hold.                  *)
(*                                                                         *)
(* The checkpoint and the effect journal are durable and change together.    *)
(* Workers claim the effect, call the provider and submit a result; a claim  *)
(* expires, the scope's epoch may move on, a response or the host's memory   *)
(* of a call may be lost between any two commits, and recovery runs then.    *)
(* The provider is external: it accepts a call some time after it was sent.  *)
(***************************************************************************)
EXTENDS Integers, FiniteSets

CONSTANTS
  Payload,     \* payloads a worker may report
  Mapped,      \* outcome kinds that the result mapping declares
  Lease,       \* length of a claim
  MaxFence,    \* bound: attempts
  MaxTime,     \* bound: readings of the trusted clock
  MaxRoute,    \* bound: generations of the route configuration
  MaxSubmit    \* bound: submissions between their two commits

ASSUME BoundsAssumption == {Lease, MaxFence, MaxTime, MaxRoute, MaxSubmit} \subseteq Nat
ASSUME MappedAssumption ==
  "succeeded" \in Mapped /\ Mapped \subseteq {"succeeded", "cancelled"}

VARIABLES
  checkpoint,  \* revision, place of the intent, results admitted
  journal,     \* the checkpoint revision it binds, the effect's record, responses
  config,      \* route generation, authorisations, proven deduplication
  producer,    \* route generation that a core proposal resolved, or 0
  epoch,       \* the scope's authority epoch
  now,         \* trusted host time
  claims,      \* claims that workers hold
  called,      \* fences under which a handler called the provider
  underway,    \* calls the provider has not accepted yet
  accepted,    \* fences whose call it accepted
  executions,  \* times the provider carried the effect out
  submitting,  \* submissions that wait to admit the recorded outcome
  answers      \* committed results that workers were told

vars == <<checkpoint, journal, config, producer, epoch, now, claims, called, underway,
          accepted, executions, submitting, answers>>
hostVars == <<checkpoint, journal>>
providerVars == <<called, underway, accepted, executions>>

None == "none"
NoRecord == [state |-> None]
NoOutcome == [kind |-> None]
Report(fence, kind, payload) == [fence |-> fence, kind |-> kind, payload |-> payload]
Outcome(kind, payload, fence) == [kind |-> kind, payload |-> payload, fence |-> fence]
NoPayload == "empty"

record == journal.record

-----------------------------------------------------------------------------
Init ==
  /\ checkpoint = [rev |-> 1, outbox |-> None, admitted |-> {}, admissions |-> 0]
  /\ journal = [binds |-> 1, record |-> NoRecord, responses |-> {}]
  /\ config \in [route : {1}, authorized : {TRUE}, dedup : BOOLEAN]
  /\ producer = 0
  /\ epoch = 3 /\ now = 0
  /\ claims = {} /\ called = {} /\ underway = {} /\ accepted = {}
  /\ executions = 0
  /\ submitting = 0
  /\ answers = {}

(* Both documents in one transaction: the journal binds the new checkpoint.  *)
JournalFirst(cp, rec, refs) ==
  /\ checkpoint' = [cp EXCEPT !.rev = checkpoint.rev + 1]
  /\ journal' = [binds |-> checkpoint.rev, record |-> rec, responses |-> refs]
CommitBoth(cp, rec, refs) ==
  /\ checkpoint' = [cp EXCEPT !.rev = checkpoint.rev + 1]
  /\ journal' = [binds |-> checkpoint.rev + 1, record |-> rec, responses |-> refs]

(* The journal alone: it goes on binding the checkpoint it was read with.    *)
CommitJournal(rec, refs) ==
  /\ journal' = [journal EXCEPT !.record = rec, !.responses = refs]
  /\ UNCHANGED checkpoint

-----------------------------------------------------------------------------
(* Producing the intent: the core proposes while the route is resolved; the  *)
(* commit guard finds that the route moved on and rolls back.                *)
FreshRecord(route) ==
  [state |-> "unclaimed", fence |-> 0, reports |-> {}, outcome |-> NoOutcome,
   event |-> None, receipt |-> FALSE, cancellation |-> None, route |-> route]

Propose ==
  /\ record = NoRecord
  /\ producer = 0
  /\ producer' = config.route
  /\ UNCHANGED <<hostVars, config, epoch, now, claims, providerVars, submitting, answers>>

RouteStands == producer = config.route

CommitIntent ==
  /\ producer # 0
  /\ producer' = 0
  /\ IF RouteStands
     THEN CommitBoth([checkpoint EXCEPT !.outbox = "pending"], FreshRecord(producer), {"produce-1"})
     ELSE UNCHANGED hostVars
  /\ UNCHANGED <<config, epoch, now, claims, providerVars, submitting, answers>>

ChangeRoute ==
  /\ config.route < MaxRoute
  /\ \E authorized \in BOOLEAN :
       config' = [config EXCEPT !.route = @ + 1, !.authorized = authorized]
  /\ UNCHANGED <<hostVars, producer, epoch, now, claims, providerVars, submitting, answers>>

(* The outbox record of the intent ends on its own, whatever the business    *)
(* outcome is.                                                               *)
TerminalizeOutbox ==
  /\ checkpoint.outbox = "pending"
  /\ CommitBoth([checkpoint EXCEPT !.outbox = "confirmed"], record, journal.responses)
  /\ UNCHANGED <<config, producer, epoch, now, claims, providerVars, submitting, answers>>

-----------------------------------------------------------------------------
Claimable ==
  \/ record.state = "unclaimed"
  \/ record.state = "ambiguous" /\ config.dedup

ClaimEffect ==
  /\ Claimable
  /\ record.fence < MaxFence
  /\ LET fence == record.fence + 1
     IN  /\ CommitJournal([record EXCEPT !.state = "leased", !.fence = fence], journal.responses)
         /\ claims' = claims \cup {[fence |-> fence, epoch |-> epoch, expires |-> now + Lease]}
  /\ UNCHANGED <<config, producer, epoch, now, providerVars, submitting, answers>>

ClaimUnexpired(c) == c.epoch = epoch /\ now < c.expires
ClaimLive(c) == c.epoch = epoch /\ c.fence = record.fence /\ now < c.expires

(* The host checks the claim and the present authorisations, then the        *)
(* handler calls the destination that the record pins.  The journal does not *)
(* change; a worker uses a claim for one call.                               *)
Dispatchable(c) == record.state = "leased" /\ ClaimLive(c) /\ config.authorized

Dispatch(c) ==
  /\ Dispatchable(c)
  /\ c.fence \notin called
  /\ called' = called \cup {c.fence}
  /\ underway' = underway \cup {c.fence}
  /\ UNCHANGED <<hostVars, config, producer, epoch, now, claims, accepted, executions,
                 submitting, answers>>

ProviderAccepts ==
  \E f \in underway :
    /\ underway' = underway \ {f}
    /\ accepted' = accepted \cup {f}
    /\ executions' = IF config.dedup /\ executions > 0 THEN executions ELSE executions + 1
    /\ UNCHANGED <<hostVars, config, producer, epoch, now, claims, called, submitting, answers>>

-----------------------------------------------------------------------------
(* Results.  What a worker may say: a success after an acceptance it saw, a  *)
(* failure to retry only when it never called, ambiguity at any time.        *)
Reports(c) ==
  {Report(c.fence, "succeeded", p) : p \in {q \in Payload : c.fence \in accepted}}
    \cup (IF c.fence \in called THEN {}
          ELSE {Report(c.fence, "retryable_failure", NoPayload)})
    \cup {Report(c.fence, "ambiguous", NoPayload)}

ReportAt(f) == {r \in record.reports : r.fence = f}
ResultEvent(kind) == kind

(* The first report of a live attempt is final for it.                       *)
RecordReport(r) ==
  /\ record.state = "leased"
  /\ ReportAt(r.fence) = {}
  /\ LET rec == [record EXCEPT !.reports = @ \cup {r}]
     IN  CASE r.kind = "succeeded" ->
                /\ CommitJournal([rec EXCEPT !.state = "outcome_recorded",
                                             !.outcome = Outcome(r.kind, r.payload, r.fence),
                                             !.event = ResultEvent(r.kind)],
                                 journal.responses)
                /\ submitting < MaxSubmit /\ submitting' = submitting + 1
           [] r.kind = "retryable_failure" ->
                CommitJournal([rec EXCEPT !.state = "unclaimed"], journal.responses)
                /\ UNCHANGED submitting
           [] OTHER ->
                CommitJournal([rec EXCEPT !.state = "ambiguous"], journal.responses)
                /\ UNCHANGED submitting
  /\ UNCHANGED answers

(* Equal bytes once more, before the outcome is admitted: the submission     *)
(* goes on to admit it.                                                      *)
Resume(r) ==
  /\ record.state = "outcome_recorded"
  /\ r \in record.reports
  /\ submitting < MaxSubmit
  /\ submitting' = submitting + 1
  /\ UNCHANGED <<hostVars, answers>>

(* ... and after it: the committed response, even to an expired claim.       *)
Replays(r) ==
  record.state = "result_admitted" /\ record.outcome = Outcome(r.kind, r.payload, r.fence)
ReplayResult(c, r) ==
  /\ Replays(r)
  /\ c.epoch = epoch
  /\ answers' = answers \cup {Outcome(r.kind, r.payload, r.fence)}
  /\ UNCHANGED <<hostVars, submitting>>

SubmitResult(c) ==
  /\ \E r \in Reports(c) :
       \/ ClaimLive(c) /\ (RecordReport(r) \/ Resume(r))
       \/ ReplayResult(c, r)
  /\ UNCHANGED <<config, producer, epoch, now, claims, providerVars>>

(* The admission of a recorded outcome: the core gets the result's event and *)
(* the record the receipt in one commit.                                     *)
OutcomeKnown == record.state \in {"outcome_recorded", "result_admitted"}
Admissible == record.state = "outcome_recorded"

AdmitOutcome ==
  CommitBoth([checkpoint EXCEPT !.admitted = @ \cup {record.event}, !.admissions = @ + 1],
             [record EXCEPT !.state = "result_admitted", !.receipt = TRUE],
             journal.responses)

(* The second commit of a submission; the response may be lost after it.     *)
FinishSubmission ==
  /\ submitting > 0
  /\ submitting' = submitting - 1
  /\ \/ Admissible /\ AdmitOutcome
     \/ ~Admissible /\ UNCHANGED hostVars
  /\ answers' \in {answers, answers \cup {record.outcome}}
  /\ UNCHANGED <<config, producer, epoch, now, claims, providerVars>>

-----------------------------------------------------------------------------
(* cancel_effect: before any claim the outcome is `cancelled`, with fence 0; *)
(* once a call is possible only a reconciliation is asked for; without a     *)
(* mapping for the outcome the request is refused.  A repeated request       *)
(* changes nothing.                                                          *)
NeverClaimed == record.state = "unclaimed" /\ record.fence = 0

CancelBeforeClaim ==
  /\ NeverClaimed
  /\ "cancelled" \in Mapped
  /\ CommitJournal([record EXCEPT !.state = "outcome_recorded",
                                  !.outcome = Outcome("cancelled", NoPayload, 0),
                                  !.event = ResultEvent("cancelled"),
                                  !.cancellation = "prevented_start"],
                   journal.responses \cup {"cancel-1"})

CancelAfterPossibleCall ==
  /\ record.state \in {"leased", "ambiguous"}
  /\ record.cancellation = None
  /\ CommitJournal([record EXCEPT !.cancellation = "reconciliation_required"],
                   journal.responses \cup {"cancel-after-call"})

CancelEffect ==
  /\ CancelBeforeClaim \/ CancelAfterPossibleCall
  /\ UNCHANGED <<config, producer, epoch, now, claims, providerVars, submitting, answers>>

-----------------------------------------------------------------------------
(* The host's memory is lost between two commits.                            *)
Crash ==
  /\ producer # 0 \/ submitting > 0
  /\ producer' = 0
  /\ submitting' = 0
  /\ UNCHANGED <<hostVars, config, epoch, now, claims, providerVars, answers>>

(* recover: a lease found in the journal may have reached the provider, a    *)
(* recorded outcome is admitted; other records stay as they are.             *)
RecoverLease ==
  /\ record.state = "leased"
  /\ CommitJournal([record EXCEPT !.state = "ambiguous",
                                  !.reports = @ \cup {Report(record.fence, "ambiguous", NoPayload)}],
                   journal.responses)

RecoverAttempt == record.state = "outcome_recorded" /\ record.reports # {} /\ AdmitOutcome
RecoverOutcome == record.state = "outcome_recorded" /\ AdmitOutcome

Recover ==
  /\ RecoverLease \/ RecoverOutcome
  /\ UNCHANGED <<config, producer, epoch, now, claims, providerVars, submitting, answers>>

(* Another owner takes the scope over; the clock goes on.                    *)
AdvanceEpoch ==
  /\ epoch = 3
  /\ epoch' = 4
  /\ UNCHANGED <<hostVars, config, producer, now, claims, providerVars, submitting, answers>>

Tick ==
  /\ now < MaxTime
  /\ now' = now + 1
  /\ UNCHANGED <<hostVars, config, producer, epoch, claims, providerVars, submitting, answers>>

Next ==
  \/ Propose \/ CommitIntent \/ ChangeRoute \/ TerminalizeOutbox
  \/ ClaimEffect
  \/ \E c \in claims : Dispatch(c) \/ SubmitResult(c)
  \/ ProviderAccepts \/ FinishSubmission \/ CancelEffect
  \/ Crash \/ Recover \/ AdvanceEpoch \/ Tick

(* Recovery runs again after every crash, and as long as it has work.        *)
Spec == Init /\ [][Next]_vars /\ WF_vars(Recover)

-----------------------------------------------------------------------------
(* What an archive's capture of the two documents asks of the journal: it    *)
(* binds the checkpoint captured with it, ...                                *)
CapturePair == journal.binds = checkpoint.rev

(* ... the effect of its record has its place in the checkpoint, ...         *)
EffectLocated ==
  /\ record # NoRecord <=> checkpoint.outbox # None
  /\ record # NoRecord => "produce-1" \in journal.responses

(* ... the reports are of one attempt each, none later than the last claim,  *)
(* and one of the outcome's kind says what the outcome says, ...             *)
ReportsInOrder ==
  /\ \A r \in record.reports : ReportAt(r.fence) = {r} /\ r.fence <= record.fence
  /\ \A r \in record.reports :
       r.kind = record.outcome.kind => r.payload = record.outcome.payload

(* ... and an outcome names the event that its kind is mapped to.            *)
OutcomeMapped ==
  record.outcome # NoOutcome =>
    record.outcome.kind \in Mapped /\ record.event = ResultEvent(record.outcome.kind)

JournalInventory ==
  CapturePair /\ EffectLocated /\ (record # NoRecord => ReportsInOrder /\ OutcomeMapped)

(* The pair is never torn: after any interleaving of outbox, worker, cancel  *)
(* and recovery commits an archive may capture it.  The journal binds the    *)
(* checkpoint that is stored, locates its effect there, and accounts for     *)
(* every attempt and for the outcome.                                        *)
PairNeverTorn == JournalInventory

(* The core admits the effect's result at most once, and the record says so  *)
(* exactly when it did, although a submission, its repetition and recovery   *)
(* may all be about to admit it; a worker that was given an answer was given *)
(* the outcome admitted.                                                     *)
AdmittedOnce ==
  /\ checkpoint.admissions <= 1
  /\ checkpoint.admissions = 1 <=> record.state = "result_admitted"
  /\ record.state = "result_admitted" => checkpoint.admitted = {record.event} /\ record.receipt
  /\ \A a \in answers : record.state = "result_admitted" /\ record.outcome = a

(* The effect is carried out at most once, with or without deduplication at  *)
(* its destination, whatever expires, is taken over, lost or tried again, and *)
(* one that was cancelled before it was claimed is never called.             *)
ActsOnce ==
  /\ executions <= 1
  /\ record # NoRecord /\ record.cancellation = "prevented_start" => called = {}

(* A recorded outcome, of an attempt or of a cancellation, reaches the core. *)
OutcomeReachesCore ==
  record.state = "outcome_recorded" ~> record.state = "result_admitted"
=============================================================================
