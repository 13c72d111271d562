# Verification of the Determa State conformance suite

TLA+ specifications, TLC configurations and TLAPS proofs for the repository's
Python code: the programs that generate durable-host vectors, the validators
that judge them, and the SQLite stores and transports a host is run against.
Paths below are relative to the repository root. Run the tools inside this
directory: `tlc -config MCCheckpoint_writers.cfg MCCheckpoint`,
`tlapm CheckpointProofs.tla`.

## The system

The repository has no long-running service. It has three kinds of program that
carry logic of their own:

* **transition functions** that rewrite one stored document
  (`scripts/generate_*_profile.py`);
* **validators** that say which documents and which before/after pairs are
  right (`scripts/validate_*.py`, `scripts/*_validator.py`), written
  independently of the generators;
* **stores, transports and drivers** that run as separate processes next to
  the host under test (`scripts/*_test_store.py`, `*_test_transport.py`,
  `run_*_profile.py`), over SQLite files that survive crashes of the host.

The first two describe, between them, a host: its documents, what each request
does to them, which evidence must remain. The models are of that host, run by
several workers at once with crashes and lost answers, and of the stores and
transports themselves.

| Component | State | Operations | What makes it correct | Modules |
|---|---|---|---|---|
| Core aggregate | runtimes with ready and deferred mailboxes, counters, definition | admit, step (defer, recall, send, complete, cancel, fault), migrate, keyed maintenance | every event in one place or accounted for; identities never reused; audit without gaps | `AggregateCharts`, `Aggregate`, `AggregateMigration`, `TransferProofs` |
| Execution checkpoint | one document: revision, mailbox, counters, receipts, tombstones, outbox | create, admit, step, outbox report, compact, prune, tombstone; compare-and-swap | a delivery accepted once, processed at most once, always recognised again; effects neither lost nor doubled | `Checkpoint`, `CheckpointSemantics`, `CheckpointInvariant`, `CheckpointProofs`, `CheckpointRefinement`, `DeliveryLedger` |
| Persistence host | checkpoint, inbox, application rows, quarantine in one transaction | admit, step, persist, quarantine, release | all or nothing; what was acknowledged stays; every delivery answered | `SpawnedRuntimes`, `PersistenceHost`, `PersistenceHostProofs` |
| Lossless delivery | host document with transfers, dead letters, outbox, epochs; store tables; transport tables | transfer, process, deliver, record outcome, take over; store requests; four-step acknowledgement | one owner per source item; an effect decided once; no early or double acknowledgement | `DeliveryHost`, `DeliveryHostProofs`, `HostStore`, `LosslessDelivery`, `LosslessDeliveryProofs` (of the last two) |
| Committed native effects | checkpoint and effect journal | propose, claim, dispatch, report, admit, cancel, recover | the pair is never torn; an effect acts once; its result is admitted once | `NativeEffects`, `NativeEffectsProofs` |
| Timer helper | timer record, receipts, claims, checkpoint | schedule, cancel, claim, complete | fires once, never early, retries get the same answer | `TimerHelper`, `OnceTimer`, `TimerHelperProofs` |
| Host authority | ledger of receipts, epochs, fences, native guard | commit, freeze, fence, retire, resolve fate | applied once; a freeze lists all; one live claim; every call ends | `HostAuthority`, `HostAuthorityProofs` |
| Recovery | native store, journal of invocations and commits; the driver's case | source life, freeze, export, stage, transfer, recover, verdict | the source is retired before the destination acts; commits happen once | `RecoveryStore`, `Recovery`, `TransferProofs` |
| Portable archive | sealed documents | capture, restore checks | the captured pair is consistent | the journal inventory, in `NativeEffects` |
| Pure decisions | none | extension negotiation, adapter registration, projection, inspection | equal to their tables | none, see below |
| Tooling | none | schemas, canonical JSON, digests, YAML, fixed-vector comparison | not logic of the system | none |

Components interact through stored documents and digests. A host presents the
identity of the checkpoint it read and either commits its successor or is told
that it is stale. The persistence host, the delivery host, the native effects
and the timer each commit a record of their own together with that checkpoint.
The authority decides which owner may commit at all. Drivers seed a store and a
transport, hand operations to the adapter, kill it at a cut, and read the
databases afterwards.

The hard parts: redelivery after a lost response, racing writers, retries of
what was pruned or migrated, numbering inside batches and faults, operations
that are legal one by one and together leave an illegal document,
compare-and-swap over a row read outside a transaction, crashes on both sides of
a commit, commits whose fate is unknown, leases that expire under a worker, two
acknowledgements of one item, owners that were replaced. `PROJECT.json` lists
every hazard at its line with the properties that cover it.

## Modules

An operator commented as a *slip*, placed before the definition it could
replace, is a plausible mistake in that definition. No specification uses it; it
is there to show which property notices the mistake (`PROJECT.json`,
`mutants`). Throughout, a digest is an injective image of what it seals, and
checks of a document's shape (types, formats, digests that match by
construction) are left out.

### Checkpoint

`Checkpoint.tla` is the schema-version-1 execution checkpoint of one root. The
variables are the fields of the document (the VARIABLES section names each), the
set `current` of writers whose presented identity is the stored one, `acked`
(what the broker was told to forget) and the history variable `handledCount`.

| Action | Code |
|---|---|
| `Create` | `native_v1_checkpoint`; creation branch of `validate_checkpoint_derivation` |
| `Load`, `Commit` | `checkpoint_identity`, `validate_writer_checkpoint_context`: only the writer that presents the stored identity commits, and the revision advances once |
| `Admit` | `admit_batch` and the admission branch: fresh members take consecutive numbers, repeated ones none, a terminal or tombstoned root takes no new member |
| `AdmitReplay` | `retained_admission_identity_disposition`: equal retained members replay before the revision is compared |
| `Step` | `process`, `process_with_disposition`, of a running root only (`validate_conformance.py:3687-3723`): pop the oldest entry, run it, record the terminal receipt and the effects |
| `UpdateOutbox`, `Terminalize`, `Compact` | `update_pending`, `terminalize`, `compact` |
| `Prune`, `Tombstone` | `prune`, `tombstone` |

A response can be lost after any commit (`answered = FALSE`): the document has
changed, the writer's view is stale and the broker was not told. Rejected
requests (conflict, stale writer, terminal root) change nothing and are no
action; the disposition operators they are decided by are used in the
properties. Lists that the code keeps sorted by a counter are sets whose
elements carry the counter; the effect tombstones stay a sequence because
`compact` appends them in request order.

`CheckpointSemantics.tla` holds the properties. Those of one document translate
`validate_execution_checkpoint_v1_semantics`, so checking them compares the
generator with the validator; `RequestsAnswered` asks that the evidence
`validate_exact_durable_response` looks for is there for every commit and every
retry. `CheckpointInvariant.tla` is the inductive strengthening,
`CheckpointProofs.tla` the proofs. `DeliveryLedger.tla` is the abstract
specification: per delivery unknown, owned or finished; effects promised by the
step that finishes their cause, each settled once; a closed ledger owes and takes
nothing. `CheckpointRefinement.tla` gives the mapping.

### Aggregate and its migration

`AggregateCharts.tla` holds the two machines of the mailbox vectors
(`conformance/core/117-version1-mailboxes`): a server that defers and recalls,
and a root whose parallel components complete, are cancelled or fault.
`Aggregate.tla` is admission and stepping as `validate_version1_vectors` judges
them: `Admit` takes a batch or none of it; `Step` pops, postpones, or runs one
event and everything the run causes (sends, completions, cancellations, faults
that take numbers back, the recall of deferred events) as one result.
`AggregateMigration.tla` adds the worker's migrations and the operator's
maintenance, `Prepare`d against an aggregate read earlier and sent any number of
times.

Read from code where no vector decides: a send to a runtime that no longer runs
makes the action fault; replay of one delivery changes nothing. Left out: the
activation numbers of components (a host runtime name stands for one
activation, so a stale target after re-entry is not modelled), the cause of
`component_failed` is the event instead of the activation, `deferral_count`, and
the values that transforms compute. Intermediate hops of a route are
dispositionless, as the vectors' are.

### SpawnedRuntimes and PersistenceHost

`SpawnedRuntimes.tla` is the checkpoint of the order machine that spawns a
payment runtime (checkpoint-05 and -06, with the `host_commit` handler of
persistence-02): pure operators from checkpoint to checkpoint, translated from
the trace functions of the generator (`start_spawned_runtime`,
`complete_spawned_runtime`, `process_spawned_done`,
`combined_migrate_and_process`, `coalesce_persistence_revision`), and the
evidence checks of the validator, `EvidenceValid`.

`PersistenceHost.tla` runs them under workers, callers, a broker and an
operator. `Begin` does the checks and stages, `Commit` compares the checkpoint
that was read, writes checkpoint, inbox and rows, and acknowledges;
`CommitUnanswered` loses the answer; `Fail` and `Rollback` write nothing;
`Quarantine` and `Release` are the quarantine calls. What the vectors leave open
is closed as follows: the payment runtime has one delivery at a time (its removal
drops its ready mailbox, and an acceptance without a place is refused by the
validator, so a host must not leave one there); a persisted delivery is presented
when its target's mailbox is empty, as in every vector, and refused when the
target no longer runs; a failing resolution and its quarantine record are one
step; a replay is answered from the delivery's own receipt (the validator's
position rule is disagreement 3 below, and its refusal of a replay after a later
migration, "not definition-bound", is not followed).

### HostStore, LosslessDelivery and DeliveryHost

`HostStore.tla` is `lossless_delivery_test_store.py`. A request is a process:
`Read` takes the document (the SELECT on line 65 opens no transaction), then
`Write` does the branch of the request in one transaction, or `Refuse` rolls it
back. A document is the set of source items it holds and a number that every
commit advances. Stale expectations, reused operation identities and a timer
receipt that fits nothing are all requests of the model. `Fault` is the driver's
fault injection, `Successors` the adapter's freedom.

`LosslessDelivery.tla` extends it with `lossless_delivery_test_transport.py`. An
acknowledgement takes four steps, because other processes can run between them:
`Attempt`, `Compare`, `ReadDocument` and `Judge`, `Acknowledge` or
`RefuseSecond`. The driver binds the barrier to an operation it draws anew and
only then hands the operation out.

`DeliveryHost.tla` is the host the profile demands, one level up: workers
`Fetch` items alone or in batches, `Commit` them as bindings (with their
admission) or dead letters, `Acknowledge`, `Process` events, `Deliver` effects
and `RecordOutcome`. A worker may `Abandon` its work at any point, another owner
may `TakeOver`, the target may end, and a commit sends every worker that read
the older document back. The number of host commits stands for the digest and
the revision. Undecided by the vectors and read as follows: an identity already
transferred and used for another kind of operation is a conflict; a batch is all
fresh or all retained; an outcome that stays ambiguous may be tried again; the
owner is compared when the decision is made and at the commit, an acknowledgement
that follows a commit is not guarded again. Source order is a premise that may
hold or not; where it holds, every member of a batch must be the next unresolved
item or stand behind it in the batch (`Waits`). Source items are listed once
each.

### NativeEffects, TimerHelper, HostAuthority

`NativeEffects.tla` is one effect: checkpoint and journal, changed together, with
workers that claim it, call an external provider and submit a result in two
commits. A claim expires, the scope's epoch moves on, routes change, the effect
is cancelled before or after a possible call, a crash may fall between any two
commits and `Recover` runs then. A worker dispatches a claim once, reports a
retryable failure only when it never called, and success only after the provider
accepted. `PairNeverTorn` is what an archive's capture
(`validate_journal_inventory`) asks of the two documents; the retained responses
at its end are not modelled.

`TimerHelper.tla` is one timer on a clock of fixed width. Completing a fire reads
the clock, admits the event in the core and commits all or nothing; a worker may
be lost in between (`LoseWorker`) and the fate of its commit settles later
(`SettleFate`). `OnceTimer.tla` is what the caller is promised; the timer
implements it.

`HostAuthority.tla` is the ledger of one scope. A mutating request runs inside the
native guard, one session at a time. Responses are lost, the authority restarts,
a session is cut off with its transaction's fate unknown; then the scope is in
doubt until the fate is resolved from storage and the session fenced
(`ResolveFate`, `FenceOldSession`). The storage, which the repository does not
hold, ends the transaction by itself at some moment: it commits late
(`CommitLate`) or rolls back (`RollBackLate`). `ResolveFate` waits for that, an
assumption about the storage that the profile states ("Unknown fate blocks frozen
inventory, retirement, and activation until storage resolves fate and the old
session cannot commit", `conformance/profiles/host-authority/README.md:17`): the
generator's schedule resolves the fate first and fences the session afterwards, so
it is not the fence that keeps the old transaction out, and `FateStands` fails when
the storage is asked too early (slip `AskedEarly`). The portable checkpoint can be
deleted in any state of the scope, a frozen one included: `FreezeCoversStorage`
asks that the frozen inventory lists all the storage holds, and that nothing but
portable checkpoints has gone since. Claims do not expire here (there is no
clock); they do in `NativeEffects`. No vector sends a request that does not
fit the scope's state, a commit to a frozen scope for one: it is refused, under a
code of the model's own.

### RecoveryStore and Recovery

`RecoveryStore.tla` is `recovery_test_store.py`: one document and four
append-only tables. `Recovery.tla` is `run_recovery_profile.py`: the driver
issues the calls of a case and compares the store before and after each
(`Judge`); before a freeze it also asks for a live source with its whole inventory,
and gives the case up without the call if there is none (`GiveUpFreeze`). The
bridge is the adapter under test, outside the repository, and may
do what the operation should, or get one field wrong, skip its commit, answer
otherwise, ask twice, die or be upgraded. The invariants say what the driver's
checks establish of whatever passes them. Commands of one call run one after
another, so each is atomic; `HostStore` studies a store of this form under
concurrency. What `validate_recovery_profile.py` demands of the cases is
`CaseAssumption`; TLC evaluates it on the table of `MCRecovery`.

### Model-checking modules

Each `MC` module extends a specification and defines its instance: symmetry
sets, the cases of the recovery fixture, the requests and routes of the mailbox
vectors. Symmetry is used in runs without liveness properties only, over sets
whose members no definition tells apart.

## Runs

Every run but `secondprune` and `retry` finishes without an error.

| Run | Instance | Shows |
|---|---|---|
| `writers` | 2 writers, 2 deliveries of 6 events, batches of 2, 1 effect per send, one pruning | a delivery has one place and runs at most once; no identity is forgotten; an effect has one place; every commit and every retry finds its evidence; the document implements `DeliveryLedger`; accepted work is processed unless the root completes or faults |
| `secondprune` (violated) | 1 writer, 2 deliveries, two prunings | a second pruning forgets a delivery |
| `aggregate` | both charts, 5 definitions, 12 requests, batches of 2, 3 accepted events, 1 worker migration, 1 maintenance operation | every event accounted for; every result passes the validator and what is held back has a reason; identities never reused; audit without gaps; a terminal root is frozen; every event settles |
| `retry` (violated) | the same | a committed maintenance migration, sent again, is refused |
| `host` | 2 workers, 5 deliveries of every kind, one migration, one quarantine, one failure | stored checkpoints pass the evidence checks; a persisted delivery is whole or absent; what was acknowledged stays; every delivery is answered |
| `races` | 2 store processes, 2 operations, 2 timer invocations, both cuts | timer returns belong to their transaction, which compared the document the timer began from; cuts and journal tell the fate of every operation |
| `delivery` | 2 acknowledging processes, 2 items, 2 operations, one store process | no early or double acknowledgement; what was acknowledged stays held |
| `ownership` | 2 workers, 2 items of which one changes its content, 1 effect, 2 owners, 5 commits | one owner per source item; owners and ordered items never overtake; an effect is decided once |
| `effects` | 3 attempts, 2 payloads, leases of one reading, 2 route generations | the pair is never torn; the effect acts once; its result is admitted once; a recorded outcome reaches the core |
| `timer` | 2 workers, a clock of 9 readings started at its ends or near zero, 3 attempts | never early; fires once with its admission |
| `authority` | 2 sessions, 2 workers, 3 calls of every operation | applied once and answered in one way; a freeze lists all the storage holds; what was told of a fate stands; one live claim; every call ends |
| `transfer` | 10 tested cases with their lineages, one defect, one retry, one upgrade of the bridge | the source is retired before the destination acts; the frozen source is kept; commits happen once |

Why the bounds suffice. Two deliveries are needed for order, for mixed batches
and for a batch with a repeated member; what a third would add is covered by the
proofs, which hold for any number. `MaxCutoff = 2` is the one pruning the
generator performs. `UpdateHorizon` stops the endless alternation of
`retryable_failure` and `ambiguous`; nothing else reads that status. Two writers
give a winner and a loser. In `races`, `MaxStep = 1` bounds documents to one
commit beyond the seed, which still lets two commits race. `delivery` runs one
store process because the driver does: `AckedStaysHeld` is false with two
(disagreement 6), and two acknowledgements beside two store processes exceed
TLC's time. Five
commits in `ownership` are the fewest in which one event is deferred and
another, admitted separately, recalls it. Three events in `aggregate` are the
fewest in which one is deferred, a second changes the state and a third was sent
in between. The timer's clock is as wide as a delay that overflows it at one end
and deadlines on both sides of zero need; the property counts without width.
Three attempts let one worker's lease expire, a second replace it and be
replaced. The defect of a bridge may be in any field of any commit, one per case:
a driver's check that misses it is found with one.

Deadlock is checked where some request can always be made (`writers`,
`secondprune`, `races`, `delivery`). In the others counters reach a bound or all
work is done (`CHECK_DEADLOCK FALSE`).

### Fairness

* `writers`: weak fairness of `Load` by some writer and of `Step` by some writer,
  answered or not. A host runs a loop that reads the stored checkpoint and
  processes the oldest entry, and a rejected writer reads again
  (`validate_writer_checkpoint_context`). Which writer wins and whether responses
  arrive is not assumed. `AcceptedEventuallyTerminal` excuses a root that
  completes or faults: it keeps the rest of its mailbox, and a step of it is
  refused (`validate_conformance.py:3687-3723`).
* `aggregate`: a host keeps stepping while a runtime has ready work. It is weak
  fairness of `Work` with its enabling condition written out (`HostFairness`),
  which TLC evaluates faster than ENABLED.
* `host`: as long as some caller, worker or the operator can do something, one of
  them does. The fairness is of `Work` as a whole: no single worker, caller or
  delivery is favoured, and failures are owed to nobody.
* `effects`: `Recover` runs again as long as it has work: the vectors run `recover`
  after each of their crashes.
* `authority`: per session, a call is taken up, what is inside the guard runs or
  aborts, the storage ends the transaction of a session that was cut off (it
  commits or rolls back, either is fair), its fate is resolved and the session
  fenced. The native schedules of the generator contain these steps for every cut;
  that SQLite or PostgreSQL ends a transaction whose connection is gone is assumed.
* The other runs check safety only and assume no fairness.

### Disagreements found

All are latent: the vectors in the repository do not exercise them. The first two
are shown by a run; for the others the properties that show them were run during
the development and are described here.

1. `prune` replaces the event tombstones
   (`scripts/generate_execution_checkpoint_profile.py:1109`), so a second pruning
   forgets a delivery, which the profile's README calls irreversible
   (`secondprune`).
2. The digest of a maintenance request is recomputed from the aggregate that the
   checkpoint holds now (`scripts/validate_conformance.py:3335`), so an unchanged
   retry of a migration that committed is refused before its receipt is looked
   for; the profile's README promises the opposite order (`retry`).
3. The response expected for a replayed step is the last terminal receipt of the
   document (`scripts/validate_conformance.py:7078`), not that of the delivery
   asked for, which the profile's README promises.
4. `compact` appends tombstones in request order
   (`scripts/generate_execution_checkpoint_profile.py:1079`), while the validator
   wants them ordered by terminal sequence (`scripts/validate_conformance.py:1761`).
5. `process` completes a root and keeps its ready entries
   (`scripts/generate_execution_checkpoint_profile.py:840`); the validator refuses
   such an aggregate (`scripts/validate_conformance.py:1412`). `process` has no
   check that the root is running either; the model takes the validator's, which
   refuses a step of a completed or faulted root (lines 3687-3723).
6. The delivery store's compare-and-swap compares a row read outside a transaction
   (`scripts/lossless_delivery_test_store.py:113`) and the UPDATE that follows has no
   condition. Two commits over the same document can both succeed, and the proof
   of the second names a document it did not replace. The driver runs one adapter
   at a time, which hides it; `AckedStaysHeld` holds under that schedule only, and
   so does what a commit's message calls compare-and-swap (`SwapsAreSwaps`).

## Proofs

Each `...Proofs` module holds the theorems of one component; `TransferProofs` has
two, the two ways an aggregate leaves the place it is in. All are proved for
every value of the constants that the named `ASSUME`s of the component allow:
sets of any size, any bounds. Further hypotheses are stated in the theorem and
given below. An invariant that a run checks is seldom inductive; each module
therefore states a strengthening and shows that the initial states have it, that
every action keeps it, and that the property follows.

| Module | Theorems (property) | Inductive invariant |
|---|---|---|
| `CheckpointProofs` | `TypeCorrect` (`TypeOK`), `DeliveredAtMostOnce` (`AtMostOnce`), `DeliveriesAccounted` (`EventLocatedOnce`, `AcceptanceEvidence`), `IdentitiesKept` (`IdentityNeverForgotten`), `EffectsAccounted` (`EffectLocatedOnce`), `LedgerImplemented` (`ImplementsLedger`), `RequestsStayAnswerable` (`RequestsAnswered`) | `Bookkeeping` (theorem `BookkeepingCorrect`), `OutboxBooks`, `LedgerBooks` |
| `PersistenceHostProofs` | `EvidenceLinkedKept` (`EvidenceLinked`), `TransactionWholeKept` (`TransactionWhole`), `AcknowledgedStaysKept` (`AcknowledgedStays`), `HistoryGrows`, `HostTypeCorrect` | `HostBooks` (theorem `HostBooksKept`) |
| `LosslessDeliveryProofs` | of the store: `TimersJoined` (`TimerJoined`), `FateTold` (`CutsTellFate`), and for one process `SwapsAreSwaps` | `StoreBooks`, `SerialBooks` |
| | of transport and store: `TransferBeforeAck` (`AckedAfterTransfer`), `OneAckAccepted` (`AckedOnce`), `AckedItemsStayHeld` (`AckedStaysHeld`) | `DeliveryBooks`, with `HeldGrows` for the last |
| `DeliveryHostProofs` | `OneOwnerOfAnItem` (`OneOwner`), `FencingIsOrdered` (`FencedInOrder`), `DecisionIsFinal` (`DecidedOnce`) | `OwnershipBooks` (theorem `OwnershipInvariant`) |
| `NativeEffectsProofs` | `PairMayBeCaptured` (`PairNeverTorn`), `OneAdmission` (`AdmittedOnce`), `OneExecution` (`ActsOnce`) | `EffectBooks` |
| `HostAuthorityProofs` | `OneApplication` (`AppliedOnce`), `FreezeIsComplete` (`FreezeCoversStorage`), `FateIsFinal` (`FateStands`), `LiveClaimUnique` (`OneLiveClaim`) | `AuthorityBooks` |
| `TimerHelperProofs` | `TypeCorrect`, `TimerFiresOnce` (`ImplementsOnceTimer`), `AnswersStand`, `AttemptStaysCurrent`, `FiresInTime` (`NeverEarly`) | `ReceiptsAgree`, `CompleteOnce`, `AttemptHeld`, `DeadlineAsked` |
| `TransferProofs` | of recovery: `ActivationAfterRetirementKept` (`ActivationAfterRetirement`), `FrozenSourceKeptAlways` (`FrozenSourceKept`), `AppliedOnceKept` (`AppliedOnce`) | `RecoveryBooks` (theorem `RecoveryBooksKept`) |
| | of the aggregate: `EventsAccounted` (`EveryEventAccounted`), `ResultsValid` (`EveryResultValid`), `IdentitiesFresh` (`IdentitiesNeverReused`), `TrailComplete` (`AuditTrail`), `RootEndsForGood` (`TerminalFrozen`) | `MigrationInv` (theorem `MigrationInvariant`) |

Hypotheses beyond the components' own:

* `MaxCutoff < 4`, at most one pruning, in all of `CheckpointProofs` but
  `TypeCorrect` and `EffectsAccounted`. With a second pruning the statements are
  false (run `secondprune`); no pruning touches the outbox.
* One store process (`\A p, q \in Process : p = q`) in `SwapsAreSwaps` and
  `AckedItemsStayHeld`. The driver runs one adapter at a time;
  with two the statements are false (disagreement 6).

### Checkpoint

`AtMostOnce` is not inductive: nothing in it says that a delivery with a count of
one has left the mailbox for good. `Bookkeeping` adds `HandledIsRecorded` (the
count is one exactly for deliveries with a terminal receipt or a tombstone),
`EventLocatedOnce` (those are not in the mailbox, and an identity is in one
place), and for pruning, which selects two receipts by number only,
`ReceiptNumbers` (a number belongs to one receipt), `AcceptanceEvidence` and
`TerminalsAccepted` (from these: the two receipts selected are those of one
delivery, so that nothing else is dropped) and `PrunedOnce`. Admission keeps it
because fresh members are unknown in all four places and take numbers from the
counters upwards; processing because the entry moves from the mailbox to the
terminal receipts under the next receipt number; pruning by the argument above;
all other actions leave its variables alone.

`OutboxBooks` adds to the one place of an effect that its output number, its
terminal number and its logical step are below the counters (`EffectNumbers`):
new intents are then distinct from all that were made before, and a report or a
compaction moves one record. For the refinement of `DeliveryLedger` it must also
be known where an effect comes from: `EffectCauses` says that its cause was
processed and that effects of one cause share their logical step, so that
nothing can be promised again for an event that finished. `LedgerBooks` is the
conjunction of the three. Each action of the checkpoint is then matched with its
action of the ledger (`LedgerStep`); reports, compaction, pruning, replays and
lost responses leave the ledger as it is. `RequestsStayAnswerable` follows
because a step that finishes an event leaves exactly the evidence its response
is made from, and no step removes the evidence of an earlier one.

### Persistence host

`HostBooks` has three parts. `Linked` and `Dated` say of the stored checkpoint what
`EvidenceValid` asks, receipt by receipt, and what it takes to keep that up: an
identity is in one place, under numbers handed out before (`Places`); mailboxes
are in the order of their numbers, which are above those of what their runtime
ended, and a payment runtime holds one delivery (`Ordered`); a delivery of the
host has its acceptance and is somewhere (`Evidence`); a native event has one
producer that says where it is (`ProducersKnown`); receipts and intents name the
same effects (`EffectsKnown`); revisions grow. `TransactionWhole` and
`AcknowledgedStays` are the properties themselves. `RequestsMade` and `Staging`
carry the interleaving: what a worker staged follows, by one operation, from the
checkpoint it read as long as that one is stored, and says nothing otherwise,
because `Commit` then refuses it. That a revision is at most the stored one, and
that a commit advances it, is what lets the number stand for the checkpoint.

Each operator of `SpawnedRuntimes` is first shown to return a checkpoint (its
fields, one lemma per operator), then to keep `Linked`, so that processing,
admission and the combined transaction keep it by composition. `Grows` says that
an operation adds to receipts, intents and audits under one new revision; from it
follow `HistoryGrows`, that acknowledged evidence stays, and that a later
transaction leaves those of earlier revisions whole.

`IdentityAssumption` (no delivery is called like a native event, whose identity is
a digest over its cause and logical step) and `WriterAssumption` (`NoWriter` is no
delivery) are the only assumptions about the identities.

### Recovery

The proof is of the driver's checks: the bridge may commit any of the documents
of `Wrong`, any number of times (`MaxDefects`, `MaxRetry` and `MaxBuild` are
arbitrary), and the table of cases and the plan are any the validator accepts.
`PlanBooks` says that the calls to be made are a rest of the case's plan, without
repetition, with the freeze still ahead exactly while the driver has no
reference (`Agenda`, `Freezes`): no call of the transfer can come before it.
`SourceBooks` says that the reference is a frozen source with the exported
inventory or one retired once (`Reference`), that the document the driver saw last
agrees with it, that a freeze under way began on a live source, and that after an
accepted activation the source is retired: the driver demands `ActsAfterRetirement` of the activation, and a second retirement is refused
because `CommitProved` wants a frozen source. `JournalBooks` says that a commit was
asked for by a call that is over or by the one under way, that the latter has at
most one, and that it has one exactly when the document differs from the snapshot.
The compare-and-swap gives that: a retry under another operation identity carries
the same snapshot, which is stored no longer. A refused or reading case must leave
the document equal, so it has no commit.

`LineageAssumption` says what `input_for` and the fixture give: setups end, do not
repeat a case or contain the tested one, and a case with `local_activate` among
them is of local transfer; `PlanAssumption` that the operations of the plan differ,
as their identities do. Both are evaluated by TLC on the table of `MCRecovery`.

### Aggregate and its migration

`MigrationInv` is of the aggregate between operations and of the books kept about
it. `Wellformed` is the first: `BoxesSound` (mailboxes are sequences in the order of
their queue numbers, numbers are below the counters), `Apart` (entries that share an
acceptance number, a queue number or an identity are one entry in one place),
`Quiet` (what completed or is gone holds nothing), `DeferralSound` (what is deferred
is deferred by the active state, within capacity), `AllDeclared`, and
`SingleRuntime` (the transaction server has no components). `Accounted`,
`Recorded`, `Audited` and `Receipted` are the books: where every number is, which
identities were given, the chain of audit records, and the stretch of it that each
receipt names.

That identities are never reused needs `Known`: an identity in a mailbox is a host's
word or names a logical step that is over. A step that faults takes its emissions
back but keeps its logical step, so the next step that sends anything has another
number in its identities; within one step they differ by target or event, which the
handlers and `FollowUp` are shown to do (`ReactionsSound`, `FollowUpSound`). The
mutant `IdentityOfCause` leaves the step out and breaks exactly this.

A step is followed through its stages, each with one lemma that says what happens to
mailboxes, numbers and books: the event is taken (`PopSound`), sends are emitted
(`EmitSound`), runtimes end (`EndSound`), a state is entered (`EnterSound`), the core
adds its own events (`FollowSendable`), and what is no longer deferred is recalled
(`RecallSound`). Deferral and recall are one lemma about moving entries to the tail of
another mailbox under new numbers (`MoveSound`), completion, cancellation and
migration one about removing entries (`ThinSound`), admission and emission one
about entries that join (`JoinSound`). `Only`, which keeps the entries of a
mailbox that are in a set, is defined without recursion so that it can be proved
about: `OnlyPlaces` and `OnlyElements` say that it keeps those entries, and in
their order. `StepSound`, `AdmitSound` and `MigrateSound` are the results for
whole operations, `AuditedNext` and `ReceiptedMore` those for the trail: a route is a
chain (`RouteChain`), so its records continue the chain of the aggregate it starts
from, also when a worker's migration came between two of the operator.

The assumptions are that a definition declares what its machine sends
(`RemovedAssumption`), that a host's identity is one word, unlike the digest over
five things of the core's (`RequestsAssumption`), and that a route leads between
definitions of one chart and only its last hop disposes of events
(`PlansAssumption`). Capacities, routes, requests and the bounds are arbitrary.

### Store, transport and delivery host

In the store `TimerJoined` and `CutsTellFate` are inductive with the types
(`StoreBooks`): a committed row keeps its place in the journal, and the document
is that of the last row. A joined return names the document its transaction
compared; that this is the document it overwrote needs `SeenCurrent` (what a
single process read is still stored when it writes), which with
`SwapReplacesCompared` makes `SerialBooks`. `DeliveryBooks` says what each of the four steps of an acknowledgement
has established and no other process can take back (`ProgressEarned`), that each
process at work has an attempt of its own (`AttemptsOwned`), and that accepted
attempts, journal and flags name the same items, once each. That the flag is set
in the step that checks it is what makes a second acceptance impossible, however
many processes got as far as the judgement. `HeldGrows` carries the schedule, by
`SeenCurrent` again.

`OwnershipBooks` relates the parts of the host document that a commit changes
together. `TransferBooks`: one transfer for a source item, epochs in commit
order, a binding exactly for each acceptance receipt. `MailboxBooks`: an accepted
item is ready, deferred or terminal, once, and was transferred. `OrderBooks`: no
transferred item of an ordered source has an unresolved one before it.
`WorkerBooks`: what a worker has yet to commit is fresh in the present document,
because a commit sends every other worker back. `AcknowledgedBooks`: what a
source was told to forget is held. It was this proof that showed `Waits` to be
wrong for batches of three or more items, in an earlier form that looked at the
first member only; the run's two items could not show it.

### Effects and authority

`EffectBooks` says of the record which attempts have reports, that a leased
attempt has none and that an unsettled record has no success
(`RecordBooks`), of the pair that checkpoint and journal name each other and agree
on admission (`PairBooks`), of hosts that what they go on to do is still called
for (`HostBooks`), and of calls that without deduplication only the last attempt
ever called and the effect cannot be claimed after it (`CallBooks`); the latter
is why it acts once. The proof needs `"succeeded" \in Mapped`: the validator
requires a mapping of success.

In `AuthorityBooks`, `RecordsBooks` says that receipts and mutations are in the same
order, `FreezeBooks` that the last receipt of a frozen scope is its freeze, and
`GuardBooks` that one session holds the guard or a transaction in doubt and that
an operation inside the guard is not on record: a replay that finds its
receipt never enters. What the storage may still do with a session cut off is part
of the session (`open`, which only an unknown fate allows), so that a fate, once
told, has no transaction left to contradict it. `ClaimBooks` says that a fence was given out once, so that
two valid claims have one fence and are one.

### Timer

* `TimerFiresOnce`: both ways to fire, the worker's own commit and one whose fate
  settles later, leave from the claimed state with the attempt's fence
  (`FireIsOneStep`), and every other action keeps the abstract status and the
  admissions.
* `AnswersStand`: two answers to one operation are equal. `ReceiptsAgree` says that
  an operation has one retained receipt and callers were told only those;
  `CompleteOnce` that a completion's receipt belongs to a timer that fired.
* `AttemptStaysCurrent`: a worker with a commit under way holds the current attempt.
  `AttemptHeld` adds who holds the claim; it is kept because a claim is replaced
  only when its commit is proved not to have happened.
* `FiresInTime`: `NeverEarly`, from `DeadlineAsked`: the record's deadline is what was
  asked for, counted without width, because a sum outside the clock is refused.

### Model-checked only

* All liveness properties (`AcceptedEventuallyTerminal`, `EveryEventSettled`,
  `EveryDeliveryAnswered`, `OutcomeReachesCore`, `EveryCallEnds`): fairness and ENABLED are out of the
  prover's reach.

Every invariant and every action property of a passing run is a theorem. The
theorems about the aggregate are of the two machines in `AggregateCharts`, whose
handlers their proofs go through one by one, with any definitions of them; not of any
chart.

## Not modelled, and why

* *Extension negotiation, adapter registration, capability reports* decide over
  one request document and keep nothing; nothing happens between two decisions.
* *Application projection, inspection, runtime provider profiles*: read-only
  functions of one document, compared with fixed documents.
* *Portable archives* beyond the journal inventory:
  `validate_portable_archive.py` compares sealed documents digest by digest; the
  protocol that moves an archive between scopes is in `Recovery`, its freeze and fence in `HostAuthority`.
* *Drivers* of the public host, adapter policy, host authority, effects and timer
  profiles: they run an adapter process over fixed vectors and compare. What they
  require of the adapter is modelled; their own loops have no state between cases.
* *Record-deletion probes and backup* of the checkpoint: read-only rejections.
* *Values*: variables, payloads, transforms and packages of the core; canonical
  JSON, YAML, schemas, digests.
* *`deliver` of the transport*: appends one row that nothing reads again; its
  outcome is in `DeliveryHost`.
* *The adapter under test*, which is outside the repository.

## What could follow

A model of component activations, so that an event to an
earlier activation of a component can be sent (the stale-target vector). A
composition of `DeliveryHost` with `HostAuthority`, whose epochs it now takes as
given.
