-------------------------- MODULE AggregateMigration --------------------------
(***************************************************************************)
(* Migration of an aggregate between definitions, and the checkpoint that    *)
(* holds it; an operator prepares a maintenance migration against the        *)
(* checkpoint it read and sends it, again if the answer was lost, while the  *)
(* worker goes on                                                           *)
(* (scripts/validate_conformance.py, scripts/generate_version1_vectors.py).  *)
(* The descriptors abstract from renamed states; a digest of an aggregate is *)
(* the aggregate.                                                           *)
(***************************************************************************)
EXTENDS Aggregate

CONSTANTS
  Plans,        \* the migrations a host may ask for
  Operations,   \* identities of maintenance operations
  MaxMigrations \* bound: no migration of the worker from this sequence on

(* A descriptor leads from one definition to another, disposes of the named    *)
(* events and preserves a root that ended in one of the named statuses.  A plan *)
(* is a route of descriptors, its target and whether it is for maintenance.     *)
Descriptors == [from : Definitions, to : Definitions,
                disposes : SUBSET STRING, preserves : SUBSET STRING]
ASSUME PlansAssumption ==
  \A p \in Plans :
    /\ p.target \in Definitions
    /\ p.route \in Seq(Descriptors)
    /\ \A i \in DOMAIN p.route :
         /\ Chart[p.route[i].from] = Chart[p.route[i].to]
         /\ i < Len(p.route) => p.route[i].disposes = {}

VARIABLES
  receipts,  \* its maintenance receipts
  audits,    \* its migration audit records
  prepared   \* the request an operator sends for each operation

checkpointVars == <<receipts, audits, prepared>>
migrationVars == <<aggregateVars, checkpointVars>>

NotPrepared == [op |-> "none"]

(* Each descriptor starts where the one before it ended and none leads back.  *)
RouteExact(from, route, target) ==
  LET stops == <<from>> \o [i \in DOMAIN route |-> route[i].to]
  IN /\ \A i \in DOMAIN route : route[i].from = stops[i]
     /\ IsInjective(stops)
     /\ Last(stops) = target

TerminalAllowed(a, p) ==
  p.route # <<>> /\ ~Running(a, "root") =>
    /\ p.maintenance
    /\ \A i \in DOMAIN p.route : a.status["root"] \in p.route[i].preserves

DisposedEvents(p) == UNION {p.route[i].disposes : i \in DOMAIN p.route}

Migrated(a, p) ==
  LET kept == {e \in Retained(a) : e.event \notin DisposedEvents(p)}
  IN [a EXCEPT !.definition = p.target,
               !.migrations = @ + Len(p.route),
               !.ready = [r \in Runtimes |-> Only(@[r], kept)],
               !.deferred = [r \in Runtimes |-> Only(@[r], kept)]]

(* Whatever is retained must be work of the target definition.               *)
Total(a, d) ==
  /\ \A e \in Retained(a) : e.event \in Declared(d, e.mode)
  /\ \A r \in Runtimes : Len(a.deferred[r]) <= Capacity[d]

Migratable(a, p) ==
  /\ RouteExact(a.definition, p.route, p.target)
  /\ TerminalAllowed(a, p)
  /\ p.route # <<>> => Total(Migrated(a, p), p.target)

AuditRecord(sequence, descriptor) ==
  [sequence |-> sequence, from |-> descriptor.from, to |-> descriptor.to]

AuditRecords(a, p) ==
  [i \in DOMAIN p.route |-> AuditRecord(a.migrations + i, p.route[i])]

MigrationHappens(p) ==
  /\ agg' = Migrated(agg, p)
  /\ disposed' = disposed \cup Numbers(Retained(agg) \ Retained(Migrated(agg, p)))
  /\ audits' = audits \o AuditRecords(agg, p)
  /\ UNCHANGED <<consumed, produced>>

-----------------------------------------------------------------------------
(* A maintenance request names the state it was prepared for.  Its digest is   *)
(* recomputed with the state of the checkpoint it meets.                       *)
Canonical(q) == q.source = agg
(* The revision and the digest a request expects are those of the checkpoint it *)
(* was prepared for; no two checkpoints of a history have the same aggregate and *)
(* the same number of receipts.                                               *)
Current(q) == q.source = agg /\ q.held = Len(receipts)
ReceiptOf(q) == {i \in DOMAIN receipts : receipts[i].op = q.op}
Content(q) == [plan |-> q.plan, source |-> q.source]

(* The receipt of a committed operation names the records it adds.            *)
NewReceipt(q) ==
  [op |-> q.op, content |-> Content(q),
   sequences |-> {u.sequence : u \in Elements(AuditRecords(agg, q.plan))}]

(* Slip: the retained receipt is not looked up. *)
AnswerByRevision(q) ==
  CASE ~Canonical(q) -> "digest_not_canonical"
    [] ~Current(q) -> "checkpoint_revision_conflict"
    [] ~Migratable(agg, q.plan) -> "rejected"
    [] OTHER -> "committed"
(* The answers in the order they are decided: the digest, the retained receipt  *)
(* of the operation, the revision, the migration.                              *)
Answer(q) ==
  CASE ~Canonical(q) -> "digest_not_canonical"
    [] \E i \in ReceiptOf(q) : receipts[i].content = Content(q) -> "replayed"
    [] ReceiptOf(q) # {} -> "operation_id_conflict"
    [] ~Current(q) -> "checkpoint_revision_conflict"
    [] ~Migratable(agg, q.plan) -> "rejected"
    [] OTHER -> "committed"

(* What the validator demands of maintenance receipts: one for an operation, each *)
(* with its own consecutive audit records, which lead from the definition of the  *)
(* state it names as its source to its target.                                 *)
ReceiptsValid ==
  /\ \A i, j \in DOMAIN receipts :
       i # j => receipts[i].op # receipts[j].op /\ receipts[i].sequences \cap receipts[j].sequences = {}
  /\ \A i \in DOMAIN receipts :
       LET content == receipts[i].content
           mine == {u \in Elements(audits) : u.sequence \in receipts[i].sequences}
       IN /\ receipts[i].sequences \subseteq {u.sequence : u \in mine}
          /\ IF mine = {} THEN content.plan.target = content.source.definition
             ELSE \E first, last \in mine :
                    /\ receipts[i].sequences = first.sequence .. last.sequence
                    /\ first.from = content.source.definition
                    /\ last.to = content.plan.target

-----------------------------------------------------------------------------
MigrationInit == AggregateInit /\ receipts = <<>> /\ audits = <<>>
                               /\ prepared = [o \in Operations |-> NotPrepared]

(* The worker's own operations; the first of a migration and a delivery in one  *)
(* operation is a migration of the worker.                                     *)
Work(r) == Step(r) /\ UNCHANGED checkpointVars
Accept(batch) == agg.nextAcceptance < MaxAccepted /\ Admit(batch) /\ UNCHANGED checkpointVars
Migrate(p) ==
  /\ ~p.maintenance /\ p.route # <<>> /\ agg.migrations < MaxMigrations
  /\ Migratable(agg, p)
  /\ MigrationHappens(p)
  /\ UNCHANGED <<receipts, prepared>>

(* The operator reads the checkpoint and builds a request for it.             *)
Prepare(o, p) ==
  /\ p.maintenance /\ RouteExact(agg.definition, p.route, p.target)
  /\ prepared' = [prepared EXCEPT ![o] =
                    [op |-> o, plan |-> p, source |-> agg, held |-> Len(receipts)]]
  /\ UNCHANGED <<aggregateVars, receipts, audits>>

(* The request arrives; all answers but one change nothing.                   *)
Maintain(o) ==
  LET q == prepared[o]
  IN /\ q # NotPrepared
     /\ Answer(q) = "committed"
     /\ MigrationHappens(q.plan)
     /\ receipts' = Append(receipts, NewReceipt(q))
     /\ UNCHANGED prepared

MigrationNext ==
  \/ \E batch \in Batches : Accept(batch)
  \/ \E r \in Runtimes : Work(r)
  \/ \E p \in Plans : Migrate(p)
  \/ \E o \in Operations, p \in Plans : Prepare(o, p)
  \/ \E o \in Operations : Maintain(o)

MigrationSpec == MigrationInit /\ [][MigrationNext]_migrationVars

(* A host goes on stepping as long as some runtime has ready work: weak fairness *)
(* of Work, with what enables it written out.                                  *)
Busy == \E r \in Runtimes : Runnable(agg, r)
HostFairness == []<>~Busy \/ []<><<\E r \in Runtimes : Work(r)>>_migrationVars
FairSpec == MigrationSpec /\ HostFairness

-----------------------------------------------------------------------------
Boxes == {"ready", "deferred"} \X Runtimes
Spots == UNION {{<<b[1], b[2], i>> : i \in 1..Len(agg[b[1]][b[2]])} : b \in Boxes}
NumberAt(s) == agg[s[1]][s[2]][s[3]].accepted

(* Every event ever accepted, of a host or of a machine, is in exactly one place: *)
(* in one mailbox, taken by one step, or disposed of with the runtime or the      *)
(* definition that no longer has a use for it.  Steps with emissions, deferral,   *)
(* recall, rollback, cancellation and completion, and migrations, each move       *)
(* entries in their own way.                                                  *)
EveryEventAccounted ==
  LET kept == Numbers(Retained(agg))
  IN /\ kept \cup consumed \cup disposed = 0 .. agg.nextAcceptance - 1
     /\ kept \cap consumed = {} /\ kept \cap disposed = {} /\ consumed \cap disposed = {}
     /\ \A s, t \in Spots : NumberAt(s) = NumberAt(t) => s = t

(* What is held back is held back by the state that is active, within the         *)
(* capacity of the definition that is current; a runtime that completed or is     *)
(* gone holds nothing; and all that is held is work the current definition still  *)
(* declares.                                                                 *)
HeldForAReason ==
  /\ \A r \in Runtimes :
       /\ \A e \in Elements(agg.deferred[r]) : Defers(Leaf(agg, r), e.event)
       /\ Len(agg.deferred[r]) <= Capacity[agg.definition]
       /\ agg.status[r] \in {"completed", "absent"} => agg.ready[r] = <<>> /\ agg.deferred[r] = <<>>
  /\ \A e \in Retained(agg) : e.event \in Declared(agg.definition, e.mode)

(* Recalls and deferrals renumber entries, faults take numbers back, completions  *)
(* and migrations remove entries from the middle; still every aggregate that is   *)
(* stored, and every step result, passes the validator, and what an aggregate      *)
(* holds back it holds back for a reason.                                      *)
EveryResultValid ==
  /\ AggregateValid(agg) /\ HeldForAReason
  /\ \A r \in Runtimes : Runnable(agg, r) => \A o \in Outcomes(agg, r) : StepResultValid(o)

(* No two events a machine sends get the same identity, also when a step that     *)
(* faulted took back what it sent.                                            *)
IdentitiesNeverReused ==
  \A e, f \in produced : e # f => e.id # f.id /\ e.accepted # f.accepted

(* The audit records tell the definitions the aggregate had, without a gap, also  *)
(* when the worker's migrations come between those of the operator, and the       *)
(* receipts of maintenance pass the validator.                                 *)
AuditTrail ==
  /\ Len(audits) = agg.migrations
  /\ \A i \in DOMAIN audits : audits[i].sequence = i
  /\ \A i \in 1 .. Len(audits) - 1 : audits[i].to = audits[i + 1].from
  /\ audits # <<>> => Last(audits).to = agg.definition
  /\ ReceiptsValid

(* Once the root completed or faulted, nothing is taken, disposed of or accepted  *)
(* and no runtime changes; only a maintenance migration still changes the         *)
(* aggregate.                                                                *)
TerminalFrozen ==
  [][~Running(agg, "root") =>
       /\ UNCHANGED <<consumed, produced>>
       /\ agg'.status = agg.status /\ agg'.nextAcceptance = agg.nextAcceptance
       /\ agg' # agg => Len(receipts') > Len(receipts)]_migrationVars

(* Every accepted event, and every event its processing sends, is eventually      *)
(* taken, disposed of, or held back by its state, unless its runtime or the       *)
(* aggregate ends first: reactions, deferral and recall never keep a host busy    *)
(* for ever.                                                                *)
Settled(n) ==
  \/ n \in consumed \cup disposed
  \/ \E r \in Runtimes :
       \/ n \in Numbers(Elements(agg.deferred[r]))
       \/ n \in Numbers(Elements(agg.ready[r])) /\ ~(Running(agg, r) /\ Running(agg, "root"))
EveryEventSettled == []<>(\A n \in 0 .. agg.nextAcceptance - 1 : Settled(n))

(* A maintenance request that was committed and is sent again unchanged is        *)
(* answered from its receipt (conformance/profiles/execution-checkpoint/README.md). *)
MaintenanceRetryReplayed ==
  \A o \in Operations :
    prepared[o] # NotPrepared /\ (\E i \in DOMAIN receipts :
                                    /\ receipts[i].op = o
                                    /\ receipts[i].content = Content(prepared[o]))
      => Answer(prepared[o]) = "replayed"
=============================================================================
