--------------------------- MODULE PersistenceHost ---------------------------
(***************************************************************************)
(* A durable host of the persistence profile: workers that process the       *)
(* deliveries of a broker against a store that holds the checkpoint, the     *)
(* inbox, the application rows and a quarantine record.  The steps of a      *)
(* worker are the calls of the call logs of generate_persistence_case        *)
(* (scripts/generate_execution_checkpoint_profile.py); what the store may    *)
(* hold after them is what validate_persistence_derivation,                  *)
(* validate_checkpoint_derivation and validate_durable_host_vectors          *)
(* (scripts/validate_conformance.py) accept.                                 *)
(*                                                                           *)
(* A delivery is presented in one of two ways: admitted, and acknowledged    *)
(* once it is accepted (checkpoint_admit_v1), or persisted, admitted and     *)
(* processed in one transaction (persistence_process_v1).  The store allows  *)
(* concurrent transactions (durable_concurrent), so a commit compares the    *)
(* checkpoint it read.  A digest is the revision of its checkpoint.          *)
(***************************************************************************)
EXTENDS SpawnedRuntimes, FiniteSets

CONSTANTS
  Worker,
  Persisted,  \* deliveries presented by persistence_process_v1, the others are admitted
  Migrating,  \* those of Persisted whose caller wants the definition migrated
  Faulty,     \* those of Persisted whose artifacts do not resolve at first
  MaxFaults,  \* bound: crashes and transient failures
  NoRequest,
  NoWriter    \* no application write has happened

ASSUME KindAssumption == Persisted \subseteq Deliveries /\ Migrating \cup Faulty \subseteq Persisted
(* The store has room for one quarantine record.                             *)
ASSUME FaultyAssumption == IsFiniteSet(Faulty) /\ Cardinality(Faulty) <= 1
ASSUME MaxFaultsAssumption == MaxFaults \in Nat
ASSUME WriterAssumption == NoWriter \notin Deliveries

VARIABLES
  store,       \* [checkpoint, inbox, rows, quarantine]
  request,     \* per delivery: what its caller presents until it is answered
  worker,      \* per worker: what it staged, for which job and after reading what
  acked,       \* deliveries the broker was told to forget
  refused,     \* deliveries answered with invalid_instance_target
  unresolved,  \* deliveries whose artifacts do not resolve yet
  faults       \* crashes and transient failures so far

vars == <<store, request, worker, acked, refused, unresolved, faults>>

Idle == [kind |-> "idle"]
Rows(disposition) == {x.id : x \in {y \in store.inbox : y.disposition = disposition}}
TerminalIn(c, id) == \E i \in Ends(c) : c.receipts[i].id = id
AcceptedIn(c, id) == \E a \in Accepted(c) : a.id = id

TargetRuns(c, id) ==
  c.status = "running" /\ (MailboxOf(id) = "payment" => c.payment = "running")

-----------------------------------------------------------------------------
(* The caller names the checkpoint it sees and, for a persisted delivery,    *)
(* the migration that is to come first.  It repeats the request until it *)
(* is answered, and makes a new one after a conflict.  The payment runtime   *)
(* is named once it was spawned; a persisted delivery is presented when its  *)
(* target holds nothing, as every vector does, and the payment runtime is    *)
(* given one delivery at a time (bound: what it still holds when it is       *)
(* removed is dropped, and no vector decides that).                          *)
Presentable(c, d) ==
  /\ MailboxOf(d) = "payment" => c.payment # "absent"
  /\ d \in Persisted \cup Pays => c.ready[MailboxOf(d)] = <<>> \/ ~TargetRuns(c, d)

Ask(d) ==
  /\ d \notin acked \cup refused
  /\ request[d] = NoRequest
  /\ Presentable(store.checkpoint, d)
  /\ LET c == store.checkpoint IN
       request' = [request EXCEPT ![d] =
         [kind |-> IF d \in Persisted THEN "persist" ELSE "admit", id |-> d,
          expected |-> c.revision,
          migrates |-> d \in Migrating /\ c.definition = "source"]]
  /\ UNCHANGED <<store, worker, acked, refused, unresolved, faults>>

(* Slip: a released record holds its delivery like any other.                *)
HeldForever(d) == \E q \in store.quarantine : q.id = d

Held(d) == \E q \in store.quarantine : q.id = d /\ ~q.released

(* select_scope, resolve_artifacts and validate_capabilities succeed.        *)
Offered(w, d) ==
  worker[w] = Idle /\ request[d] # NoRequest /\ d \notin unresolved /\ ~Held(d)

(* A permanent failure: no core call, the inbox and the record in one commit. *)
Quarantine(w, d) ==
  /\ worker[w] = Idle
  /\ request[d] # NoRequest
  /\ d \in unresolved
  /\ store.quarantine = {}
  /\ store' = [store EXCEPT !.inbox = @ \cup {[id |-> d, disposition |-> "quarantined"]},
                            !.quarantine = {[id |-> d, released |-> FALSE]}]
  /\ UNCHANGED <<request, worker, acked, refused, unresolved, faults>>

(* persistence_release_quarantine_v1, by an operator who saw to the artifacts. *)
Release(d) ==
  /\ Held(d)
  /\ store' = [store EXCEPT !.quarantine = {[id |-> d, released |-> TRUE]}]
  /\ unresolved' = unresolved \ {d}
  /\ UNCHANGED <<request, worker, acked, refused, faults>>

-----------------------------------------------------------------------------
(* begin_transaction, read_checkpoint, check_replay, then call_core and the  *)
(* staging of checkpoint, inbox, outbox, audit and rows, which touch nothing *)
(* another worker sees.                                                      *)
Replayed(job) ==
  IF job.kind = "persist"
  THEN job.id \in Rows("committed") /\ TerminalIn(store.checkpoint, job.id)
  ELSE AcceptedIn(store.checkpoint, job.id)

CurrentRequest(d) ==
  ~Replayed(request[d]) /\ request[d].expected = store.checkpoint.revision

Staged(kind, id, result) ==
  [kind |-> kind, id |-> id,
   read |-> store.checkpoint.revision, checkpoint |-> result]

Begin(w, d) ==
  LET c == store.checkpoint IN
    /\ Offered(w, d)
    /\ CurrentRequest(d) /\ TargetRuns(c, d)
    /\ worker' = [worker EXCEPT ![w] =
         Staged(request[d].kind, d,
                IF request[d].kind = "persist" THEN Combined(c, d, request[d].migrates)
                ELSE Admitted(c, d))]
    /\ UNCHANGED <<store, request, acked, refused, unresolved, faults>>

(* checkpoint_step_v1, for an entry a runtime holds. *)
BeginStep(w, r) ==
  LET c == store.checkpoint IN
    /\ worker[w] = Idle
    /\ Runnable(c, r)
    /\ worker' = [worker EXCEPT ![w] = Staged("step", Head(c.ready[r]).id, Processed(c, r))]
    /\ UNCHANGED <<store, request, acked, refused, unresolved, faults>>

(* The stored answer, after which the broker is told as after a commit.      *)
AnswerReplay(w, d) ==
  /\ Offered(w, d)
  /\ Replayed(request[d])
  /\ acked' = acked \cup {d}
  /\ request' = [request EXCEPT ![d] = NoRequest]
  /\ UNCHANGED <<store, worker, refused, unresolved, faults>>

(* checkpoint_revision_conflict: the caller has to look again.               *)
Conflict(w, d) ==
  /\ Offered(w, d)
  /\ ~Replayed(request[d]) /\ ~CurrentRequest(d)
  /\ request' = [request EXCEPT ![d] = NoRequest]
  /\ UNCHANGED <<store, worker, acked, refused, unresolved, faults>>

(* invalid_instance_target. *)
Refuse(w, d) ==
  /\ Offered(w, d)
  /\ CurrentRequest(d) /\ ~TargetRuns(store.checkpoint, d)
  /\ refused' = refused \cup {d}
  /\ request' = [request EXCEPT ![d] = NoRequest]
  /\ UNCHANGED <<store, worker, acked, unresolved, faults>>

(* Slip: the store is not compared with what was read.                       *)
AnyRead(w) == TRUE

ReadIsCurrent(w) == worker[w].read = store.checkpoint.revision

Written(s, w) ==
  LET id == worker[w].id
      next == [s EXCEPT !.checkpoint = worker[w].checkpoint]
  IN IF worker[w].kind # "persist" THEN next
     ELSE [next EXCEPT
             !.inbox = {x \in @ : x.id # id} \cup {[id |-> id, disposition |-> "committed"]},
             !.rows = id,
             !.quarantine = {q \in @ : q.id # id}]

(* The broker forgets the delivery once its transaction committed; after a   *)
(* step there is nothing to forget.                                          *)
Commit(w) ==
  LET told == IF worker[w].kind = "step" THEN {} ELSE {worker[w].id} IN
    /\ worker[w] # Idle
    /\ ReadIsCurrent(w)
    /\ store' = Written(store, w)
    /\ acked' = acked \cup told
    /\ request' = [d \in Deliveries |-> IF d \in told THEN NoRequest ELSE request[d]]
    /\ worker' = [worker EXCEPT ![w] = Idle]
    /\ UNCHANGED <<refused, unresolved, faults>>

(* response_lost_after_commit. *)
CommitUnanswered(w) ==
  /\ worker[w] # Idle
  /\ ReadIsCurrent(w)
  /\ faults < MaxFaults
  /\ faults' = faults + 1
  /\ store' = Written(store, w)
  /\ worker' = [worker EXCEPT ![w] = Idle]
  /\ UNCHANGED <<request, acked, refused, unresolved>>

Rollback(w) ==
  /\ worker[w] # Idle
  /\ ~ReadIsCurrent(w)
  /\ worker' = [worker EXCEPT ![w] = Idle]
  /\ request' = IF worker[w].kind = "step" THEN request
                ELSE [request EXCEPT ![worker[w].id] = NoRequest]
  /\ UNCHANGED <<store, acked, refused, unresolved, faults>>

(* injected_pre_commit_failure and transient_processing_failure: nothing     *)
(* staged remains, the request is presented again unchanged.                 *)
Fail(w) ==
  /\ worker[w] # Idle
  /\ faults < MaxFaults
  /\ faults' = faults + 1
  /\ worker' = [worker EXCEPT ![w] = Idle]
  /\ UNCHANGED <<store, request, acked, refused, unresolved>>

-----------------------------------------------------------------------------
Init ==
  /\ store = [checkpoint |-> Created, inbox |-> {}, rows |-> NoWriter, quarantine |-> {}]
  /\ request = [d \in Deliveries |-> NoRequest]
  /\ worker = [w \in Worker |-> Idle]
  /\ acked = {} /\ refused = {}
  /\ unresolved = Faulty
  /\ faults = 0

Present(w, d) ==
  Begin(w, d) \/ AnswerReplay(w, d) \/ Conflict(w, d) \/ Refuse(w, d) \/ Quarantine(w, d)

Work ==
  \/ \E d \in Deliveries : Ask(d) \/ Release(d)
  \/ \E w \in Worker, d \in Deliveries : Present(w, d)
  \/ \E w \in Worker, r \in Runtimes : BeginStep(w, r)
  \/ \E w \in Worker : Commit(w) \/ Rollback(w)

Next == Work \/ \E w \in Worker : CommitUnanswered(w) \/ Fail(w)

(* As long as some caller, worker or the operator can do something, one of   *)
(* them does; which one is left open, and nothing is owed a failure.         *)
Fairness == WF_vars(Work)

Spec == Init /\ [][Next]_vars
FairSpec == Spec /\ Fairness

-----------------------------------------------------------------------------
TypeOK ==
  /\ store.inbox \subseteq [id : Persisted, disposition : {"committed", "quarantined"}]
  /\ store.rows \in Persisted \cup {NoWriter}
  /\ store.quarantine \subseteq [id : Faulty, released : BOOLEAN]
  /\ acked \subseteq Deliveries /\ refused \subseteq Deliveries
  /\ unresolved \subseteq Faulty /\ faults \in 0..MaxFaults

(* Every checkpoint the transitions store passes the checkpoint validator:   *)
(* each host delivery has its acceptance, each native event its producer,    *)
(* nothing is orphaned or in two places, and runtimes take the oldest first. *)
EvidenceLinked == EvidenceValid(store.checkpoint)

(* "checkpoint aggregate, inbox, outbox, migration audit, revision, and      *)
(* participating application rows commit or roll back as one unit": what a   *)
(* persisted delivery left in each of them has one revision, its own, and a  *)
(* delivery that left nothing in one of them left nothing in any.            *)
TransactionWhole ==
  LET c == store.checkpoint
      endOf(d) == {i \in Ends(c) : c.receipts[i].id = d}
  IN /\ \A d \in Persisted :
          IF d \in Rows("committed")
          THEN \E i \in endOf(d) :
                 /\ c.receipts[i - 1].kind = "acceptance" /\ c.receipts[i - 1].id = d
                 /\ {j \in DOMAIN c.receipts : c.receipts[j].revision = c.receipts[i].revision}
                      = {i - 1, i}
                 /\ {n.effect.cause : n \in {m \in Range(c.intents) :
                                              m.revision = c.receipts[i].revision}}
                      = {d} \cap Commits
                 /\ d \notin Migrating =>
                      \A a \in Range(c.audits) : a.sourceRevision # c.receipts[i].revision - 1
          ELSE endOf(d) = {} /\ ~AcceptedIn(c, d) /\ store.rows # d
     /\ \A d \in Rows("committed") :
          store.rows # d => \E e \in Rows("committed") : \E i \in endOf(d), j \in endOf(e) :
                              store.rows = e /\ i < j
     /\ {q.id : q \in store.quarantine} = Rows("quarantined")
     /\ \A a \in Range(c.audits) : \E d \in Rows("committed") \cap Migrating : \E i \in endOf(d) :
          c.receipts[i].revision = a.sourceRevision + 1

(* What the broker was told to forget is in the store for good, through lost *)
(* answers, conflicting transactions and crashes: a persisted delivery with  *)
(* its end and its inbox row, an admitted one with its acceptance.           *)
AcknowledgedStays ==
  \A d \in acked :
    /\ AcceptedIn(store.checkpoint, d)
    /\ d \in Persisted => d \in Rows("committed") /\ TerminalIn(store.checkpoint, d)

(* Every delivery is answered in the end, acknowledged or refused for good,  *)
(* quarantine and failures notwithstanding.                                  *)
EveryDeliveryAnswered == <>(acked \cup refused = Deliveries)
=============================================================================
