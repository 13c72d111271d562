------------------------------ MODULE Aggregate ------------------------------
(***************************************************************************)
(* The aggregate of a root and its components, as the version-1 vectors      *)
(* require the core to change it (scripts/validate_conformance.py,           *)
(* validate_version1_vectors and the validators it calls): admission of      *)
(* batches, steps with deferral and recall, and the lifecycle of components. *)
(* The aggregate is one record, agg, because the code passes one document    *)
(* from operation to operation.  The rest is history: what became of every   *)
(* acceptance number.                                                        *)
(***************************************************************************)
EXTENDS AggregateCharts, Naturals, FiniteSets, SequencesExt

CONSTANTS
  Definitions,  \* the definitions (validated bundles) of one root
  Chart,        \* the machine of each
  Capacity,     \* the deferred_event_capacity of each
  Removed,      \* the events of its machine a definition no longer declares
  Requests,     \* the deliveries a host may submit
  MaxBatch,     \* bound: members of a batch
  MaxAccepted   \* bound: no admission from this acceptance number on

ASSUME ChartAssumption == Chart \in [Definitions -> Machines]
ASSUME CapacityAssumption == Capacity \in [Definitions -> Nat]
(* A validated definition declares every event its machine sends.            *)
ASSUME RemovedAssumption == \A d \in Definitions :
         Removed[d] \cap (InternalEvents[Chart[d]] \cup Reserved) = {}
(* The identity of a host's event is one word; that of an event the core sends is *)
(* a digest over five things (EventIdentity), which no host sends.              *)
ASSUME RequestsAssumption == \A q \in Requests : q.target \in Runtimes /\ Len(q.id) = 1
ASSUME BatchAssumption == MaxBatch \in Nat

VARIABLES
  agg,       \* the aggregate state
  consumed,  \* acceptance numbers whose event a step took
  disposed,  \* acceptance numbers whose event was disposed of
  produced   \* the identities of all internal events, with their numbers

aggregateVars == <<agg, consumed, disposed, produced>>

Elements(s) == {s[i] : i \in 1..Len(s)}
Running(a, r) == a.status[r] = "running"
Retained(a) == UNION {Elements(a.ready[r]) \cup Elements(a.deferred[r]) : r \in Runtimes}
Numbers(entries) == {e.accepted : e \in entries}

(* The elements of s that are in T, in their order: SelectSeq, defined without   *)
(* recursion.                                                                *)
Only(s, T) ==
  LET places == {i \in 1..Len(s) : s[i] \in T}
      nth == CHOOSE f \in [1..Cardinality(places) -> places] :
               \A j, k \in 1..Cardinality(places) : j < k => f[j] < f[k]
  IN [k \in 1..Cardinality(places) |-> s[nth[k]]]

(* create_v1_root. *)
Created(d) ==
  LET leaf == InitialLeaf[Chart[d]]
      live == {"root"} \cup ComponentsOf(leaf)
  IN [definition |-> d,
      status |-> [r \in Runtimes |-> IF r \in live THEN "running" ELSE "absent"],
      leaf |-> leaf,
      ready |-> [r \in Runtimes |-> <<>>],
      deferred |-> [r \in Runtimes |-> <<>>],
      nextStep |-> 1, nextAcceptance |-> 0, nextQueue |-> 0,
      migrations |-> 0]

-----------------------------------------------------------------------------
(* Admission.  A request names its event, target and delivery mode; sound says *)
(* that the supplied digest is that of its envelope, proper that its source,   *)
(* cause, correlation and payload are those its event declares.               *)

SameContent(q, e) == e.event = q.event /\ e.mode = q.mode
ConflictingIdentity(a, q) == \E e \in Retained(a) : e.id = q.id /\ ~SameContent(q, e)
Replayed(a, q) == \E e \in Retained(a) : e.id = q.id /\ SameContent(q, e)

DeliveryValid(q) == q.mode \in {"input", "internal"} /\ q.sound

(* Slip: the status of the root is not looked at. *)
TargetRunsOnly(a, q) ==
  a.status[q.target] = "running" /\ (q.target # "root" => q.mode = "internal")
TargetAccepts(a, q) ==
  /\ a.status[q.target] = "running"
  /\ Running(a, "root")
  /\ q.target # "root" => q.mode = "internal"

(* The events a definition declares for each delivery mode. *)
Declared(d, mode) ==
  (IF mode = "input" THEN InputEvents[Chart[d]] ELSE InternalEvents[Chart[d]] \cup Reserved)
  \ Removed[d]
EventAccepted(a, q) == q.event \in Declared(a.definition, q.mode)

ContractHolds(a, q) == TargetAccepts(a, q) /\ EventAccepted(a, q) /\ q.proper

(* Events join the tails of their targets' ready mailboxes. *)
Enqueued(a, xs) ==
  LET arrivals == [i \in 1..Len(xs) |->
                     [id |-> xs[i].id, event |-> xs[i].event, mode |-> xs[i].mode,
                      accepted |-> a.nextAcceptance + i - 1, queue |-> a.nextQueue + i - 1]]
      To(r) == {arrivals[i] : i \in {j \in 1..Len(xs) : xs[j].to = r}}
  IN [a EXCEPT !.ready = [r \in Runtimes |-> @[r] \o Only(arrivals, To(r))],
               !.nextAcceptance = @ + Len(xs), !.nextQueue = @ + Len(xs)]

(* The whole batch is accepted or nothing is. *)
Admissible(a, batch) ==
  /\ \A i, j \in 1..Len(batch) : i # j => batch[i].id # batch[j].id
  /\ \A i \in 1..Len(batch) :
       /\ ~ConflictingIdentity(a, batch[i])
       /\ ~Replayed(a, batch[i])
       /\ DeliveryValid(batch[i])
       /\ ContractHolds(a, batch[i])

Admitted(a, batch) ==
  Enqueued(a, [i \in 1..Len(batch) |->
               [to |-> batch[i].target, id |-> batch[i].id, event |-> batch[i].event,
                mode |-> batch[i].mode]])

-----------------------------------------------------------------------------
(* Steps.  An outcome is a core step result: the next state, its disposition, *)
(* the numbers taken and disposed of, and the internal events emitted.        *)

Outcome(state, disposition, taken, gone, emitted) ==
  [state |-> state, disposition |-> disposition, taken |-> taken, gone |-> gone,
   emitted |-> emitted]

Leaf(a, r) == IF r = "root" THEN a.leaf ELSE r
Popped(a, r) == [a EXCEPT !.ready[r] = Tail(@)]
Defers(leaf, event) == event \in DeferredIn(leaf) /\ event \notin Reserved

(* Slip: the event goes back to the ready mailbox. *)
PostponedToTail(a, r) == [Popped(a, r) EXCEPT !.ready[r] = Append(@, Head(a.ready[r]))]
(* Deferring takes a new queue number and no logical step. *)
Postponed(a, r) ==
  [Popped(a, r) EXCEPT !.deferred[r] = Append(@, [Head(a.ready[r]) EXCEPT !.queue = a.nextQueue]),
                       !.nextQueue = @ + 1]

(* Slip: the event is undone with the rest. *)
FaultKeepsEvent(a, r) == [a EXCEPT !.status["root"] = "faulted", !.nextStep = @ + 1]
(* A fault takes the event and the logical step and undoes everything else. *)
Faulted(a, r) ==
  [Popped(a, r) EXCEPT !.status["root"] = "faulted", !.nextStep = @ + 1]

(* Slip: the logical step is not part of the identity. *)
IdentityOfCause(cause, step, send) == <<cause, send.from, send.to, send.event>>
(* The identity of an emission is a digest over its cause, which is the event  *)
(* delivered, the logical step, its source, its target and its place in the     *)
(* definition.                                                               *)
EventIdentity(cause, step, send) == <<cause, step, send.from, send.to, send.event>>

Emitted(a, sends, cause) ==
  Enqueued(a, [i \in 1..Len(sends) |->
               [to |-> sends[i].to, event |-> sends[i].event, mode |-> "internal",
                id |-> EventIdentity(cause, a.nextStep, sends[i])]])
From(r, sends) ==
  [i \in 1..Len(sends) |-> [from |-> r, to |-> sends[i].to, event |-> sends[i].event]]

(* The runtimes a reaction ends: a root that leaves its state cancels its       *)
(* components, and a runtime that reaches its final state or stops completes.   *)
Cancelled(a, r, x) ==
  IF r = "root" /\ x.kind # "stay"
  THEN {c \in ComponentsOf(a.leaf) : a.status[c] # "absent"} ELSE {}
Completed(r, x) == IF x.kind \in {"final", "stop"} THEN {r} ELSE {}

Ended(a, cancelled, completed) ==
  [a EXCEPT !.status = [r \in Runtimes |-> IF r \in cancelled THEN "absent"
                                          ELSE IF r \in completed THEN "completed" ELSE @[r]],
            !.ready = [r \in Runtimes |-> IF r \in cancelled \cup completed THEN <<>> ELSE @[r]],
            !.deferred = [r \in Runtimes |-> IF r \in cancelled \cup completed THEN <<>> ELSE @[r]]]

(* The components of the state the root enters; some fault as they start. *)
Entered(a, x) ==
  IF x.kind # "move" THEN a
  ELSE [a EXCEPT !.leaf = x.goto,
                 !.status = [r \in Runtimes |-> IF r \notin ComponentsOf(x.goto) THEN @[r]
                                               ELSE IF r \in Elements(FaultAtStart(x.goto)) THEN "faulted"
                                               ELSE "running"]]

(* What the core adds: the entry action of the state, the failure of a component *)
(* that faults as it starts, the completion of a component and, with the last of *)
(* its state, that the state is done.                                          *)
FollowUp(a, r, x) ==
  CASE x.kind = "move" ->
         From(r, EntrySends(x.goto))
         \o [i \in 1..Len(FaultAtStart(x.goto)) |->
              [from |-> FaultAtStart(x.goto)[i], to |-> "root", event |-> "component_failed"]]
    [] r # "root" /\ x.kind = "final" ->
         From(r, <<Send("component_completed", "root")>>)
         \o (IF \A c \in ComponentsOf(a.leaf) : a.status[c] = "completed"
             THEN From("root", <<Send("done", "root")>>) ELSE <<>>)
    [] OTHER -> <<>>

(* The deferred entries of a runtime that its state still defers. *)
StillDeferred(a, r) == {e \in Elements(a.deferred[r]) : Defers(Leaf(a, r), e.event)}
(* Slip: recalled entries keep their numbers. *)
RecalledInPlace(a, r) ==
  LET still == StillDeferred(a, r)
  IN [a EXCEPT !.deferred[r] = Only(@, still),
               !.ready[r] = @ \o Only(a.deferred[r], Elements(a.deferred[r]) \ still)]
(* What the state no longer defers goes to the tail of the ready mailbox, in    *)
(* order and under new queue numbers.                                         *)
Recalled(a, r) ==
  LET still == StillDeferred(a, r)
      back == Only(a.deferred[r], Elements(a.deferred[r]) \ still)
  IN [a EXCEPT !.deferred[r] = Only(@, still),
               !.ready[r] = @ \o [i \in 1..Len(back) |->
                                    [back[i] EXCEPT !.queue = a.nextQueue + i - 1]],
               !.nextQueue = @ + Len(back)]

Identities(entries) == {[id |-> e.id, accepted |-> e.accepted] : e \in entries}

Handled(a, r, x) ==
  LET event    == Head(a.ready[r])
      popped   == Popped(a, r)
      sent     == Emitted(popped, From(r, x.sends), event.id)
      ended    == Ended(sent, Cancelled(a, r, x), Completed(r, x))
      entered  == Entered(ended, x)
      followed == Emitted(entered, FollowUp(entered, r, x), event.id)
      next     == [Recalled(followed, r) EXCEPT !.nextStep = @ + 1]
      emitted  == (Retained(sent) \ Retained(popped)) \cup (Retained(followed) \ Retained(entered))
  IN Outcome(next, "handled", {event.accepted},
             Numbers(Retained(popped) \cup emitted) \ Numbers(Retained(next)),
             Identities(emitted))

(* A reaction completes if no exit action it runs faults and what it sends to  *)
(* is running; no vector decides what a send to a runtime that is not running   *)
(* does, here the action faults.                                             *)
Completes(a, r, x) ==
  /\ ~(r = "root" /\ x.kind # "stay" /\ ExitFaults(a.leaf))
  /\ \A i \in DOMAIN x.sends : Running(a, x.sends[i].to)

FaultOutcome(a, r) ==
  Outcome(Faulted(a, r), "faulted", {Head(a.ready[r]).accepted}, {}, {})

(* What a step of a runtime with ready work does. *)
Outcomes(a, r) ==
  LET event == Head(a.ready[r])
      reactions == Reactions(Leaf(a, r), event.event)
  IN IF Defers(Leaf(a, r), event.event)
     THEN IF Len(a.deferred[r]) >= Capacity[a.definition]
          THEN {FaultOutcome(a, r)}
          ELSE {Outcome(Postponed(a, r), "deferred", {}, {}, {})}
     ELSE IF reactions # {}
     THEN {IF Completes(a, r, x) THEN Handled(a, r, x) ELSE FaultOutcome(a, r) : x \in reactions}
     ELSE IF event.event \in MustBeHandled
     THEN {FaultOutcome(a, r)}
     ELSE {Outcome(Popped(a, r), "unhandled", {event.accepted}, {}, {})}

(* A step of a runtime that is gone, of an inactive component, or under a root   *)
(* that ended is rejected; with nothing ready it is not runnable.              *)
Runnable(a, r) == Running(a, "root") /\ Running(a, r) /\ a.ready[r] # <<>>

-----------------------------------------------------------------------------
(* What the validator demands of every aggregate and of every step result.     *)

Mailboxes(a) == {a.ready[r] : r \in Runtimes} \cup {a.deferred[r] : r \in Runtimes}

(* Identities, acceptance and queue numbers are not shared and below the       *)
(* counters, mailboxes are in queue order, and what completed holds nothing.    *)
AggregateValid(a) ==
  /\ \A e, f \in Retained(a) :
       e # f => e.queue # f.queue /\ e.id # f.id /\ e.accepted # f.accepted
  /\ \A e \in Retained(a) : e.queue < a.nextQueue /\ e.accepted < a.nextAcceptance
  /\ \A m \in Mailboxes(a) : \A i, j \in DOMAIN m : i < j => m[i].queue < m[j].queue
  /\ \A r \in Runtimes : a.status[r] = "completed" => a.ready[r] = <<>> /\ a.deferred[r] = <<>>

(* An emitted event is in one mailbox or disposed of, never both, and a result  *)
(* that is no handled step emits and disposes of nothing.                      *)
StepResultValid(o) ==
  /\ \A e \in o.emitted :
       (e.accepted \in Numbers(Retained(o.state))) # (e.accepted \in o.gone)
  /\ o.gone \cap Numbers(Retained(o.state)) = {}
  /\ o.disposition # "handled" => o.emitted = {} /\ o.gone = {}

-----------------------------------------------------------------------------
AggregateInit ==
  /\ \E d \in Definitions : agg = Created(d)
  /\ consumed = {} /\ disposed = {} /\ produced = {}

Happens(o) ==
  /\ agg' = o.state
  /\ consumed' = consumed \cup o.taken
  /\ disposed' = disposed \cup o.gone
  /\ produced' = produced \cup o.emitted

Admit(batch) ==
  /\ Admissible(agg, batch)
  /\ agg' = Admitted(agg, batch)
  /\ UNCHANGED <<consumed, disposed, produced>>

Step(r) == Runnable(agg, r) /\ \E o \in Outcomes(agg, r) : Happens(o)

Batches == UNION {[1..n -> Requests] : n \in 1..MaxBatch}
=============================================================================
